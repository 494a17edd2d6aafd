-------------------------- MODULE RequestResponse --------------------------
(***************************************************************************)
(* The example's use of the library: requests are numbered, written as     *)
(* messages over UDP, and wait for the replies of the same number as       *)
(* one-shot routes of a TemporaryRouter. A route is added when the write   *)
(* is complete. One kind of request has functions called (func), the other *)
(* has futures that are listened to (monitored); each kind has a counter   *)
(* of its own.                                                             *)
(*                                                                         *)
(* All of it but the calls of write() is on the io thread, which serves a  *)
(* queue. Datagrams are sequences of bytes; the peer and the network are   *)
(* external: the peer answers with the message it was sent, and datagrams  *)
(* may be lost, duplicated and delivered in another order.                 *)
(***************************************************************************)
EXTENDS NewMessage, FiniteSets, SequencesExt

CONSTANTS
    Requests,        \* numbered 1, 2, ...; a thread writes its own in this order
    Kind,            \* of a request: "func", "monitored", or "other", a type that
                     \* the stage does not handle
    Eager,           \* the requests that a stage writes when the pipeline is active
    Age, Name, Room, \* of a request: fields of its message, and the size of its buffer
    LeftDelimiter, RightDelimiter,
    Registered,      \* the metas given to the MessageFactory, in order: ids and types
    FirstSeq,        \* the counters' first value; any is reached by earlier requests
    Strays,          \* datagrams that are not an answer
    MaxReads         \* bound on the datagrams that are received

Types == <<"func", "monitored">>    \* that the stage handles, in the order tried
Counters == {Types[i] : i \in DOMAIN Types}

ASSUME RequestResponseAssumption ==
    /\ Requests \subseteq Nat \ {0} /\ IsFiniteSet(Requests) /\ Eager \subseteq Requests
    /\ Kind \in [Requests -> Counters \cup {"other"}]
    /\ \A r \in Eager, q \in Requests \ Eager : Kind[q] = Kind[r] => r < q
    /\ Age \in [Requests -> UInt16] /\ Room \in [Requests -> Nat \ {0, 1}]
    /\ Name \in [Requests -> Seq(0..(Base - 1))]
    /\ \A r \in Requests : Len(Name[r]) \in UInt16
    /\ {LeftDelimiter, RightDelimiter, messageId} \subseteq UInt16
    /\ \A i \in DOMAIN Registered : Registered[i].id \in UInt16
    /\ FirstSeq \in Nat \ {0} /\ MaxReads \in Nat /\ Strays \subseteq Seq(0..(Base - 1))

VARIABLES
    seq,       \* the two static counters
    message,   \* the message objects
    queue,     \* the io thread's tasks and handlers
    sending,   \* requests whose async_send is under way
    wire,      \* what was encoded, by request
    left,      \* requests whose datagram left
    routes,    \* _M_Routes of the TemporaryRouter; one route at most has a key, so
               \* that their order is not seen
    written,   \* history: the requests given to write()
    outcome,   \* history: what the request was told of its write
    refused,   \* history: requests whose route was not added
    heard,     \* history: the messages that each callback was given
    answered,  \* history: requests with a reply handled after the write was complete
    reads      \* history: the number of datagrams received

vars == <<seq, message, queue, sending, wire, left, routes, written, outcome, refused, heard,
          answered, reads>>

Task(do, r, bytes) == [do |-> do, r |-> r, bytes |-> bytes]

Init ==
    /\ seq = [k \in Counters |-> FirstSeq]
    /\ message = [r \in Requests |->
                    [Fresh EXCEPT !.pif = LeftDelimiter, !.eif = RightDelimiter,
                                  !.age = Age[r], !.name = Name[r]]]
    /\ queue = IF Eager = {} THEN <<>> ELSE <<Task("active", 0, <<>>)>>
    /\ sending = {}
    /\ wire = [r \in Requests |-> <<>>]
    /\ left = {}
    /\ routes = {}
    /\ written = Eager
    /\ outcome = [r \in Requests |-> "none"]
    /\ refused = {}
    /\ heard = [r \in Requests |-> <<>>]
    /\ answered = {}
    /\ reads = 0

------------------------------------------------------------------------------
\* Mutant: a route has the number that the counter has given last.
RouteOfLast(r) == [request |-> r, id |-> message[r].mid, number |-> seq[Kind[r]] - 1]

\* A route has the key that its message was given.
Route(r) == [request |-> r, id |-> message[r].mid, number |-> message[r].seq]

match(route, event) == route.id = event.mid /\ route.number = event.seq
SameKey(a, b) == a.id = b.id /\ a.number = b.number

\* TemporaryRouter::add refuses a key that is listed.
canAdd(route) == ~\E listed \in routes : SameKey(listed, route)

addRoute(r) ==
    IF canAdd(Route(r))
    THEN routes' = routes \cup {Route(r)} /\ UNCHANGED refused
    ELSE refused' = refused \cup {r} /\ UNCHANGED routes

\* TemporaryRouter::post erases each route that matches, and calls it.
postEvent(event) ==
    /\ heard' = [r \in Requests |->
                   IF \E route \in routes : route.request = r /\ match(route, event)
                   THEN Append(heard[r], event) ELSE heard[r]]
    /\ routes' = {route \in routes : ~match(route, event)}

------------------------------------------------------------------------------
\* write() of a user, on its thread, queues a task: a user writes its requests
\* in their order, and monitored ones have a user of their own.
write(r) ==
    /\ r \notin written
    /\ \A q \in Requests : q < r /\ Kind[q] = Kind[r] => q \in written
    /\ written' = written \cup {r}
    /\ queue' = Append(queue, Task("write", r, <<>>))
    /\ UNCHANGED <<seq, message, sending, wire, left, routes, outcome, refused, heard, answered,
                   reads>>

\* The requests that the task at the head of the queue writes, in their order.
Due ==
    IF queue = <<>> THEN {}
    ELSE CASE Head(queue).do = "active" -> Eager
           [] Head(queue).do = "write" -> {Head(queue).r}
           [] OTHER -> {}

\* The number of a request: those of its kind before it in the task have theirs.
counterOf(r) == seq[Kind[r]] + Cardinality({q \in Due : q < r /\ Kind[q] = Kind[r]})

\* handleTypeWrite of the first type that fits numbers the message; the encoder and
\* the last stage follow, in the same call. The encoder does not look at what became
\* of the fields and passes the message on. A type that none fits is an exception.
numbered(r) == [message[r] EXCEPT !.seq = toUInt16(counterOf(r))]

handleWrite ==
    LET handled == {r \in Due : Kind[r] \in Counters}
        buffer(r) == serialize(newBuffer(Room[r]), numbered(r))
    IN  /\ Due # {}
        /\ queue' = Tail(queue)
        /\ seq' = [k \in Counters |-> seq[k] + Cardinality({r \in handled : Kind[r] = k})]
        /\ message' = [r \in Requests |-> IF r \in handled THEN numbered(r) ELSE message[r]]
        /\ wire' = [r \in Requests |-> IF r \in handled THEN Readable(buffer(r)) ELSE wire[r]]
        /\ sending' = sending \cup handled
        /\ UNCHANGED <<left, routes, written, outcome, refused, heard, answered, reads>>

\* The datagram of a request leaves; the send ends, and its handler is queued.
leave(r) ==
    /\ r \in sending \ left
    /\ left' = left \cup {r}
    /\ UNCHANGED <<seq, message, queue, sending, wire, routes, written, outcome, refused,
                   heard, answered, reads>>

sendEnds(r) ==
    /\ r \in sending
    /\ sending' = sending \ {r}
    /\ queue' = Append(queue, Task(IF r \in left THEN "written" ELSE "failed", r, <<>>))
    /\ UNCHANGED <<seq, message, wire, left, routes, written, outcome, refused, heard, answered,
                   reads>>

\* Mutant: the route is added for one of the kinds.
WrittenOfFunc ==
    LET r == Head(queue).r
    IN  /\ queue # <<>> /\ Head(queue).do = "written"
        /\ queue' = Tail(queue)
        /\ outcome' = [outcome EXCEPT ![r] = "written"]
        /\ IF Kind[r] = "func" THEN addRoute(r) ELSE UNCHANGED <<routes, refused>>
        /\ UNCHANGED <<seq, message, sending, wire, left, written, heard, answered, reads>>

\* writeComplete: the function of a func request, in the execution context of this
\* thread, or the listener on the future of a monitored one, adds the route.
writeComplete ==
    LET r == Head(queue).r
    IN  /\ queue # <<>> /\ Head(queue).do = "written"
        /\ queue' = Tail(queue)
        /\ outcome' = [outcome EXCEPT ![r] = "written"]
        /\ addRoute(r)
        /\ UNCHANGED <<seq, message, sending, wire, left, written, heard, answered, reads>>

\* error: there is no function for it, and only the future of errors is told.
writeError ==
    /\ queue # <<>> /\ Head(queue).do = "failed"
    /\ queue' = Tail(queue)
    /\ outcome' = [outcome EXCEPT ![Head(queue).r] = "failed"]
    /\ UNCHANGED <<seq, message, sending, wire, left, routes, written, refused, heard, answered,
                   reads>>

------------------------------------------------------------------------------
\* Frames as the decoder finds them, in a datagram that is one (FrameDecoder has
\* the search in a stream).
Received(bytes) ==
    setReadableLength([newBuffer(Len(bytes)) EXCEPT !.data = bytes], Len(bytes))

numberAt(bytes, i) == fromEndian(SubSeq(bytes, i, i + 1))

Framed(bytes) ==
    /\ Len(bytes) >= 8
    /\ numberAt(bytes, 1) = LeftDelimiter
    /\ numberAt(bytes, 3) = Len(bytes)
    /\ numberAt(bytes, Len(bytes) - 1) = RightDelimiter

\* The MessageFactory: insert keeps the meta that was registered first for an id, and
\* an id that is not found has no message. All is registered before the pipeline runs.
registerMessageMeta(metas, meta) ==
    IF \E m \in metas : m.id = meta.id THEN metas ELSE metas \cup {meta}

messageMetas == FoldLeft(registerMessageMeta, {}, Registered)
messageMetaById(mid) == {m \in messageMetas : m.id = mid}
messageById(mid) == {m.type : m \in messageMetaById(mid)}

\* The example registers its message before any other of the id.
ASSUME RegisteredAssumption == "NewMessage" \in messageById(messageId)

\* decode gives the message that the factory makes for the id, read from the frame.
\* Messages of other types have an id for which no route waits, and are left out.
decode(bytes) ==
    IF Framed(bytes) /\ "NewMessage" \in messageById(idOf(Received(bytes)))
    THEN {deserialize(Received(bytes))} ELSE {}

\* What is not an answer is no message of the example; the example's buffers have room
\* for the age, and more.
ASSUME ReplyAssumption ==
    /\ \A bytes \in Strays : \A m \in decode(bytes) : m.mid # messageId
    /\ \A r \in Requests : Room[r] >= 10

\* A datagram is received: an answer to what was sent, or another.
Answers == {wire[r] : r \in {r \in left : Framed(wire[r])}}

receive(bytes) ==
    /\ reads < MaxReads
    /\ reads' = reads + 1
    /\ queue' = Append(queue, Task("read", 0, bytes))
    /\ UNCHANGED <<seq, message, sending, wire, left, routes, written, outcome, refused, heard,
                   answered>>

\* The decoder and MessageReadRouter: the message is posted as an event.
handleRead ==
    LET bytes == Head(queue).bytes
        found == decode(bytes)
    IN  /\ queue # <<>> /\ Head(queue).do = "read"
        /\ queue' = Tail(queue)
        /\ \/ found = {} /\ UNCHANGED <<routes, heard>>
           \/ \E m \in found : postEvent(m)
        /\ answered' = answered \cup
              {r \in Requests : wire[r] = bytes /\ Framed(bytes) /\ outcome[r] = "written"}
        /\ UNCHANGED <<seq, message, sending, wire, left, written, outcome, refused, reads>>

------------------------------------------------------------------------------
IoServes == handleWrite \/ writeComplete \/ writeError \/ handleRead

Next ==
    \/ \E r \in Requests : write(r)
    \/ IoServes
    \/ \E r \in Requests : leave(r) \/ sendEnds(r)
    \/ \E bytes \in Answers \cup Strays : receive(bytes)

Spec == Init /\ [][Next]_vars

\* The io thread runs: each of its steps, and no other, takes the head of the queue.
\* An async_send ends, well or not.
Served == queue # <<>> /\ queue' = Tail(queue)
FairSpec == Spec /\ WF_queue(Served) /\ \A r \in Requests : WF_vars(sendEnds(r))

------------------------------------------------------------------------------
TypeOK ==
    /\ seq \in [Counters -> Nat]
    /\ \A r \in Requests : message[r].seq \in UInt16 \cup {Unset}
    /\ \A i \in DOMAIN queue : queue[i].do \in {"active", "write", "written", "failed", "read"}
    /\ sending \subseteq Requests /\ left \subseteq Requests
    /\ \A route \in routes : route.request \in Requests
    /\ written \subseteq Requests /\ refused \subseteq Requests /\ answered \subseteq Requests
    /\ outcome \in [Requests -> {"none", "written", "failed"}]
    /\ reads \in 0..MaxReads

\* Two requests that are given the same number: those at the same place of the two
\* kinds, and, of one kind, those that are as far apart as there are numbers.
Place(r) == Cardinality({q \in Requests : q < r /\ Kind[q] = Kind[r]})
SharesNumber(q, r) ==
    /\ q # r /\ {Kind[q], Kind[r]} \subseteq Counters
    /\ toUInt16(Place(q)) = toUInt16(Place(r))

Waits(r) == \E route \in routes : route.request = r

\* A request whose write is complete waits for its reply, or its callback was called,
\* or its route was refused, and that only for a request of the same number; no other
\* request has a route, whatever it was told. A request has one route at most.
RequestsAccountedFor ==
    \A r \in Requests :
        /\ outcome[r] = "written" =>
              Cardinality({x \in {"waits", "called", "refused"} :
                  \/ x = "waits" /\ Waits(r)
                  \/ x = "called" /\ heard[r] # <<>>
                  \/ x = "refused" /\ r \in refused}) = 1
        /\ outcome[r] # "written" => ~Waits(r) /\ heard[r] = <<>> /\ r \notin refused
        /\ r \in refused =>
              \E q \in Requests : SharesNumber(q, r) /\ outcome[q] = "written"
        /\ \A a, b \in routes : a.request = r /\ b.request = r => a = b

\* A message that is within its buffer and has a length of 16 bits is a frame, and
\* gives the message that was written; an empty name costs it the right delimiter,
\* because a size of 0 has take look for a number in front of the bytes.
WireIsMessage ==
    \A r \in Requests :
        LET size == 14 + Len(Name[r])
        IN  wire[r] # <<>> /\ size <= Room[r] /\ size \in UInt16 =>
              /\ Framed(wire[r])
              /\ decode(wire[r]) =
                   {[message[r] EXCEPT !.length = size,
                                       !.eif = IF Name[r] = <<>> THEN Unset ELSE @]}

\* What becomes of each request, and what its callback was given.
StateOf(r) ==
    CASE outcome[r] = "none" -> IF r \in written THEN "written" ELSE "idle"
      [] outcome[r] = "failed" -> "failed"
      [] outcome[r] = "written" /\ r \in refused -> "refused"
      [] outcome[r] = "written" /\ r \notin refused ->
            IF heard[r] = <<>> THEN "waiting" ELSE "answered"
RepliesTo(r) == [i \in DOMAIN heard[r] |-> heard[r][i].age]

R == INSTANCE Requests WITH
        Handled <- {r \in Requests : Kind[r] \in Counters}, Reply <- Age,
        state <- [r \in Requests |-> StateOf(r)],
        replies <- [r \in Requests |-> RepliesTo(r)]

\* However the network orders and repeats replies, a callback is called once, with the
\* reply to its own request: only requests of the same number are taken for each
\* other, or refused for each other.
RequestsSpec == R!Spec

\* And every write of a handled type is told how it went.
RequestsFairSpec == R!FairSpec

\* A reply that comes when the write is complete is not missed, also when the
\* numbers begin again: the callback is called, unless its route was refused.
AnswerReaches == \A r \in answered : heard[r] # <<>> \/ r \in refused

\* What is listed, told and refused fits together.
RequestsInv == TypeOK /\ RequestsAccountedFor

==============================================================================
