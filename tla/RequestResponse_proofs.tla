----------------------- MODULE RequestResponse_proofs -----------------------
(***************************************************************************)
(* Proofs about RequestResponse: what becomes of requests and of their     *)
(* replies, for any requests, messages, buffers and first numbers.         *)
(*                                                                         *)
(* The inductive invariant follows a request through the queue: it is in   *)
(* one task, sent, or told (PlacesInv); the requests of a kind are         *)
(* numbered in their order, so that a number tells the place (NumbersInv); *)
(* a route is that of a request which was told of its write and has no     *)
(* reply (RoutesInv); what is on the wire is the message (WireInv). That   *)
(* a reply is taken for its request then rests on the bytes: what is       *)
(* written to a buffer stays (Grows), the fields are where they are looked *)
(* for (Serialized, ReadsWhole), and a number comes back from its two      *)
(* bytes (ThereAndBack).                                                   *)
(***************************************************************************)
EXTENDS RequestResponse, FiniteSetTheorems, SequenceTheorems, TLAPS

Handled == {r \in Requests : Kind[r] \in Counters}

\* The requests that a task of the queue writes, and whether it tells of r.
Writes(task) ==
    CASE task.do = "active" -> Eager [] task.do = "write" -> {task.r} [] OTHER -> {}
Tells(task, r) == task.do \in {"written", "failed"} /\ task.r = r

ToWrite(r) == \E i \in 1..Len(queue) : r \in Writes(queue[i])
ToTell(r) == \E i \in 1..Len(queue) : Tells(queue[i], r)
Passed(r) == r \in written /\ ~ToWrite(r)

Tasks == [do : {"active", "write", "written", "failed", "read"}, r : Requests \cup {0},
          bytes : Seq(Nat)]

\* The variables, and the messages but for their numbers.
Typed ==
    /\ queue \in Seq(Tasks)
    /\ wire \in [Requests -> Seq(Nat)]
    /\ DOMAIN message = Requests /\ DOMAIN heard = Requests
    /\ \A r \in Requests :
          message[r] = [Fresh EXCEPT !.pif = LeftDelimiter, !.eif = RightDelimiter,
                                     !.age = Age[r], !.name = Name[r],
                                     !.seq = message[r].seq]

\* A request is in one place: not written, in a task, sent, or told.
PlacesInv ==
    /\ Eager \subseteq written
    /\ \A i \in 1..Len(queue) :
          /\ queue[i].do = "active" => i = 1
          /\ queue[i].do = "write" => queue[i].r \in written \ Eager
          /\ queue[i].do \in {"written", "failed"} => queue[i].r \in Handled \cap written
    /\ \A r \in Requests : \A i, j \in 1..Len(queue) :
          /\ r \in Writes(queue[i]) /\ r \in Writes(queue[j]) => i = j
          /\ Tells(queue[i], r) /\ Tells(queue[j], r) => i = j
    /\ \A r \in Requests :
          /\ ToWrite(r) => r \notin sending /\ ~ToTell(r) /\ outcome[r] = "none"
          /\ ToTell(r) => r \notin sending /\ outcome[r] = "none"
          /\ r \in sending => r \in Handled \cap written /\ outcome[r] = "none"
          /\ outcome[r] # "none" => r \in Handled \cap written

\* Requests of a kind are numbered in their order.
NumbersInv ==
    /\ \A k \in Counters :
          seq[k] = FirstSeq + Cardinality({r \in Requests : Kind[r] = k /\ Passed(r)})
    /\ \A r \in Handled : Passed(r) => message[r].seq = toUInt16(FirstSeq + Place(r))
    /\ \A q, r \in Requests :
          q < r /\ Kind[q] = Kind[r] /\ r \in written =>
              /\ q \in written
              /\ ToWrite(q) => ToWrite(r)
              /\ \A i, j \in 1..Len(queue) :
                    q \in Writes(queue[i]) /\ r \in Writes(queue[j]) => i <= j

\* Who waits was told of the write and of nothing else.
RoutesInv ==
    /\ \A route \in routes :
          /\ route.request \in Requests /\ route = Route(route.request)
          /\ outcome[route.request] = "written"
          /\ heard[route.request] = <<>> /\ route.request \notin refused
    /\ \A r \in Requests :
          /\ outcome[r] = "written" => Waits(r) \/ heard[r] # <<>> \/ r \in refused
          /\ outcome[r] # "written" => heard[r] = <<>> /\ r \notin refused
          /\ r \in refused =>
                /\ heard[r] = <<>>
                /\ \E q \in Requests : SharesNumber(q, r) /\ outcome[q] = "written"

WireInv ==
    \A r \in Requests :
        wire[r] # <<>> =>
            /\ Passed(r) /\ r \in Handled
            /\ wire[r] = Readable(serialize(newBuffer(Room[r]), message[r]))

AnswersInv == \A r \in answered : outcome[r] = "written" /\ ~Waits(r)

IInv ==
    /\ TypeOK /\ Typed /\ PlacesInv /\ NumbersInv /\ RoutesInv
    /\ WireInv /\ AnswersInv

------------------------------------------------------------------------------
\* Numbers of sixteen bits: Base * Base of them.
LEMMA Width ==
    /\ Base \in Nat \ {0} /\ Base * Base \in Nat \ {0}
    /\ \A n \in Nat : toUInt16(n) \in UInt16
    /\ UInt16 \subseteq Nat
<1>1. Base \in Nat \ {0}
  BY ByteBufferAssumption
<1>2. Base * Base \in Nat \ {0}
  BY <1>1
<1>3. PICK w \in Nat \ {0} : w = Base * Base
  BY <1>2
<1>4. \A n \in Nat : n % w \in 0..(w - 1)
  OBVIOUS
<1> QED BY <1>1, <1>2, <1>3, <1>4 DEF toUInt16, UInt16

LEMMA NextMultiple ==
    ASSUME NEW w \in Nat \ {0}, NEW p \in Int, NEW q \in Int, p < q
    PROVE  w * q >= w * p + w
<1>1. PICK d \in Nat : q = p + 1 + d
  OBVIOUS
<1>2. w * q = w * p + w + w * d
  BY <1>1
<1>3. w * d >= 0
  OBVIOUS
<1>4. w * p \in Int /\ w * q \in Int /\ w * d \in Int
  OBVIOUS
<1> QED BY <1>2, <1>3, <1>4

LEMMA UniqueRemainder ==
    ASSUME NEW w \in Nat \ {0}, NEW p \in Int, NEW q \in Int,
           NEW a \in 0..(w - 1), NEW b \in 0..(w - 1), w * p + a = w * q + b
    PROVE  a = b
<1>1. w * p \in Int /\ w * q \in Int
  OBVIOUS
<1>2. ~(p < q)
  <2>1. p < q => w * q >= w * p + w
    BY NextMultiple
  <2> QED BY <2>1, <1>1
<1>3. ~(q < p)
  <2>1. q < p => w * p >= w * q + w
    BY NextMultiple
  <2> QED BY <2>1, <1>1
<1>4. p = q
  BY <1>2, <1>3
<1> QED BY <1>1, <1>4

\* The difference of two numbers of the same remainder does not depend on the start.
LEMMA SameRemainder ==
    ASSUME NEW f \in Nat, NEW a \in Nat, NEW b \in Nat,
           toUInt16(f + a) = toUInt16(f + b)
    PROVE  toUInt16(a) = toUInt16(b)
<1>1. PICK w \in Nat \ {0} : w = Base * Base
  BY Width
<1>2. \A n \in Nat : n % w \in 0..(w - 1) /\ n \div w \in Int /\ n = (w * (n \div w)) + (n % w)
  OBVIOUS
<1>3. PICK c \in 0..(w - 1) : c = (f + a) % w /\ c = (f + b) % w
  BY <1>1, <1>2 DEF toUInt16
<1>4. PICK x \in Int : f + a = w * x + c
  <2>1. f + a \in Nat
    OBVIOUS
  <2>2. (f + a) \div w \in Int /\ f + a = (w * ((f + a) \div w)) + ((f + a) % w)
    BY <1>2, <2>1
  <2> QED BY <1>3, <2>2
<1>5. PICK y \in Int : f + b = w * y + c
  <2>1. f + b \in Nat
    OBVIOUS
  <2>2. (f + b) \div w \in Int /\ f + b = (w * ((f + b) \div w)) + ((f + b) % w)
    BY <1>2, <2>1
  <2> QED BY <1>3, <2>2
<1>6. PICK u \in Int : a = w * u + (a % w)
  BY <1>2
<1>7. PICK v \in Int : b = w * v + (b % w)
  BY <1>2
<1>8. w * (u + y - x) + (a % w) = w * v + (b % w)
  <2>1. w * x \in Int /\ w * y \in Int /\ w * u \in Int /\ w * v \in Int
    OBVIOUS
  <2>2. w * (u + y - x) = w * u + w * y - w * x
    OBVIOUS
  <2>3. a - b = w * x - w * y
    BY <1>4, <1>5, <2>1
  <2> QED BY <1>2, <1>6, <1>7, <2>1, <2>2, <2>3
<1>9. a % w = b % w
  <2>1. u + y - x \in Int /\ a % w \in 0..(w - 1) /\ b % w \in 0..(w - 1)
    BY <1>2
  <2> QED BY <1>8, <2>1, UniqueRemainder
<1> QED BY <1>1, <1>9 DEF toUInt16

------------------------------------------------------------------------------
\* The queue with another task, and without its first.
LEMMA Queued ==
    ASSUME Typed, NEW task \in Tasks, queue' = Append(queue, task)
    PROVE  /\ queue' \in Seq(Tasks) /\ Len(queue) \in Nat
           /\ Len(queue) + 1 \in 1..Len(queue') /\ queue'[Len(queue) + 1] = task
           /\ \A i \in 1..Len(queue) : i \in 1..Len(queue') /\ queue'[i] = queue[i]
           /\ \A i \in 1..Len(queue') : i \in 1..Len(queue) \/ i = Len(queue) + 1
           /\ \A r : ToWrite(r)' <=> ToWrite(r) \/ r \in Writes(task)
           /\ \A r : ToTell(r)' <=> ToTell(r) \/ Tells(task, r)
<1>0. queue \in Seq(Tasks)
  BY DEF Typed
<1>1. /\ queue' \in Seq(Tasks) /\ Len(queue) \in Nat /\ Len(queue') = Len(queue) + 1
      /\ \A i \in 1..Len(queue) : queue'[i] = queue[i]
      /\ queue'[Len(queue) + 1] = task
  BY <1>0, AppendProperties, LenProperties
<1>2. /\ \A i \in 1..Len(queue) : i \in 1..Len(queue')
      /\ \A i \in 1..Len(queue') : i \in 1..Len(queue) \/ i = Len(queue) + 1
      /\ Len(queue) + 1 \in 1..Len(queue')
  BY <1>1
<1>3. \A r : ToWrite(r)' <=> ToWrite(r) \/ r \in Writes(task)
  BY <1>1, <1>2 DEF ToWrite
<1>4. \A r : ToTell(r)' <=> ToTell(r) \/ Tells(task, r)
  BY <1>1, <1>2 DEF ToTell
<1> QED BY <1>1, <1>2, <1>3, <1>4

LEMMA TaskTaken ==
    ASSUME Typed, PlacesInv, queue # <<>>, queue' = Tail(queue)
    PROVE  /\ Head(queue) = queue[1] /\ Head(queue) \in Tasks /\ 1 \in 1..Len(queue)
           /\ queue' \in Seq(Tasks)
           /\ \A i \in 1..Len(queue') :
                 i + 1 \in 1..Len(queue) /\ i + 1 # 1 /\ queue'[i] = queue[i + 1]
           /\ \A r \in Requests :
                 /\ ToWrite(r)' <=> ToWrite(r) /\ r \notin Writes(Head(queue))
                 /\ ToTell(r)' <=> ToTell(r) /\ ~Tells(Head(queue), r)
<1>0. queue \in Seq(Tasks)
  BY DEF Typed
<1>1. /\ Head(queue) = queue[1] /\ Head(queue) \in Tasks /\ queue' \in Seq(Tasks)
      /\ Len(queue) \in Nat \ {0} /\ Len(queue') = Len(queue) - 1
      /\ \A i \in 1..Len(queue') : queue'[i] = queue[i + 1]
  BY <1>0, HeadTailProperties, EmptySeq
<1>2. /\ 1 \in 1..Len(queue)
      /\ \A i \in 1..Len(queue') : i + 1 \in 1..Len(queue) /\ i + 1 # 1
      /\ \A j \in 1..Len(queue) : j # 1 => j - 1 \in 1..Len(queue') /\ (j - 1) + 1 = j
  BY <1>1
<1>3. \A j \in 1..Len(queue) : j # 1 => queue'[j - 1] = queue[j]
  BY <1>1, <1>2
<1>4. ASSUME NEW r \in Requests
      PROVE  ToWrite(r)' <=> ToWrite(r) /\ r \notin Writes(Head(queue))
  <2>1. ASSUME ToWrite(r)' PROVE ToWrite(r) /\ r \notin Writes(Head(queue))
    <3>1. PICK i \in 1..Len(queue') : r \in Writes(queue'[i])
      BY <2>1 DEF ToWrite
    <3>2. i + 1 \in 1..Len(queue) /\ r \in Writes(queue[i + 1]) /\ i + 1 # 1
      BY <3>1, <1>1, <1>2
    <3>3. r \notin Writes(queue[1])
      BY <3>2, <1>2 DEF PlacesInv
    <3> QED BY <3>2, <3>3, <1>1 DEF ToWrite
  <2>2. ASSUME ToWrite(r), r \notin Writes(Head(queue)) PROVE ToWrite(r)'
    BY <2>2, <1>1, <1>2, <1>3 DEF ToWrite
  <2> QED BY <2>1, <2>2
<1>5. ASSUME NEW r \in Requests
      PROVE  ToTell(r)' <=> ToTell(r) /\ ~Tells(Head(queue), r)
  <2>1. ASSUME ToTell(r)' PROVE ToTell(r) /\ ~Tells(Head(queue), r)
    <3>1. PICK i \in 1..Len(queue') : Tells(queue'[i], r)
      BY <2>1 DEF ToTell
    <3>2. i + 1 \in 1..Len(queue) /\ Tells(queue[i + 1], r) /\ i + 1 # 1
      BY <3>1, <1>1, <1>2
    <3>3. ~Tells(queue[1], r)
      BY <3>2, <1>2 DEF PlacesInv
    <3> QED BY <3>2, <3>3, <1>1 DEF ToTell
  <2>2. ASSUME ToTell(r), ~Tells(Head(queue), r) PROVE ToTell(r)'
    BY <2>2, <1>1, <1>2, <1>3 DEF ToTell
  <2> QED BY <2>1, <2>2
<1> QED BY <1>1, <1>2, <1>4, <1>5

\* What a step leaves when it changes nothing of what the invariant reads.
LEMMA SameNumbers ==
    ASSUME NumbersInv, UNCHANGED <<seq, message, written>>,
           \A r \in Requests : ToWrite(r)' <=> ToWrite(r),
           \A q, r \in Requests :
              (\A i, j \in 1..Len(queue) :
                  q \in Writes(queue[i]) /\ r \in Writes(queue[j]) => i <= j) =>
              (\A i, j \in 1..Len(queue') :
                  q \in Writes(queue'[i]) /\ r \in Writes(queue'[j]) => i <= j)
    PROVE  NumbersInv'
<1>1. \A r \in Requests : Passed(r)' <=> Passed(r)
  BY DEF Passed
<1>2. ASSUME NEW k \in Counters
      PROVE  seq'[k] = FirstSeq + Cardinality({r \in Requests : Kind[r] = k /\ Passed(r)'})
  <2>1. {r \in Requests : Kind[r] = k /\ Passed(r)'} = {r \in Requests : Kind[r] = k /\ Passed(r)}
    BY <1>1
  <2> QED BY <2>1, <1>2 DEF NumbersInv
<1>3. \A r \in Handled : Passed(r)' => message'[r].seq = toUInt16(FirstSeq + Place(r))
  BY <1>1 DEF NumbersInv, Handled
<1>4. ASSUME NEW q \in Requests, NEW r \in Requests, q < r, Kind[q] = Kind[r], r \in written'
      PROVE  /\ q \in written'
             /\ ToWrite(q)' => ToWrite(r)'
             /\ \A i, j \in 1..Len(queue') :
                   q \in Writes(queue'[i]) /\ r \in Writes(queue'[j]) => i <= j
  BY <1>4 DEF NumbersInv
<1> QED BY <1>2, <1>3, <1>4 DEF NumbersInv

LEMMA SameRoutes ==
    ASSUME RoutesInv, UNCHANGED <<routes, outcome, heard, refused>>,
           \A r \in Requests : outcome[r] = "written" => message'[r] = message[r]
    PROVE  RoutesInv'
<1>1. \A route \in routes : Route(route.request)' = Route(route.request)
  BY DEF RoutesInv, Route
<1>2. \A r : Waits(r)' <=> Waits(r)
  BY DEF Waits
<1> QED BY <1>1, <1>2 DEF RoutesInv

LEMMA SameWires ==
    ASSUME WireInv, UNCHANGED <<wire, message>>,
           \A r \in Requests : Passed(r) => Passed(r)'
    PROVE  WireInv'
BY DEF WireInv, Handled

LEMMA SameAnswers ==
    ASSUME AnswersInv, UNCHANGED <<answered, routes, outcome>>
    PROVE  AnswersInv'
BY DEF AnswersInv, Waits

\* Who was not written is nowhere.
LEMMA Unwritten ==
    ASSUME PlacesInv, NEW r \in Requests, r \notin written
    PROVE  ~ToWrite(r) /\ ~ToTell(r) /\ r \notin sending /\ outcome[r] = "none"
<1>1. ~ToWrite(r)
  BY DEF PlacesInv, ToWrite, Writes
<1>2. ~ToTell(r)
  BY DEF PlacesInv, ToTell, Tells
<1> QED BY <1>1, <1>2 DEF PlacesInv

LEMMA DueIs == ASSUME Typed PROVE Due = IF queue = <<>> THEN {} ELSE Writes(Head(queue))
BY DEF Due, Writes

LEMMA TasksDo ==
    ASSUME NEW q \in Seq(Tasks)
    PROVE  \A i \in DOMAIN q : q[i].do \in {"active", "write", "written", "failed", "read"}
<1>1. \A i \in DOMAIN q : q[i] \in Tasks
  BY LenProperties, ElementOfSeq
<1> QED BY <1>1 DEF Tasks

LEMMA RequestsFinite ==
    /\ IsFiniteSet(Requests) /\ Requests \subseteq Nat
    /\ \A S \in SUBSET Requests : IsFiniteSet(S) /\ Cardinality(S) \in Nat
<1>1. IsFiniteSet(Requests) /\ Requests \subseteq Nat
  BY RequestResponseAssumption
<1> QED BY <1>1, FS_Subset, FS_CardinalityType

------------------------------------------------------------------------------
LEMMA WriteStep == ASSUME IInv, NEW r \in Requests, write(r) PROVE IInv'
<1> DEFINE task == Task("write", r, <<>>)
<1>0. /\ TypeOK /\ Typed /\ PlacesInv /\ NumbersInv /\ RoutesInv /\ WireInv /\ AnswersInv
      /\ r \notin written /\ written' = written \cup {r} /\ queue' = Append(queue, task)
      /\ \A q \in Requests : q < r /\ Kind[q] = Kind[r] => q \in written
      /\ UNCHANGED <<seq, message, sending, wire, left, routes, outcome, refused, heard,
                     answered, reads>>
  BY DEF IInv, write
<1>1. /\ task \in Tasks /\ task.do = "write" /\ task.r = r /\ Writes(task) = {r}
      /\ \A q : ~Tells(task, q)
  BY DEF Task, Tasks, Writes, Tells
<1> HIDE DEF task
<1>2. /\ queue' \in Seq(Tasks) /\ Len(queue) \in Nat
      /\ Len(queue) + 1 \in 1..Len(queue') /\ queue'[Len(queue) + 1] = task
      /\ \A i \in 1..Len(queue) : i \in 1..Len(queue') /\ queue'[i] = queue[i]
      /\ \A i \in 1..Len(queue') : i \in 1..Len(queue) \/ i = Len(queue) + 1
      /\ \A q : ToWrite(q)' <=> ToWrite(q) \/ q = r
      /\ \A q : ToTell(q)' <=> ToTell(q)
  BY <1>0, <1>1, Queued
<1>3. ~ToWrite(r) /\ ~ToTell(r) /\ r \notin sending /\ outcome[r] = "none"
  BY <1>0, Unwritten
<1>4. TypeOK' /\ Typed'
  <2>1. \A i \in DOMAIN queue' : queue'[i].do \in {"active", "write", "written", "failed", "read"}
    BY <1>2, TasksDo
  <2> QED BY <2>1, <1>0, <1>2 DEF TypeOK, Typed
<1>5. PlacesInv'
  <2>1. r \notin Eager
    BY <1>0 DEF PlacesInv
  <2>2. ASSUME NEW i \in 1..Len(queue')
        PROVE  /\ queue'[i].do = "active" => i = 1
               /\ queue'[i].do = "write" => queue'[i].r \in written' \ Eager
               /\ queue'[i].do \in {"written", "failed"} => queue'[i].r \in Handled' \cap written'
    BY <1>0, <1>1, <1>2, <2>1 DEF PlacesInv, Handled
  <2>3. ASSUME NEW q \in Requests, NEW i \in 1..Len(queue'), NEW j \in 1..Len(queue')
        PROVE  /\ q \in Writes(queue'[i]) /\ q \in Writes(queue'[j]) => i = j
               /\ Tells(queue'[i], q) /\ Tells(queue'[j], q) => i = j
    BY <1>0, <1>1, <1>2, <1>3 DEF PlacesInv, ToWrite
  <2>4. ASSUME NEW q \in Requests
        PROVE  /\ ToWrite(q)' => q \notin sending' /\ ~ToTell(q)' /\ outcome'[q] = "none"
               /\ ToTell(q)' => q \notin sending' /\ outcome'[q] = "none"
               /\ q \in sending' => q \in Handled' \cap written' /\ outcome'[q] = "none"
               /\ outcome'[q] # "none" => q \in Handled' \cap written'
    BY <1>0, <1>2, <1>3 DEF PlacesInv, Handled
  <2> QED BY <1>0, <2>2, <2>3, <2>4 DEF PlacesInv
<1>6. \A q \in Requests : Passed(q)' <=> Passed(q)
  BY <1>0, <1>2, <1>3 DEF Passed
<1>7. NumbersInv'
  <2>1. ASSUME NEW k \in Counters
        PROVE  seq'[k] = FirstSeq + Cardinality({q \in Requests : Kind[q] = k /\ Passed(q)'})
    <3>1. {q \in Requests : Kind[q] = k /\ Passed(q)'} = {q \in Requests : Kind[q] = k /\ Passed(q)}
      BY <1>6
    <3> QED BY <3>1, <1>0 DEF NumbersInv
  <2>2. \A q \in Handled : Passed(q)' => message'[q].seq = toUInt16(FirstSeq + Place(q))
    BY <1>0, <1>6 DEF NumbersInv, Handled
  <2>3. ASSUME NEW p \in Requests, NEW q \in Requests, p < q, Kind[p] = Kind[q], q \in written'
        PROVE  /\ p \in written'
               /\ ToWrite(p)' => ToWrite(q)'
               /\ \A i, j \in 1..Len(queue') :
                     p \in Writes(queue'[i]) /\ q \in Writes(queue'[j]) => i <= j
    <3>1. CASE q = r
      <4>1. \A j \in 1..Len(queue') : q \in Writes(queue'[j]) => j = Len(queue) + 1
        BY <3>1, <1>2, <1>3 DEF ToWrite
      <4>2. \A i \in 1..Len(queue') : i <= Len(queue) + 1
        BY <1>2
      <4> QED BY <2>3, <3>1, <1>0, <1>2, <4>1, <4>2
    <3>2. CASE q # r
      <4>1. q \in written
        BY <2>3, <3>2, <1>0
      <4>2. p \in written /\ p # r
        BY <2>3, <4>1, <1>0 DEF NumbersInv
      <4>3. \A i \in 1..Len(queue') :
               p \in Writes(queue'[i]) \/ q \in Writes(queue'[i]) =>
                  i \in 1..Len(queue) /\ queue'[i] = queue[i]
        BY <1>1, <1>2, <3>2, <4>2
      <4>4. \A i, j \in 1..Len(queue) : p \in Writes(queue[i]) /\ q \in Writes(queue[j]) => i <= j
        BY <2>3, <4>1, <1>0 DEF NumbersInv
      <4>5. ToWrite(p) => ToWrite(q)
        BY <2>3, <4>1, <1>0 DEF NumbersInv
      <4> QED BY <1>0, <1>2, <4>2, <4>3, <4>4, <4>5
    <3> QED BY <3>1, <3>2
  <2> QED BY <2>1, <2>2, <2>3 DEF NumbersInv
<1>8. RoutesInv'
  BY <1>0, SameRoutes
<1>9. WireInv' /\ AnswersInv'
  BY <1>0, <1>6, SameWires, SameAnswers
<1> QED BY <1>4, <1>5, <1>7, <1>8, <1>9 DEF IInv

\* The numbers given to the requests of a task.
LEMMA CountersGoOn ==
    ASSUME IInv, queue # <<>>, NEW r \in Requests, r \in Writes(Head(queue)),
           Kind[r] \in Counters
    PROVE  counterOf(r) = FirstSeq + Place(r)
<1> DEFINE D == Writes(Head(queue))
           k == Kind[r]
           P == {q \in Requests : Kind[q] = k /\ Passed(q)}
           E == {q \in D : q < r /\ Kind[q] = k}
<1>0. Typed /\ PlacesInv /\ NumbersInv
  BY DEF IInv
<1>1. Due = D /\ Head(queue) = queue[1] /\ 1 \in 1..Len(queue)
  <2>1. queue \in Seq(Tasks)
    BY <1>0 DEF Typed
  <2> QED BY <1>0, <2>1, DueIs, EmptySeq
<1>2. D \subseteq Requests /\ D \subseteq written
  <2>1. Eager \subseteq Requests /\ written \subseteq Requests
    BY RequestResponseAssumption DEF IInv, TypeOK
  <2> QED BY <2>1, <1>0, <1>1 DEF PlacesInv, Writes
<1>3. seq[k] = FirstSeq + Cardinality(P)
  BY <1>0 DEF NumbersInv
<1>4. {q \in Requests : q < r /\ Kind[q] = k} = P \cup E
  <2>1. ASSUME NEW q \in Requests, q < r, Kind[q] = k PROVE q \in P \cup E
    <3>1. r \in written /\ q \in written
      BY <1>0, <1>2, <2>1 DEF NumbersInv
    <3>2. ASSUME ToWrite(q) PROVE q \in D
      <4>1. PICK i \in 1..Len(queue) : q \in Writes(queue[i])
        BY <3>2 DEF ToWrite
      <4>2. i <= 1
        BY <4>1, <1>0, <1>1, <2>1, <3>1 DEF NumbersInv
      <4>3. i = 1
        BY <4>1, <4>2
      <4> QED BY <4>1, <4>3, <1>1
    <3> QED BY <2>1, <3>1, <3>2 DEF Passed
  <2>2. ASSUME NEW q \in P PROVE q < r
    <3>1. ToWrite(r) /\ ~ToWrite(q) /\ q \in written /\ r \in written
      BY <1>1, <1>2 DEF Passed, ToWrite
    <3>2. ~(r < q)
      BY <3>1, <1>0 DEF NumbersInv
    <3>3. q \in Nat /\ r \in Nat /\ q # r
      BY <3>1, RequestsFinite
    <3> QED BY <3>2, <3>3
  <2> QED BY <1>2, <2>1, <2>2
<1>5. P \cap E = {}
  BY <1>1 DEF Passed, ToWrite
<1>6. Cardinality(P \cup E) = Cardinality(P) + Cardinality(E)
  <2>1. IsFiniteSet(P) /\ IsFiniteSet(E) /\ Cardinality(P) \in Nat /\ Cardinality(E) \in Nat
    <3>1. P \in SUBSET Requests /\ E \in SUBSET Requests
      BY <1>2
    <3> HIDE DEF P, E
    <3> QED BY <3>1, RequestsFinite
  <2>2. Cardinality(P \cap E) = 0
    BY <1>5, FS_EmptySet
  <2> HIDE DEF P, E
  <2>3. Cardinality(P \cup E) = Cardinality(P) + Cardinality(E) - Cardinality(P \cap E)
    BY <2>1, FS_Union
  <2> QED BY <2>1, <2>2, <2>3
<1>7. counterOf(r) = seq[k] + Cardinality(E) /\ Place(r) = Cardinality(P \cup E)
  BY <1>1, <1>4 DEF counterOf, Place
<1>8. Cardinality(P) \in Nat /\ Cardinality(E) \in Nat /\ FirstSeq \in Nat
  <2>1. P \in SUBSET Requests /\ E \in SUBSET Requests
    BY <1>2
  <2> QED BY <2>1, RequestsFinite, RequestResponseAssumption
<1> HIDE DEF P, E, k
<1> QED BY <1>3, <1>6, <1>7, <1>8

------------------------------------------------------------------------------
\* Buffers that are a window of their storage.
Buffers == [data : Seq(Nat), offset : Nat, writeIndex : Nat, readIndex : Nat, capacity : Nat]

Sound(b) ==
    /\ b \in Buffers
    /\ b.readIndex <= b.writeIndex /\ b.writeIndex <= b.capacity
    /\ b.offset + b.capacity <= Len(b.data)

\* The two bytes of n are behind the first at bytes.
Holds(bytes, at, n) == bytes[at + 1] = n \div Base /\ bytes[at + 2] = n % Base

\* A number goes through the order of the network and back.
LEMMA ThereAndBack ==
    ASSUME NEW n \in Nat
    PROVE  /\ toEndian(n) \in Seq(Nat) /\ Len(toEndian(n)) = 2
           /\ toEndian(n)[1] = n \div Base /\ toEndian(n)[2] = n % Base
           /\ Base * (n \div Base) + (n % Base) = n
<1>1. PICK w \in Nat \ {0} : w = Base
  BY Width
<1>2. n \div w \in Nat /\ n % w \in Nat /\ (w * (n \div w)) + (n % w) = n
  OBVIOUS
<1> QED BY <1>1, <1>2 DEF toEndian

\* Bytes that fit are written behind what is written, and nothing else changes.
LEMMA WriteData ==
    ASSUME NEW b, Sound(b), NEW bytes \in Seq(Nat), NEW c, c = writeData(b, bytes)
    PROVE  /\ Sound(c) /\ c.offset = b.offset /\ c.readIndex = b.readIndex
           /\ c.capacity = b.capacity /\ Len(c.data) = Len(b.data)
           /\ b.capacity < b.writeIndex + Len(bytes) => c = b
           /\ b.writeIndex + Len(bytes) <= b.capacity =>
                 /\ c.writeIndex = b.writeIndex + Len(bytes)
                 /\ \A i \in 1..Len(bytes) : c.data[b.offset + b.writeIndex + i] = bytes[i]
                 /\ \A i \in 1..Len(b.data) :
                       i <= b.offset + b.writeIndex \/ i > b.offset + b.writeIndex + Len(bytes)
                          => c.data[i] = b.data[i]
<1>1. PICK d \in Seq(Nat), at \in Nat, n \in Nat :
         d = b.data /\ at = b.offset + b.writeIndex /\ n = Len(bytes)
  BY LenProperties DEF Sound, Buffers
<1>2. Len(d) \in Nat /\ b.offset \in Nat /\ b.writeIndex \in Nat /\ b.capacity \in Nat
      /\ b.readIndex \in Nat
  BY LenProperties DEF Sound, Buffers
<1>3. CASE b.capacity < b.writeIndex + n
  <2>1. c = b
    BY <1>1, <1>2, <1>3 DEF writeData, writableLength
  <2> QED BY <2>1, <1>1, <1>2, <1>3
<1>4. CASE b.writeIndex + n <= b.capacity
  <2> DEFINE front == SubSeq(d, 1, at)
             back == SubSeq(d, at + n + 1, Len(d))
             new == (front \o bytes) \o back
  <2>1. at + n <= Len(d)
    BY <1>1, <1>2, <1>4 DEF Sound
  <2>2. c = [b EXCEPT !.data = new, !.writeIndex = b.writeIndex + n]
    BY <1>1, <1>2, <1>4 DEF writeData, writableLength
  <2>3. front \in Seq(Nat) /\ Len(front) = at /\ \A i \in 1..at : front[i] = d[i]
    <3>1. \A i \in 1..at : d[i] \in Nat
      BY <1>2, <2>1, ElementOfSeq
    <3>2. /\ front \in Seq(Nat)
          /\ Len(front) = IF 1 <= at THEN at - 1 + 1 ELSE 0
          /\ \A i \in 1..(at - 1 + 1) : front[i] = d[1 + i - 1]
      BY <3>1, SubSeqProperties
    <3> QED BY <3>2
  <2>4. /\ back \in Seq(Nat) /\ Len(back) = Len(d) - (at + n)
        /\ \A i \in 1..(Len(d) - (at + n)) : back[i] = d[at + n + i]
    <3>1. \A i \in (at + n + 1)..Len(d) : d[i] \in Nat
      BY <1>2, ElementOfSeq
    <3>2. /\ back \in Seq(Nat)
          /\ Len(back) = IF at + n + 1 <= Len(d) THEN Len(d) - (at + n + 1) + 1 ELSE 0
          /\ \A i \in 1..(Len(d) - (at + n + 1) + 1) : back[i] = d[at + n + 1 + i - 1]
      BY <1>2, <3>1, SubSeqProperties
    <3> QED BY <3>2, <1>2, <2>1
  <2> HIDE DEF front, back
  <2>5. PICK opened : opened = front \o bytes
    OBVIOUS
  <2>6. /\ opened \in Seq(Nat) /\ Len(opened) = at + n
        /\ \A i \in 1..(at + n) : opened[i] = IF i <= at THEN front[i] ELSE bytes[i - at]
    <3>1. /\ front \o bytes \in Seq(Nat) /\ Len(front \o bytes) = Len(front) + Len(bytes)
          /\ \A i \in 1..(Len(front) + Len(bytes)) :
                (front \o bytes)[i] = IF i <= Len(front) THEN front[i]
                                      ELSE bytes[i - Len(front)]
      BY <2>3, ConcatProperties
    <3>2. Len(front) + Len(bytes) = at + n
      BY <1>1, <2>3
    <3> QED BY <3>1, <3>2, <2>3, <2>5
  <2>7. /\ new \in Seq(Nat) /\ Len(new) = Len(d)
        /\ \A i \in 1..Len(d) :
              new[i] = IF i <= at + n THEN opened[i] ELSE back[i - (at + n)]
    <3>1. /\ opened \o back \in Seq(Nat) /\ Len(opened \o back) = Len(opened) + Len(back)
          /\ \A i \in 1..(Len(opened) + Len(back)) :
                (opened \o back)[i] = IF i <= Len(opened) THEN opened[i]
                                      ELSE back[i - Len(opened)]
      BY <2>4, <2>6, ConcatProperties
    <3>2. Len(opened) + Len(back) = Len(d)
      BY <1>2, <2>4, <2>6
    <3> QED BY <3>1, <3>2, <2>5, <2>6
  <2> HIDE DEF new
  <2>8. /\ c \in Buffers /\ c.data = new /\ c.writeIndex = b.writeIndex + n
        /\ c.offset = b.offset /\ c.readIndex = b.readIndex /\ c.capacity = b.capacity
    <3>1. b \in Buffers /\ b.writeIndex + n \in Nat
      BY <1>2 DEF Sound
    <3> QED BY <3>1, <2>2, <2>7 DEF Buffers
  <2>9. \A i \in 1..n : new[at + i] = bytes[i]
    <3> SUFFICES ASSUME NEW i \in 1..n PROVE new[at + i] = bytes[i]
      OBVIOUS
    <3>1. /\ at + i \in 1..Len(d) /\ at + i <= at + n /\ at + i \in 1..(at + n)
          /\ ~(at + i <= at) /\ (at + i) - at = i
      BY <1>2, <2>1
    <3> QED BY <3>1, <2>6, <2>7
  <2>10. ASSUME NEW i \in 1..Len(d), i <= at PROVE new[i] = d[i]
    <3>1. i <= at + n /\ i \in 1..(at + n) /\ i \in 1..at
      BY <2>10
    <3> QED BY <3>1, <2>3, <2>6, <2>7, <2>10
  <2>11. ASSUME NEW i \in 1..Len(d), i > at + n PROVE new[i] = d[i]
    <3>1. /\ ~(i <= at + n) /\ i - (at + n) \in 1..(Len(d) - (at + n))
          /\ at + n + (i - (at + n)) = i
      BY <1>2, <2>11
    <3> QED BY <3>1, <2>4, <2>7
  <2>12. Sound(c)
    BY <1>1, <1>2, <1>4, <2>7, <2>8 DEF Sound
  <2>13. Len(c.data) = Len(b.data)
    BY <1>1, <2>7, <2>8
  <2>14. ~(b.capacity < b.writeIndex + Len(bytes))
    BY <1>1, <1>2, <1>4
  <2>15. \A i \in 1..Len(bytes) : c.data[b.offset + b.writeIndex + i] = bytes[i]
    BY <1>1, <2>8, <2>9
  <2>16. \A i \in 1..Len(b.data) :
            i <= b.offset + b.writeIndex \/ i > b.offset + b.writeIndex + Len(bytes)
               => c.data[i] = b.data[i]
    BY <1>1, <2>8, <2>10, <2>11
  <2> HIDE DEF new
  <2> QED BY <1>1, <2>8, <2>12, <2>13, <2>14, <2>15, <2>16
<1>5. b.writeIndex + n \in Nat
  BY <1>2
<1> QED BY <1>1, <1>2, <1>3, <1>4, <1>5

\* What was written stays.
Grows(b, c) ==
    /\ Sound(c) /\ c.offset = b.offset /\ c.readIndex = b.readIndex
    /\ c.capacity = b.capacity /\ Len(c.data) = Len(b.data)
    /\ b.writeIndex <= c.writeIndex
    /\ \A i \in 1..(b.offset + b.writeIndex) : c.data[i] = b.data[i]

LEMMA SoundFacts ==
    ASSUME NEW b, Sound(b)
    PROVE  /\ b.data \in Seq(Nat) /\ Len(b.data) \in Nat /\ b.offset \in Nat
           /\ b.writeIndex \in Nat /\ b.readIndex \in Nat /\ b.capacity \in Nat
           /\ b.readIndex <= b.writeIndex /\ b.writeIndex <= b.capacity
           /\ b.offset + b.capacity <= Len(b.data)
BY LenProperties DEF Sound, Buffers

LEMMA GrowsOn ==
    ASSUME NEW a, NEW b, NEW c, Sound(a), Grows(a, b), Grows(b, c)
    PROVE  Grows(a, c)
<1>1. Sound(b) /\ Sound(c)
  BY DEF Grows
<1>2. a.writeIndex <= b.writeIndex /\ b.writeIndex <= c.writeIndex /\ a.writeIndex <= c.writeIndex
  BY <1>1, SoundFacts DEF Grows
<1>3. \A i \in 1..(a.offset + a.writeIndex) : i \in 1..(b.offset + b.writeIndex)
  <2>1. PICK o \in Nat, x \in Nat, y \in Nat :
           /\ o = a.offset /\ o = b.offset
           /\ x = a.writeIndex /\ y = b.writeIndex /\ x <= y
    BY <1>1, <1>2, SoundFacts DEF Grows
  <2>2. \A i \in 1..(o + x) : i \in 1..(o + y)
    BY <2>1
  <2> QED BY <2>1, <2>2
<1> QED BY <1>1, <1>2, <1>3 DEF Grows

LEMMA WriteGrows ==
    ASSUME NEW b, Sound(b), NEW bytes \in Seq(Nat), NEW c, c = writeData(b, bytes)
    PROVE  Grows(b, c)
<1>1. Len(bytes) \in Nat
  BY LenProperties
<1>2. b.capacity < b.writeIndex + Len(bytes) \/ b.writeIndex + Len(bytes) <= b.capacity
  BY <1>1, SoundFacts
<1>3. \A i \in 1..(b.offset + b.writeIndex) :
         i \in 1..Len(b.data) /\ i <= b.offset + b.writeIndex
  BY SoundFacts
<1>4. CASE b.capacity < b.writeIndex + Len(bytes)
  <2>1. c = b
    BY <1>4, WriteData
  <2> QED BY <2>1, SoundFacts DEF Grows
<1>5. CASE b.writeIndex + Len(bytes) <= b.capacity
  <2>1. /\ Sound(c) /\ c.offset = b.offset /\ c.readIndex = b.readIndex
        /\ c.capacity = b.capacity /\ Len(c.data) = Len(b.data)
        /\ c.writeIndex = b.writeIndex + Len(bytes)
        /\ \A i \in 1..Len(b.data) : i <= b.offset + b.writeIndex => c.data[i] = b.data[i]
    BY <1>5, WriteData
  <2> QED BY <2>1, <1>1, <1>3, SoundFacts DEF Grows
<1> QED BY <1>2, <1>4, <1>5

LEMMA PutNumber ==
    ASSUME NEW b, Sound(b), NEW n \in Nat, NEW c, c = putNumber(b, n)
    PROVE  /\ Grows(b, c)
           /\ b.writeIndex + 2 <= b.capacity =>
                 /\ c.writeIndex = b.writeIndex + 2
                 /\ Holds(c.data, b.offset + b.writeIndex, n)
                 /\ \A i \in 1..Len(b.data) :
                       i <= b.offset + b.writeIndex \/ i > b.offset + b.writeIndex + 2
                          => c.data[i] = b.data[i]
<1>1. PICK bytes \in Seq(Nat) :
         /\ bytes = toEndian(n) /\ Len(bytes) = 2
         /\ bytes[1] = n \div Base /\ bytes[2] = n % Base
  BY ThereAndBack
<1>2. c = writeData(b, bytes)
  BY <1>1 DEF putNumber
<1>3. Grows(b, c)
  BY <1>2, WriteGrows
<1>4. ASSUME b.writeIndex + 2 <= b.capacity
      PROVE  /\ c.writeIndex = b.writeIndex + 2
             /\ \A i \in 1..2 : c.data[b.offset + b.writeIndex + i] = bytes[i]
             /\ \A i \in 1..Len(b.data) :
                   i <= b.offset + b.writeIndex \/ i > b.offset + b.writeIndex + 2
                      => c.data[i] = b.data[i]
  <2>1. b.writeIndex + Len(bytes) <= b.capacity
    BY <1>1, <1>4
  <2>2. /\ c.writeIndex = b.writeIndex + Len(bytes)
        /\ \A i \in 1..Len(bytes) : c.data[b.offset + b.writeIndex + i] = bytes[i]
        /\ \A i \in 1..Len(b.data) :
              i <= b.offset + b.writeIndex \/ i > b.offset + b.writeIndex + Len(bytes)
                 => c.data[i] = b.data[i]
    BY <1>2, <2>1, WriteData
  <2> QED BY <1>1, <2>2
<1> QED BY <1>1, <1>3, <1>4 DEF Holds

LEMMA PutView ==
    ASSUME NEW b, Sound(b), NEW bytes \in Seq(Nat), NEW c, c = putView(b, bytes)
    PROVE  /\ Grows(b, c)
           /\ b.writeIndex + 2 + Len(bytes) <= b.capacity =>
                 /\ c.writeIndex = b.writeIndex + 2 + Len(bytes)
                 /\ Holds(c.data, b.offset + b.writeIndex, toUInt16(Len(bytes)))
                 /\ \A i \in 1..Len(bytes) : c.data[b.offset + b.writeIndex + 2 + i] = bytes[i]
<1>1. PICK n \in Nat : n = Len(bytes)
  BY LenProperties
<1>2. PICK size \in Nat : size = toUInt16(n)
  BY Width
<1>3. CASE b.capacity - b.writeIndex < 2
  <2>1. c = b
    BY <1>3 DEF putView, writableLength
  <2>2. ~(b.writeIndex + 2 + n <= b.capacity)
    BY <1>3, SoundFacts
  <2>3. Grows(b, c)
    BY <2>1, SoundFacts DEF Grows
  <2> QED BY <2>2, <2>3, <1>1
<1>4. CASE ~(b.capacity - b.writeIndex < 2)
  <2>1. PICK d : d = putNumber(b, size)
    OBVIOUS
  <2>2. c = writeData(d, bytes)
    BY <1>1, <1>2, <1>4, <2>1 DEF putView, writableLength
  <2>3. b.writeIndex + 2 <= b.capacity
    BY <1>4, SoundFacts
  <2>4. /\ Grows(b, d) /\ d.writeIndex = b.writeIndex + 2
        /\ Holds(d.data, b.offset + b.writeIndex, size)
    BY <2>1, <2>3, PutNumber
  <2>5. Sound(d) /\ d.capacity = b.capacity /\ d.offset = b.offset
    BY <2>4 DEF Grows
  <2>6. Grows(d, c)
    BY <2>2, <2>5, WriteGrows
  <2>7. Grows(b, c)
    BY <2>4, <2>6, GrowsOn
  <2>8. ASSUME b.writeIndex + 2 + n <= b.capacity
        PROVE  /\ c.writeIndex = b.writeIndex + 2 + n
               /\ Holds(c.data, b.offset + b.writeIndex, size)
               /\ \A i \in 1..n : c.data[b.offset + b.writeIndex + 2 + i] = bytes[i]
    <3>1. /\ c.writeIndex = d.writeIndex + n
          /\ \A i \in 1..n : c.data[d.offset + d.writeIndex + i] = bytes[i]
      BY <1>1, <2>2, <2>4, <2>5, <2>8, WriteData
    <3>2. d.offset + d.writeIndex = b.offset + b.writeIndex + 2
      BY <2>4, <2>5, SoundFacts
    <3>3. /\ b.offset + b.writeIndex + 1 \in 1..(d.offset + d.writeIndex)
          /\ b.offset + b.writeIndex + 2 \in 1..(d.offset + d.writeIndex)
      BY <3>2, SoundFacts
    <3>4. /\ c.data[b.offset + b.writeIndex + 1] = d.data[b.offset + b.writeIndex + 1]
          /\ c.data[b.offset + b.writeIndex + 2] = d.data[b.offset + b.writeIndex + 2]
      BY <2>6, <3>3 DEF Grows
    <3> QED BY <2>4, <3>1, <3>2, <3>4 DEF Holds
  <2> QED BY <2>7, <2>8, <1>1, <1>2
<1> QED BY <1>3, <1>4

------------------------------------------------------------------------------
\* A message whose fields are numbers and bytes.
Numeric(m) ==
    /\ {m.pif, m.length, m.mid, m.seq, m.age, m.eif} \subseteq Nat
    /\ m.name \in Seq(Nat)

LEMMA OtherStorage ==
    ASSUME NEW d \in Seq(Nat), NEW e \in Seq(Nat), NEW at \in Nat
    PROVE  [[data |-> d, offset |-> at, writeIndex |-> 0, readIndex |-> 0, capacity |-> 2]
              EXCEPT !.data = e] =
           [data |-> e, offset |-> at, writeIndex |-> 0, readIndex |-> 0, capacity |-> 2]
OBVIOUS

\* The bytes that a message is written as: its first fields where there is room for
\* them, and all of them where there is room for all.
LEMMA Serialized ==
    ASSUME NEW room \in Nat \ {0, 1}, NEW m, Numeric(m), NEW w,
           w = Readable(serialize(newBuffer(room), m))
    PROVE  /\ w \in Seq(Nat) /\ Len(w) <= room
           /\ Len(w) >= 8 => /\ Holds(w, 0, m.pif) /\ Holds(w, 2, toUInt16(Len(w)))
                             /\ Holds(w, 4, m.mid) /\ Holds(w, 6, m.seq)
           /\ room >= 10 => Len(w) >= 10 /\ Holds(w, 8, m.age)
           /\ 14 + Len(m.name) <= room =>
                 /\ Len(w) = 14 + Len(m.name)
                 /\ Holds(w, 8, m.age) /\ Holds(w, 10, toUInt16(Len(m.name)))
                 /\ \A i \in 1..Len(m.name) : w[12 + i] = m.name[i]
                 /\ Holds(w, 12 + Len(m.name), m.eif)
<1>1. PICK n \in Nat : n = Len(m.name)
  BY LenProperties DEF Numeric
<1>2. PICK b0 : b0 = newBuffer(room)
  OBVIOUS
<1>3. PICK b1 : b1 = putNumber(b0, m.pif)
  OBVIOUS
<1>4. PICK b2 : b2 = putNumber(b1, m.length)
  OBVIOUS
<1>5. PICK b3 : b3 = putNumber(b2, m.mid)
  OBVIOUS
<1>6. PICK b4 : b4 = putNumber(b3, m.seq)
  OBVIOUS
<1>7. PICK b5 : b5 = putNumber(b4, m.age)
  OBVIOUS
<1>8. PICK b6 : b6 = putView(b5, m.name)
  OBVIOUS
<1>9. PICK b7 : b7 = putNumber(b6, m.eif)
  OBVIOUS
<1>10. /\ Sound(b0) /\ b0.offset = 0 /\ b0.writeIndex = 0 /\ b0.readIndex = 0
       /\ b0.capacity = room /\ Len(b0.data) = room
  <2>1. [i \in 1..room |-> 0] \in Seq(Nat) /\ Len([i \in 1..room |-> 0]) = room
    OBVIOUS
  <2>2. b0 \in Buffers /\ b0 = [data |-> [i \in 1..room |-> 0], offset |-> 0,
                                 writeIndex |-> 0, readIndex |-> 0, capacity |-> room]
    BY <2>1, <1>2 DEF newBuffer, Buffers
  <2> QED BY <2>1, <2>2 DEF Sound
<1>11. /\ m.pif \in Nat /\ m.length \in Nat /\ m.mid \in Nat /\ m.seq \in Nat
       /\ m.age \in Nat /\ m.eif \in Nat /\ m.name \in Seq(Nat)
  BY DEF Numeric
<1>12. Grows(b0, b1)
  BY <1>3, <1>10, <1>11, PutNumber
<1>13. Sound(b1) /\ Grows(b1, b2)
  BY <1>4, <1>11, <1>12, PutNumber DEF Grows
<1>14. Sound(b2) /\ Grows(b2, b3)
  BY <1>5, <1>11, <1>13, PutNumber DEF Grows
<1>15. Sound(b3) /\ Grows(b3, b4)
  BY <1>6, <1>11, <1>14, PutNumber DEF Grows
<1>16. Sound(b4) /\ Grows(b4, b5)
  BY <1>7, <1>11, <1>15, PutNumber DEF Grows
<1>17. Sound(b5) /\ Grows(b5, b6)
  BY <1>8, <1>11, <1>16, PutView DEF Grows
<1>18. Sound(b6) /\ Grows(b6, b7)
  BY <1>9, <1>11, <1>17, PutNumber DEF Grows
<1>19. Sound(b7)
  BY <1>18 DEF Grows
\* All of them are windows at the front of a storage of this size.
<1>20. \A b \in {b0, b1, b2, b3, b4, b5, b6, b7} :
          /\ b.offset = 0 /\ b.readIndex = 0 /\ b.capacity = room /\ Len(b.data) = room
          /\ b.writeIndex \in Nat /\ b.writeIndex <= room
  <2>1. b0.offset = 0 /\ b0.readIndex = 0 /\ b0.capacity = room /\ Len(b0.data) = room
    BY <1>10
  <2>2. b1.offset = 0 /\ b1.readIndex = 0 /\ b1.capacity = room /\ Len(b1.data) = room
    BY <2>1, <1>12 DEF Grows
  <2>3. b2.offset = 0 /\ b2.readIndex = 0 /\ b2.capacity = room /\ Len(b2.data) = room
    BY <2>2, <1>13 DEF Grows
  <2>4. b3.offset = 0 /\ b3.readIndex = 0 /\ b3.capacity = room /\ Len(b3.data) = room
    BY <2>3, <1>14 DEF Grows
  <2>5. b4.offset = 0 /\ b4.readIndex = 0 /\ b4.capacity = room /\ Len(b4.data) = room
    BY <2>4, <1>15 DEF Grows
  <2>6. b5.offset = 0 /\ b5.readIndex = 0 /\ b5.capacity = room /\ Len(b5.data) = room
    BY <2>5, <1>16 DEF Grows
  <2>7. b6.offset = 0 /\ b6.readIndex = 0 /\ b6.capacity = room /\ Len(b6.data) = room
    BY <2>6, <1>17 DEF Grows
  <2>8. b7.offset = 0 /\ b7.readIndex = 0 /\ b7.capacity = room /\ Len(b7.data) = room
    BY <2>7, <1>18 DEF Grows
  <2>9. \A b \in {b0, b1, b2, b3, b4, b5, b6, b7} : Sound(b)
    BY <1>10, <1>13, <1>14, <1>15, <1>16, <1>17, <1>18, <1>19
  <2>10. \A b \in {b0, b1, b2, b3, b4, b5, b6, b7} :
            b.offset = 0 /\ b.readIndex = 0 /\ b.capacity = room /\ Len(b.data) = room
    BY <2>1, <2>2, <2>3, <2>4, <2>5, <2>6, <2>7, <2>8
  <2> QED BY <2>9, <2>10, SoundFacts
\* The length goes to the place of the second number.
<1>21. PICK z \in Nat : z = b7.writeIndex /\ z <= room
  BY <1>20
<1>22. PICK len \in Nat : len = toUInt16(z)
  BY Width
<1>23. b1.writeIndex = 2 /\ Holds(b1.data, 0, m.pif)
  BY <1>3, <1>10, <1>11, PutNumber
<1>24. PICK at \in Nat : at = b2.writeIndex - 2 /\ at + 2 <= room
  <2>1. b1.writeIndex <= b2.writeIndex
    BY <1>13 DEF Grows
  <2> QED BY <2>1, <1>20, <1>23
<1>25. PICK l : l = [data |-> b7.data, offset |-> at, writeIndex |-> 0, readIndex |-> 0,
                     capacity |-> 2]
  OBVIOUS
<1>26. Sound(l) /\ l.offset = at /\ l.writeIndex = 0 /\ l.capacity = 2 /\ l.data = b7.data
  <2>1. b7.data \in Seq(Nat) /\ Len(b7.data) = room
    BY <1>19, <1>20, SoundFacts
  <2>2. l \in Buffers
    BY <1>25, <2>1 DEF Buffers
  <2> QED BY <2>1, <2>2, <1>24, <1>25 DEF Sound
<1>27. PICK f : f = putNumber(l, len)
  OBVIOUS
<1>28. /\ Sound(f) /\ Len(f.data) = room /\ Holds(f.data, at, len)
       /\ \A i \in 1..room : i <= at \/ i > at + 2 => f.data[i] = b7.data[i]
  <2>1. Grows(l, f)
    BY <1>26, <1>27, PutNumber
  <2>2. l.offset + l.writeIndex = at /\ l.writeIndex + 2 <= l.capacity /\ Len(l.data) = room
    BY <1>20, <1>24, <1>26
  <2>3. /\ Holds(f.data, l.offset + l.writeIndex, len)
        /\ \A i \in 1..Len(l.data) :
              i <= l.offset + l.writeIndex \/ i > l.offset + l.writeIndex + 2
                 => f.data[i] = l.data[i]
    BY <1>26, <1>27, <2>2, PutNumber
  <2> QED BY <2>1, <2>2, <2>3, <1>26 DEF Grows
<1>29. w = SubSeq(f.data, 1, z)
  <2>1. slice(b2, b2.writeIndex - 2, 2, FALSE).sub =
           [data |-> b2.data, offset |-> at, writeIndex |-> 0, readIndex |-> 0, capacity |-> 2]
    <3>1. ~(b2.writeIndex - 2 + 2 > b2.capacity) /\ b2.writeIndex - 2 + b2.offset = at
      BY <1>20, <1>24
    <3> QED BY <3>1 DEF slice
  <2>2. sharing(slice(b2, b2.writeIndex - 2, 2, FALSE).sub, b7) = l
    <3>1. PICK s : s = slice(b2, b2.writeIndex - 2, 2, FALSE).sub
      OBVIOUS
    <3>2. PICK d \in Seq(Nat), e \in Seq(Nat) : d = b2.data /\ e = b7.data
      BY <1>14, <1>19, SoundFacts
    <3>3. [s EXCEPT !.data = e] = l
      <4>1. s = [data |-> d, offset |-> at, writeIndex |-> 0, readIndex |-> 0, capacity |-> 2]
        BY <2>1, <3>1, <3>2
      <4>2. l = [data |-> e, offset |-> at, writeIndex |-> 0, readIndex |-> 0, capacity |-> 2]
        BY <3>2, <1>25
      <4>3. [[data |-> d, offset |-> at, writeIndex |-> 0, readIndex |-> 0, capacity |-> 2]
               EXCEPT !.data = e] =
            [data |-> e, offset |-> at, writeIndex |-> 0, readIndex |-> 0, capacity |-> 2]
        BY OtherStorage
      <4> QED BY Zenon, <4>1, <4>2, <4>3
    <3> QED BY <3>1, <3>2, <3>3 DEF sharing
  <2>3. toUInt16(readableLength(b7)) = len
    BY <1>20, <1>21, <1>22 DEF readableLength
  <2>4. serialize(b0, m) = sharing(b7, f)
    BY <2>2, <2>3, <1>3, <1>4, <1>5, <1>6, <1>7, <1>8, <1>9, <1>27 DEF serialize
  <2>5. b7 \in Buffers
    BY <1>19 DEF Sound
  <2>6. PICK g : g = sharing(b7, f)
    OBVIOUS
  <2>7. g.data = f.data /\ g.offset = 0 /\ g.readIndex = 0 /\ g.writeIndex = z
    BY <2>5, <2>6, <1>20, <1>21 DEF sharing, Buffers
  <2>8. w = SubSeq(g.data, g.offset + g.readIndex + 1,
                   g.offset + g.readIndex + (g.writeIndex - g.readIndex))
    BY <2>4, <2>6, <1>2 DEF Readable, Bytes, readableLength
  <2>9. /\ g.offset + g.readIndex + 1 = 1
        /\ g.offset + g.readIndex + (g.writeIndex - g.readIndex) = z
    BY <2>7
  <2> QED BY <2>7, <2>8, <2>9
<1>30. w \in Seq(Nat) /\ Len(w) = z /\ \A i \in 1..z : w[i] = f.data[i]
  <2>1. f.data \in Seq(Nat) /\ Len(f.data) = room
    BY <1>28, SoundFacts
  <2>2. \A i \in 1..z : f.data[i] \in Nat
    BY <2>1, <1>21, ElementOfSeq
  <2>3. /\ w \in Seq(Nat) /\ Len(w) = IF 1 <= z THEN z - 1 + 1 ELSE 0
        /\ \A i \in 1..(z - 1 + 1) : w[i] = f.data[1 + i - 1]
    BY <2>2, <1>29, SubSeqProperties
  <2> QED BY <2>3
<1>31. ASSUME room >= 8
       PROVE  /\ b2.writeIndex = 4 /\ b3.writeIndex = 6 /\ b4.writeIndex = 8 /\ at = 2
              /\ z >= 8
              /\ Holds(w, 0, m.pif) /\ Holds(w, 2, len)
              /\ Holds(w, 4, m.mid) /\ Holds(w, 6, m.seq)
  <2>1. b2.writeIndex = 4 /\ at = 2
    <3>1. b1.writeIndex + 2 <= b1.capacity
      BY <1>20, <1>23, <1>31
    <3>2. b2.writeIndex = b1.writeIndex + 2
      BY <3>1, <1>4, <1>11, <1>13, PutNumber
    <3> QED BY <3>2, <1>23, <1>24
  <2>2. b3.writeIndex = 6 /\ Holds(b3.data, 4, m.mid)
    <3>1. b2.writeIndex + 2 <= b2.capacity /\ b2.offset + b2.writeIndex = 4
      BY <1>20, <1>31, <2>1
    <3> QED BY <3>1, <1>5, <1>11, <1>14, <2>1, PutNumber
  <2>3. b4.writeIndex = 8 /\ Holds(b4.data, 6, m.seq)
    <3>1. b3.writeIndex + 2 <= b3.capacity /\ b3.offset + b3.writeIndex = 6
      BY <1>20, <1>31, <2>2
    <3> QED BY <3>1, <1>6, <1>11, <1>15, <2>2, PutNumber
  <2>4. Grows(b3, b7) /\ Grows(b4, b7) /\ Grows(b1, b7)
    BY <1>13, <1>14, <1>15, <1>16, <1>17, <1>18, GrowsOn
  <2>5. z >= 8
    BY <2>3, <2>4, <1>21 DEF Grows
  <2>6. \A i \in 1..8 : i \in 1..z /\ i \in 1..room
    BY <2>5, <1>21
  <2>7. \A i \in 1..8 : i # 3 /\ i # 4 => w[i] = b7.data[i]
    <3>1. \A i \in 1..8 : i # 3 /\ i # 4 => (i <= at \/ i > at + 2)
      BY <2>1
    <3> QED BY <3>1, <2>6, <1>28, <1>30
  <2>8. /\ \A i \in 1..2 : b7.data[i] = b1.data[i]
        /\ \A i \in 1..6 : b7.data[i] = b3.data[i]
        /\ \A i \in 1..8 : b7.data[i] = b4.data[i]
    <3>1. /\ b1.offset + b1.writeIndex = 2 /\ b3.offset + b3.writeIndex = 6
          /\ b4.offset + b4.writeIndex = 8
      BY <1>20, <1>23, <2>2, <2>3
    <3> QED BY <3>1, <2>4 DEF Grows
  <2>9. w[3] = f.data[3] /\ w[4] = f.data[4]
    <3>1. 3 \in 1..z /\ 4 \in 1..z
      BY <2>5
    <3> QED BY <3>1, <1>30
  <2>10. Holds(w, 0, m.pif)
    BY <2>7, <2>8, <1>23 DEF Holds
  <2>11. Holds(w, 2, len)
    BY <2>1, <2>9, <1>28 DEF Holds
  <2>12. Holds(w, 4, m.mid)
    BY <2>2, <2>7, <2>8 DEF Holds
  <2>13. Holds(w, 6, m.seq)
    BY <2>3, <2>7, <2>8 DEF Holds
  <2> QED BY <2>1, <2>2, <2>3, <2>5, <2>10, <2>11, <2>12, <2>13
<1>32. ASSUME room >= 10
       PROVE  /\ b5.writeIndex = 10 /\ Holds(b5.data, 8, m.age)
              /\ z >= 10 /\ Holds(w, 8, m.age)
  <2>1. b4.writeIndex = 8 /\ at = 2
    BY <1>31, <1>32
  <2>2. b5.writeIndex = 10 /\ Holds(b5.data, 8, m.age)
    <3>1. b4.writeIndex + 2 <= b4.capacity /\ b4.offset + b4.writeIndex = 8
      BY <1>20, <1>32, <2>1
    <3> QED BY <3>1, <1>7, <1>11, <1>16, <2>1, PutNumber
  <2>3. Grows(b5, b7)
    BY <1>17, <1>18, GrowsOn
  <2>4. b7.data[9] = b5.data[9] /\ b7.data[10] = b5.data[10]
    <3>1. b5.offset + b5.writeIndex = 10
      BY <1>20, <2>2
    <3> QED BY <2>3, <3>1 DEF Grows
  <2>5. z >= 10
    BY <2>2, <2>3, <1>21 DEF Grows
  <2>6. w[9] = b7.data[9] /\ w[10] = b7.data[10]
    <3>1. /\ 9 \in 1..z /\ 9 \in 1..room /\ 9 > at + 2
          /\ 10 \in 1..z /\ 10 \in 1..room /\ 10 > at + 2
      BY <1>32, <2>1, <2>5
    <3> QED BY <3>1, <1>28, <1>30
  <2> QED BY <2>2, <2>4, <2>5, <2>6 DEF Holds
<1>33. ASSUME 14 + n <= room
       PROVE  /\ z = 14 + n
              /\ Holds(w, 8, m.age) /\ Holds(w, 10, toUInt16(n))
              /\ \A i \in 1..n : w[12 + i] = m.name[i]
              /\ Holds(w, 12 + n, m.eif)
  <2>1. at = 2
    BY <1>31, <1>33
  <2>2. b5.writeIndex = 10 /\ Holds(w, 8, m.age)
    BY <1>32, <1>33
  <2>3. /\ b6.writeIndex = 12 + n /\ Holds(b6.data, 10, toUInt16(n))
        /\ \A i \in 1..n : b6.data[12 + i] = m.name[i]
    <3>1. b5.writeIndex + 2 + Len(m.name) <= b5.capacity /\ b5.offset + b5.writeIndex = 10
      BY <1>1, <1>20, <1>33, <2>2
    <3>2. /\ b6.writeIndex = b5.writeIndex + 2 + n
          /\ Holds(b6.data, b5.offset + b5.writeIndex, toUInt16(n))
          /\ \A i \in 1..n : b6.data[b5.offset + b5.writeIndex + 2 + i] = m.name[i]
      <4>1. /\ b6.writeIndex = b5.writeIndex + 2 + Len(m.name)
            /\ Holds(b6.data, b5.offset + b5.writeIndex, toUInt16(Len(m.name)))
            /\ \A i \in 1..Len(m.name) :
                  b6.data[b5.offset + b5.writeIndex + 2 + i] = m.name[i]
        <5>1. PICK name \in Seq(Nat) : name = m.name
          BY <1>11
        <5>2. b6 = putView(b5, name) /\ b5.writeIndex + 2 + Len(name) <= b5.capacity
          BY <3>1, <5>1, <1>8
        <5>3. /\ b6.writeIndex = b5.writeIndex + 2 + Len(name)
              /\ Holds(b6.data, b5.offset + b5.writeIndex, toUInt16(Len(name)))
              /\ \A i \in 1..Len(name) :
                    b6.data[b5.offset + b5.writeIndex + 2 + i] = name[i]
          BY <5>2, <1>17, PutView
        <5> QED BY <5>1, <5>3
      <4> QED BY <4>1, <1>1
    <3>3. \A i \in 1..n : b5.offset + b5.writeIndex + 2 + i = 12 + i
      BY <3>1
    <3> QED BY <3>1, <3>2, <3>3, <2>2
  <2>4. b7.writeIndex = 14 + n /\ Holds(b7.data, 12 + n, m.eif)
    <3>1. b6.writeIndex + 2 <= b6.capacity /\ b6.offset + b6.writeIndex = 12 + n
      BY <1>20, <1>33, <2>3
    <3>2. /\ b7.writeIndex = b6.writeIndex + 2
          /\ Holds(b7.data, b6.offset + b6.writeIndex, m.eif)
      BY <3>1, <1>9, <1>11, <1>18, PutNumber
    <3> QED BY <3>1, <3>2, <2>3
  <2>6. \A i \in 1..(12 + n) : b7.data[i] = b6.data[i]
    <3>1. b6.offset + b6.writeIndex = 12 + n
      BY <1>20, <2>3
    <3> QED BY <3>1, <1>18 DEF Grows
  <2>7. \A i \in 5..(14 + n) : w[i] = b7.data[i]
    <3>1. \A i \in 5..(14 + n) : i \in 1..z /\ i \in 1..room /\ i > at + 2
      BY <2>1, <2>4, <1>21, <1>33
    <3> QED BY <3>1, <1>28, <1>30
  <2>9. Holds(w, 10, toUInt16(n))
    BY <2>3, <2>6, <2>7 DEF Holds
  <2>10. \A i \in 1..n : w[12 + i] = m.name[i]
    <3>1. \A i \in 1..n : 12 + i \in 5..(14 + n) /\ 12 + i \in 1..(12 + n)
      OBVIOUS
    <3> QED BY <3>1, <2>3, <2>6, <2>7
  <2>11. Holds(w, 12 + n, m.eif)
    <3>1. 12 + n + 1 \in 5..(14 + n) /\ 12 + n + 2 \in 5..(14 + n)
      OBVIOUS
    <3> QED BY <3>1, <2>4, <2>7 DEF Holds
  <2> QED BY <1>21, <2>2, <2>4, <2>9, <2>10, <2>11
<1>34. z >= 8 => room >= 8
  BY <1>21
<1> QED BY <1>1, <1>21, <1>22, <1>30, <1>31, <1>32, <1>33, <1>34

------------------------------------------------------------------------------
\* A datagram as the reader has it, read up to here.
From(bytes, here) ==
    [data |-> bytes, offset |-> 0, writeIndex |-> Len(bytes), readIndex |-> here,
     capacity |-> Len(bytes)]

NumberBehind(bytes, here) == Base * bytes[here + 1] + bytes[here + 2]

LEMMA ReceivedIs == ASSUME NEW bytes \in Seq(Nat) PROVE Received(bytes) = From(bytes, 0)
<1>1. PICK len \in Nat : len = Len(bytes)
  BY LenProperties
<1>2. PICK b : b = [newBuffer(len) EXCEPT !.data = bytes]
  OBVIOUS
<1>3. b = [data |-> bytes, offset |-> 0, writeIndex |-> 0, readIndex |-> 0, capacity |-> len]
  <2>1. [i \in 1..len |-> 0] \in Seq(Nat)
    OBVIOUS
  <2>2. PICK zeros \in Seq(Nat) : zeros = [i \in 1..len |-> 0]
    BY <2>1
  <2>3. b = [[data |-> zeros, offset |-> 0, writeIndex |-> 0, readIndex |-> 0,
              capacity |-> len] EXCEPT !.data = bytes]
    BY <1>2, <2>2 DEF newBuffer
  <2> QED BY <2>3
<1>4. readableLength(b) = 0 /\ writableLength(b) = len
  BY <1>3 DEF readableLength, writableLength
<1>5. CASE len = 0
  BY <1>1, <1>2, <1>3, <1>4, <1>5 DEF Received, setReadableLength, From
<1>6. CASE len # 0
  <2>1. setReadableLength(b, len) = setWriteIndex(b, len)
    BY <1>3, <1>4, <1>6 DEF setReadableLength
  <2>2. setWriteIndex(b, len) = [b EXCEPT !.writeIndex = len]
    BY <1>3 DEF setWriteIndex
  <2>3. Received(bytes) = [b EXCEPT !.writeIndex = len]
    BY <1>1, <1>2, <2>1, <2>2 DEF Received
  <2>4. [b EXCEPT !.writeIndex = len] =
           [data |-> bytes, offset |-> 0, writeIndex |-> len, readIndex |-> 0, capacity |-> len]
    BY <1>3
  <2> QED BY <1>1, <2>3, <2>4 DEF From
<1> QED BY <1>5, <1>6

LEMMA SkippedTo ==
    ASSUME NEW bytes \in Seq(Nat), NEW i \in Nat, NEW j \in Nat, i <= Len(bytes),
           j <= Len(bytes)
    PROVE  setReadIndex(From(bytes, i), j) = From(bytes, j)
<1>1. PICK len \in Nat : len = Len(bytes)
  BY LenProperties
<1> QED BY <1>1 DEF setReadIndex, From

LEMMA TakesNumber ==
    ASSUME NEW bytes \in Seq(Nat), NEW i \in Nat, i + 2 <= Len(bytes), NEW value,
           NEW t, t = takeNumber(From(bytes, i), value)
    PROVE  /\ t.ok /\ t.buffer = From(bytes, i + 2)
           /\ t.value = NumberBehind(bytes, i) /\ t.value \in Nat
<1>1. PICK len \in Nat : len = Len(bytes)
  BY LenProperties
<1>2. PICK b : b = From(bytes, i)
  OBVIOUS
<1>3. /\ b.data = bytes /\ b.offset = 0 /\ b.writeIndex = len /\ b.readIndex = i
      /\ b.capacity = len
  BY <1>1, <1>2 DEF From
<1>4. ~(readableLength(b) < 2)
  BY <1>1, <1>3 DEF readableLength
<1>5. setReadIndex(b, i + 2) = From(bytes, i + 2)
  BY <1>1, <1>2, SkippedTo
<1>6. fromEndian(Bytes(b, i, 2)) = NumberBehind(bytes, i)
  <2>1. Bytes(b, i, 2) = SubSeq(bytes, i + 1, i + 2)
    BY <1>3 DEF Bytes
  <2>2. \A j \in (i + 1)..(i + 2) : bytes[j] \in Nat
    BY <1>1, ElementOfSeq
  <2>3. \A j \in 1..((i + 2) - (i + 1) + 1) :
           SubSeq(bytes, i + 1, i + 2)[j] = bytes[i + 1 + j - 1]
    BY <2>2, SubSeqProperties
  <2>4. /\ 1 \in 1..((i + 2) - (i + 1) + 1) /\ 2 \in 1..((i + 2) - (i + 1) + 1)
        /\ i + 1 + 1 - 1 = i + 1 /\ i + 1 + 2 - 1 = i + 2
    OBVIOUS
  <2> QED BY <2>1, <2>3, <2>4 DEF fromEndian, NumberBehind
<1>7. NumberBehind(bytes, i) \in Nat
  <2>1. i + 1 \in 1..Len(bytes) /\ i + 2 \in 1..Len(bytes)
    BY <1>1
  <2>2. bytes[i + 1] \in Nat /\ bytes[i + 2] \in Nat
    BY <2>1, ElementOfSeq
  <2>3. PICK w \in Nat, x \in Nat, y \in Nat : w = Base /\ x = bytes[i + 1] /\ y = bytes[i + 2]
    BY <2>2, Width
  <2>4. w * x + y \in Nat
    OBVIOUS
  <2> QED BY <2>3, <2>4 DEF NumberBehind
<1>8. t = [ok |-> TRUE, buffer |-> setReadIndex(b, i + 2), value |-> fromEndian(Bytes(b, i, 2))]
  BY <1>2, <1>3, <1>4 DEF takeNumber
<1> QED BY <1>5, <1>6, <1>7, <1>8

LEMMA HeldNumber ==
    ASSUME NEW bytes, NEW i \in Nat, NEW n \in Nat, Holds(bytes, i, n)
    PROVE  NumberBehind(bytes, i) = n
BY ThereAndBack DEF Holds, NumberBehind

Fields(pif, length, mid, number, age, name, eif) ==
    [pif |-> pif, length |-> length, mid |-> mid, seq |-> number, age |-> age, name |-> name,
     eif |-> eif]

With(m, field, value) == [m EXCEPT ![field] = value]

LEMMA FieldSet ==
    ASSUME NEW a, NEW b, NEW c, NEW d, NEW e, NEW name, NEW g, NEW x
    PROVE  /\ With(Fields(a, b, c, d, e, name, g), "pif", x) = Fields(x, b, c, d, e, name, g)
           /\ With(Fields(a, b, c, d, e, name, g), "length", x) = Fields(a, x, c, d, e, name, g)
           /\ With(Fields(a, b, c, d, e, name, g), "mid", x) = Fields(a, b, x, d, e, name, g)
           /\ With(Fields(a, b, c, d, e, name, g), "seq", x) = Fields(a, b, c, x, e, name, g)
           /\ With(Fields(a, b, c, d, e, name, g), "age", x) = Fields(a, b, c, d, x, name, g)
           /\ With(Fields(a, b, c, d, e, name, g), "name", x) = Fields(a, b, c, d, e, x, g)
           /\ With(Fields(a, b, c, d, e, name, g), "eif", x) = Fields(a, b, c, d, e, name, x)
           /\ Fields(a, b, c, d, e, name, g)["eif"] = g
<1>1. With(Fields(a, b, c, d, e, name, g), "pif", x) = Fields(x, b, c, d, e, name, g)
  BY DEF Fields, With
<1>2. With(Fields(a, b, c, d, e, name, g), "length", x) = Fields(a, x, c, d, e, name, g)
  BY DEF Fields, With
<1>3. With(Fields(a, b, c, d, e, name, g), "mid", x) = Fields(a, b, x, d, e, name, g)
  BY DEF Fields, With
<1>4. With(Fields(a, b, c, d, e, name, g), "seq", x) = Fields(a, b, c, x, e, name, g)
  BY DEF Fields, With
<1>5. With(Fields(a, b, c, d, e, name, g), "age", x) = Fields(a, b, c, d, x, name, g)
  BY DEF Fields, With
<1>6. With(Fields(a, b, c, d, e, name, g), "name", x) = Fields(a, b, c, d, e, x, g)
  BY DEF Fields, With
<1>7. With(Fields(a, b, c, d, e, name, g), "eif", x) = Fields(a, b, c, d, e, name, x)
  BY DEF Fields, With
<1>8. Fields(a, b, c, d, e, name, g)["eif"] = g
  BY DEF Fields, With
<1> QED BY <1>1, <1>2, <1>3, <1>4, <1>5, <1>6, <1>7, <1>8

LEMMA TakesField ==
    ASSUME NEW bytes \in Seq(Nat), NEW i \in Nat, NEW j \in Nat, j = i + 2, j <= Len(bytes),
           NEW s, NEW field, s.buffer = From(bytes, i), NEW t, t = takeField(s, field)
    PROVE  /\ t.buffer = From(bytes, j)
           /\ t.message = With(s.message, field, NumberBehind(bytes, i))
<1>1. PICK taken : taken = takeNumber(From(bytes, i), s.message[field])
  OBVIOUS
<1>2. taken.buffer = From(bytes, i + 2) /\ taken.value = NumberBehind(bytes, i)
  BY <1>1, TakesNumber
<1>3. t = [buffer |-> taken.buffer, message |-> [s.message EXCEPT ![field] = taken.value]]
  BY <1>1 DEF takeField
<1> QED BY <1>2, <1>3 DEF With

\* The first four fields of a datagram that has them.
LEMMA Opens ==
    ASSUME NEW bytes \in Seq(Nat), Len(bytes) >= 8, NEW s,
           s = takeField(takeField(takeField(takeField(
                  [buffer |-> Received(bytes), message |-> Fresh], "pif"), "length"), "mid"), "seq")
    PROVE  /\ s.buffer = From(bytes, 8)
           /\ s.message = Fields(NumberBehind(bytes, 0), NumberBehind(bytes, 2),
                                 NumberBehind(bytes, 4), NumberBehind(bytes, 6),
                                 Unset, <<>>, Unset)
<1>0. PICK len \in Nat : len = Len(bytes)
  BY LenProperties
<1>1. PICK s0 : s0 = [buffer |-> Received(bytes), message |-> Fresh]
  OBVIOUS
<1>2. PICK s1 : s1 = takeField(s0, "pif")
  OBVIOUS
<1>3. PICK s2 : s2 = takeField(s1, "length")
  OBVIOUS
<1>4. PICK s3 : s3 = takeField(s2, "mid")
  OBVIOUS
<1>5. s = takeField(s3, "seq")
  BY <1>1, <1>2, <1>3, <1>4
<1>6. PICK a, b, c, d : /\ a = NumberBehind(bytes, 0) /\ b = NumberBehind(bytes, 2)
                        /\ c = NumberBehind(bytes, 4) /\ d = NumberBehind(bytes, 6)
  OBVIOUS
<1>7. /\ s0.buffer = From(bytes, 0)
      /\ s0.message = Fields(Unset, 10, messageId, Unset, Unset, <<>>, Unset)
  BY <1>1, ReceivedIs DEF Fresh, Fields
<1>8. /\ s1.buffer = From(bytes, 2)
      /\ s1.message = Fields(a, 10, messageId, Unset, Unset, <<>>, Unset)
  <2>1. s1.buffer = From(bytes, 2) /\ s1.message = With(s0.message, "pif", a)
    <3>1. 2 = 0 + 2 /\ 2 <= Len(bytes)
      BY <1>0
    <3> QED BY <3>1, <1>2, <1>6, <1>7, TakesField
  <2>2. With(s0.message, "pif", a) =
           Fields(a, 10, messageId, Unset, Unset, <<>>, Unset)
    BY <1>7, FieldSet
  <2> QED BY <2>1, <2>2
<1>9. /\ s2.buffer = From(bytes, 4)
      /\ s2.message = Fields(a, b, messageId, Unset, Unset, <<>>, Unset)
  <2>1. s2.buffer = From(bytes, 4) /\ s2.message = With(s1.message, "length", b)
    <3>1. 4 = 2 + 2 /\ 4 <= Len(bytes)
      BY <1>0
    <3> QED BY <3>1, <1>3, <1>6, <1>8, TakesField
  <2>2. With(s1.message, "length", b) =
           Fields(a, b, messageId, Unset, Unset, <<>>, Unset)
    BY <1>8, FieldSet
  <2> QED BY <2>1, <2>2
<1>10. /\ s3.buffer = From(bytes, 6)
       /\ s3.message = Fields(a, b, c, Unset, Unset, <<>>, Unset)
  <2>1. s3.buffer = From(bytes, 6) /\ s3.message = With(s2.message, "mid", c)
    <3>1. 6 = 4 + 2 /\ 6 <= Len(bytes)
      BY <1>0
    <3> QED BY <3>1, <1>4, <1>6, <1>9, TakesField
  <2>2. With(s2.message, "mid", c) = Fields(a, b, c, Unset, Unset, <<>>, Unset)
    BY <1>9, FieldSet
  <2> QED BY <2>1, <2>2
<1>11. /\ s.buffer = From(bytes, 8)
       /\ s.message = Fields(a, b, c, d, Unset, <<>>, Unset)
  <2>1. s.buffer = From(bytes, 8) /\ s.message = With(s3.message, "seq", d)
    <3>1. 8 = 6 + 2 /\ 8 <= Len(bytes)
      BY <1>0
    <3> QED BY <3>1, <1>5, <1>6, <1>10, TakesField
  <2>2. With(s3.message, "seq", d) = Fields(a, b, c, d, Unset, <<>>, Unset)
    BY <1>10, FieldSet
  <2> QED BY <2>1, <2>2
<1> QED BY <1>6, <1>11

\* The fields that a reply is told by, whatever is behind them.
LEMMA ReadsNumbers ==
    ASSUME NEW bytes \in Seq(Nat), Len(bytes) >= 8, NEW m, m = deserialize(Received(bytes))
    PROVE  /\ m.mid = NumberBehind(bytes, 4) /\ m.seq = NumberBehind(bytes, 6)
           /\ Len(bytes) >= 10 => m.age = NumberBehind(bytes, 8)
           /\ idOf(Received(bytes)) = NumberBehind(bytes, 4)
<1> DEFINE opened == takeField(takeField([buffer |-> Received(bytes), message |-> Fresh],
                                         "pif"), "length")
<1>1. PICK s : s = takeField(takeField(opened, "mid"), "seq")
  OBVIOUS
<1>2. /\ s.message = Fields(NumberBehind(bytes, 0), NumberBehind(bytes, 2),
                            NumberBehind(bytes, 4), NumberBehind(bytes, 6), Unset, <<>>, Unset)
      /\ s.buffer = From(bytes, 8)
  BY <1>1, Opens
<1>3. PICK start : start = takeField(s, "age")
  OBVIOUS
<1>4. PICK nameSize : nameSize = takeNumber(start.buffer, 0)
  OBVIOUS
<1>5. PICK view : view = takeView(nameSize.buffer, nameSize.value,
                                  [i \in 1..nameSize.value |-> 0])
  OBVIOUS
<1>6. PICK v : v = [buffer |-> view.buffer,
                    message |-> With(start.message, "name", view.value)]
  OBVIOUS
<1>7. m = takeField(v, "eif").message
  BY <1>1, <1>3, <1>4, <1>5, <1>6 DEF deserialize, With
<1>8. PICK age, eif :
         /\ age = takeNumber(s.buffer, s.message["age"]).value
         /\ eif = takeNumber(v.buffer, v.message["eif"]).value
  OBVIOUS
<1>9. start.message = With(s.message, "age", age)
  BY <1>3, <1>8 DEF takeField, With
<1>10. start.message = Fields(NumberBehind(bytes, 0), NumberBehind(bytes, 2),
                              NumberBehind(bytes, 4), NumberBehind(bytes, 6), age, <<>>, Unset)
  BY <1>2, <1>9, FieldSet
<1>11. v.message = Fields(NumberBehind(bytes, 0), NumberBehind(bytes, 2),
                          NumberBehind(bytes, 4), NumberBehind(bytes, 6), age, view.value, Unset)
  BY <1>6, <1>10, FieldSet
<1>12. m = With(v.message, "eif", eif)
  BY <1>7, <1>8 DEF takeField, With
<1>13. m = Fields(NumberBehind(bytes, 0), NumberBehind(bytes, 2),
                  NumberBehind(bytes, 4), NumberBehind(bytes, 6), age, view.value, eif)
  BY <1>11, <1>12, FieldSet
<1>14. idOf(Received(bytes)) = NumberBehind(bytes, 4)
  <2>1. Received(bytes) = From(bytes, 0) /\ From(bytes, 0).readIndex = 0
    BY ReceivedIs DEF From
  <2>2. setReadIndex(From(bytes, 0), 4) = From(bytes, 4) /\ 4 + 2 <= Len(bytes) /\ 0 + 4 = 4
    BY SkippedTo, LenProperties
  <2>3. takeNumber(From(bytes, 4), 0).value = NumberBehind(bytes, 4)
    BY <2>2, TakesNumber
  <2> QED BY <2>1, <2>2, <2>3 DEF idOf
<1>15. Len(bytes) >= 10 => age = NumberBehind(bytes, 8)
  <2>1. Len(bytes) >= 10 => 8 + 2 <= Len(bytes)
    OBVIOUS
  <2> QED BY <2>1, <1>2, <1>8, TakesNumber
<1> QED BY <1>13, <1>14, <1>15 DEF Fields

\* Where the fields of a whole message are.
Layout(bytes, m) ==
    /\ Len(bytes) = 14 + Len(m.name)
    /\ Holds(bytes, 0, m.pif) /\ Holds(bytes, 2, m.length) /\ Holds(bytes, 4, m.mid)
    /\ Holds(bytes, 6, m.seq) /\ Holds(bytes, 8, m.age) /\ Holds(bytes, 10, Len(m.name))
    /\ Holds(bytes, 12 + Len(m.name), m.eif)
    /\ \A i \in 1..Len(m.name) : bytes[12 + i] = m.name[i]

\* A whole message is read as it was written; behind an empty name there is nothing
\* left for the last field.
LEMMA ReadsWhole ==
    ASSUME NEW w, Numeric(w), NEW bytes \in Seq(Nat), Layout(bytes, w)
    PROVE  deserialize(Received(bytes)) =
              Fields(w.pif, w.length, w.mid, w.seq, w.age, w.name,
                     IF w.name = <<>> THEN Unset ELSE w.eif)
<1> DEFINE m == deserialize(Received(bytes))
<1>1. PICK name \in Seq(Nat), a \in Nat, b \in Nat, c \in Nat, d \in Nat, e \in Nat, g \in Nat :
          /\ name = w.name /\ a = w.pif /\ b = w.length /\ c = w.mid /\ d = w.seq /\ e = w.age
          /\ g = w.eif
  BY DEF Numeric
<1>2. PICK s : s = takeField(takeField(takeField(takeField(
                    [buffer |-> Received(bytes), message |-> Fresh], "pif"), "length"), "mid"), "seq")
  OBVIOUS
<1>3. PICK n \in Nat, len \in Nat :
         n = Len(name) /\ len = Len(bytes) /\ len = 14 + n /\ (n = 0 <=> name = <<>>)
  BY <1>1, LenProperties, EmptySeq DEF Layout
<1>4. s.buffer = From(bytes, 8) /\ s.message = Fields(a, b, c, d, Unset, <<>>, Unset)
  <2>1. /\ NumberBehind(bytes, 0) = a /\ NumberBehind(bytes, 2) = b
        /\ NumberBehind(bytes, 4) = c /\ NumberBehind(bytes, 6) = d
    BY <1>1, HeldNumber DEF Layout
  <2>2. Len(bytes) >= 8
    BY <1>3
  <2> QED BY <1>2, <2>1, <2>2, Opens
<1>5. PICK start : start = takeField(s, "age")
  OBVIOUS
<1>6. PICK nameSize : nameSize = takeNumber(start.buffer, 0)
  OBVIOUS
<1>7. PICK view : view = takeView(nameSize.buffer, nameSize.value,
                                  [i \in 1..nameSize.value |-> 0])
  OBVIOUS
<1>8. PICK v : v = [buffer |-> view.buffer, message |-> With(start.message, "name", view.value)]
  OBVIOUS
<1>9. m = takeField(v, "eif").message
  BY <1>2, <1>5, <1>6, <1>7, <1>8, Zenon DEF deserialize, With
<1> HIDE DEF m
<1>10. start.buffer = From(bytes, 10) /\ start.message = Fields(a, b, c, d, e, <<>>, Unset)
  <2>1. 10 = 8 + 2 /\ 10 <= Len(bytes)
    BY <1>3
  <2>2. NumberBehind(bytes, 8) = e
    BY <1>1, HeldNumber DEF Layout
  <2>3. start.buffer = From(bytes, 10) /\ start.message = With(s.message, "age", e)
    BY <1>4, <1>5, <2>1, <2>2, TakesField
  <2> QED BY <1>4, <2>3, FieldSet
<1>11. nameSize.buffer = From(bytes, 12) /\ nameSize.value = n
  <2>1. 10 + 2 <= Len(bytes)
    BY <1>3
  <2>2. nameSize.value = NumberBehind(bytes, 10) /\ nameSize.buffer = From(bytes, 10 + 2)
    BY <1>6, <1>10, <2>1, TakesNumber
  <2>3. NumberBehind(bytes, 10) = n
    <3>1. Holds(bytes, 10, n)
      BY <1>3, <1>1 DEF Layout
    <3> QED BY <3>1, HeldNumber
  <2> QED BY <2>2, <2>3
<1>12. CASE n = 0
  <2>1. name = <<>>
    BY <1>3, <1>12
  <2>2. PICK number : number = takeNumber(From(bytes, 12), 0)
    OBVIOUS
  <2>3. number.ok /\ number.buffer = From(bytes, 14) /\ number.value = g
    <3>1. 12 + 2 <= Len(bytes)
      BY <1>3
    <3>2. number.ok /\ number.buffer = From(bytes, 12 + 2) /\ number.value = NumberBehind(bytes, 12)
      BY <2>2, <3>1, TakesNumber
    <3>3. NumberBehind(bytes, 12) = g
      <4>1. Holds(bytes, 12, g)
        BY <1>1, <1>3, <1>12 DEF Layout
      <4> QED BY <4>1, HeldNumber
    <3> QED BY <3>2, <3>3
  <2>4. readableLength(From(bytes, 14)) = 0
    BY <1>3, <1>12 DEF readableLength, From
  <2>5. view = takeView(From(bytes, 12), 0, <<>>)
    BY <1>7, <1>11, <1>12
  <2>6. view.buffer = From(bytes, 14) /\ view.value = <<>>
    <3>1. CASE 0 < g
      BY <2>2, <2>3, <2>4, <2>5, <3>1 DEF takeView
    <3>2. CASE g = 0
      <4>1. From(bytes, 14).readIndex = 14
        BY DEF From
      <4>2. setReadIndex(From(bytes, 14), 14 + 0) = From(bytes, 14)
        <5>1. 14 <= Len(bytes) /\ 14 + 0 = 14
          BY <1>3
        <5> QED BY <5>1, SkippedTo
      <4>3. Bytes(From(bytes, 14), 14, 0) = <<>>
        <5>1. Bytes(From(bytes, 14), 14, 0) = SubSeq(bytes, 15, 14)
          BY DEF Bytes, From
        <5>2. SubSeq(bytes, 15, 14) \in Seq(Nat) /\ Len(SubSeq(bytes, 15, 14)) = 0
          <6>1. \A i \in 15..14 : bytes[i] \in Nat
            OBVIOUS
          <6>2. /\ SubSeq(bytes, 15, 14) \in Seq(Nat)
                /\ Len(SubSeq(bytes, 15, 14)) = IF 15 <= 14 THEN 14 - 15 + 1 ELSE 0
            BY <6>1, SubSeqProperties
          <6> QED BY <6>2
        <5> QED BY <5>1, <5>2, EmptySeq
      <4> QED BY <2>2, <2>3, <2>4, <2>5, <3>2, <4>1, <4>2, <4>3 DEF takeView
    <3> QED BY <3>1, <3>2
  <2>7. takeNumber(From(bytes, 14), Unset).value = Unset
    BY <2>4 DEF takeNumber
  <2>8. v.buffer = From(bytes, 14) /\ v.message = Fields(a, b, c, d, e, <<>>, Unset)
    BY <1>8, <1>10, <2>6, FieldSet
  <2>9. m = With(v.message, "eif", Unset)
    <3>1. v.message["eif"] = Unset
      BY <2>8 DEF Fields
    <3>2. PICK taken : taken = takeNumber(v.buffer, v.message["eif"])
      OBVIOUS
    <3>3. taken.value = Unset
      BY <2>7, <2>8, <3>1, <3>2
    <3> QED BY <1>9, <3>2, <3>3 DEF takeField, With
  <2>10. m = Fields(a, b, c, d, e, <<>>, Unset)
    BY <2>8, <2>9, FieldSet
  <2> QED BY <1>1, <2>1, <2>10 DEF m
<1>13. CASE n # 0
  <2>1. /\ ~(readableLength(From(bytes, 12)) < n) /\ From(bytes, 12).readIndex = 12
        /\ From(bytes, 12).data = bytes /\ From(bytes, 12).offset = 0
    BY <1>3 DEF readableLength, From
  <2>2. view = takeView(From(bytes, 12), n, [i \in 1..n |-> 0])
    BY <1>7, <1>11
  <2>3. /\ view.value = Bytes(From(bytes, 12), 12, n)
        /\ view.buffer = setReadIndex(From(bytes, 12), 12 + n)
    BY <1>13, <2>1, <2>2 DEF takeView
  <2>4. view.buffer = From(bytes, 12 + n)
    <3>1. 12 <= Len(bytes) /\ 12 + n <= Len(bytes) /\ 12 + n \in Nat
      BY <1>3
    <3> QED BY <2>3, <3>1, SkippedTo
  <2>5. view.value = name
    <3>1. PICK found : found = SubSeq(bytes, 13, 12 + n)
      OBVIOUS
    <3>2. view.value = found
      <4>1. 0 + 12 + 1 = 13 /\ 0 + 12 + n = 12 + n
        OBVIOUS
      <4> QED BY <2>1, <2>3, <3>1, <4>1 DEF Bytes
    <3>3. PICK to \in Nat : to = 12 + n /\ to <= Len(bytes)
      BY <1>3
    <3>4. /\ found \in Seq(Nat) /\ Len(found) = IF 13 <= to THEN to - 13 + 1 ELSE 0
          /\ \A i \in 1..(to - 13 + 1) : found[i] = bytes[13 + i - 1]
      <4>1. \A i \in 13..to : i \in 1..Len(bytes)
        BY <1>3, <3>3
      <4>2. \A i \in 13..to : bytes[i] \in Nat
        BY <4>1, ElementOfSeq
      <4>3. found = SubSeq(bytes, 13, to)
        BY <3>1, <3>3
      <4>4. /\ SubSeq(bytes, 13, to) \in Seq(Nat)
            /\ Len(SubSeq(bytes, 13, to)) = IF 13 <= to THEN to - 13 + 1 ELSE 0
            /\ \A i \in 1..(to - 13 + 1) : SubSeq(bytes, 13, to)[i] = bytes[13 + i - 1]
        BY <4>2, SubSeqProperties
      <4> QED BY <4>3, <4>4
    <3>5. Len(found) = n
      <4>1. 13 <= to /\ to - 13 + 1 = n
        BY <3>3, <1>13
      <4> QED BY <3>4, <4>1
    <3>6. \A i \in 1..n : found[i] = name[i]
      <4>1. \A i \in 1..n : i \in 1..(to - 13 + 1) /\ 13 + i - 1 = 12 + i
        BY <3>3
      <4> QED BY <1>1, <1>3, <3>4, <4>1 DEF Layout
    <3> QED BY <1>3, <3>2, <3>4, <3>5, <3>6, SeqEqual
  <2>6. v.buffer = From(bytes, 12 + n) /\ v.message = Fields(a, b, c, d, e, name, Unset)
    BY <1>8, <1>10, <2>4, <2>5, FieldSet
  <2>7. m = With(v.message, "eif", g)
    <3>1. PICK i \in Nat, j \in Nat : i = 12 + n /\ j = i + 2 /\ j <= Len(bytes)
      BY <1>3
    <3>2. NumberBehind(bytes, i) = g
      BY <1>1, <1>3, <3>1, HeldNumber DEF Layout
    <3>3. v.buffer = From(bytes, i)
      BY <2>6, <3>1
    <3>4. PICK t : t = takeField(v, "eif")
      OBVIOUS
    <3>5. t.message = With(v.message, "eif", NumberBehind(bytes, i))
      BY <3>1, <3>3, <3>4, TakesField
    <3> QED BY <1>9, <3>2, <3>4, <3>5
  <2>8. m = Fields(a, b, c, d, e, name, g)
    BY <2>6, <2>7, FieldSet
  <2> QED BY <1>3, <1>13, <1>1, <2>8 DEF m
<1> QED BY <1>12, <1>13

------------------------------------------------------------------------------
\* The message of a request that has a number.
MessageOf(r, number) ==
    Fields(LeftDelimiter, 10, messageId, number, Age[r], Name[r], RightDelimiter)

LEMMA RequestFields ==
    ASSUME NEW r \in Requests
    PROVE  /\ Age[r] \in Nat /\ Name[r] \in Seq(Nat) /\ Room[r] \in Nat \ {0, 1}
           /\ LeftDelimiter \in Nat /\ RightDelimiter \in Nat /\ messageId \in Nat
           /\ Len(Name[r]) \in UInt16 /\ toUInt16(Len(Name[r])) = Len(Name[r])
           /\ r \in Nat
<1>1. Age[r] \in UInt16 /\ Room[r] \in Nat \ {0, 1} /\ Len(Name[r]) \in UInt16 /\ r \in Nat
  BY RequestResponseAssumption
<1>2. Name[r] \in Seq(Nat)
  <2>1. Name[r] \in Seq(0..(Base - 1))
    BY RequestResponseAssumption
  <2>2. 0..(Base - 1) \subseteq Nat
    BY Width
  <2> QED BY <2>1, <2>2, SeqMonotonic
<1>3. LeftDelimiter \in Nat /\ RightDelimiter \in Nat /\ messageId \in Nat
  BY Width, RequestResponseAssumption
<1>4. toUInt16(Len(Name[r])) = Len(Name[r])
  <2>1. PICK w \in Nat \ {0} : w = Base * Base
    BY Width
  <2>2. \A n \in 0..(w - 1) : n % w = n
    OBVIOUS
  <2> QED BY <1>1, <2>1, <2>2 DEF toUInt16, UInt16
<1> QED BY <1>1, <1>2, <1>3, <1>4, Width

LEMMA FieldsAre ==
    ASSUME NEW a, NEW b, NEW c, NEW d, NEW e, NEW name, NEW g, NEW m,
           m = Fields(a, b, c, d, e, name, g)
    PROVE  /\ m.pif = a /\ m.length = b /\ m.mid = c /\ m.seq = d /\ m.age = e
           /\ m.name = name /\ m.eif = g
BY DEF Fields

LEMMA MessageIs ==
    ASSUME Typed, NEW r \in Requests
    PROVE  /\ message[r] = MessageOf(r, message[r].seq)
           /\ \A n : [message[r] EXCEPT !.seq = n] = MessageOf(r, n)
<1>1. PICK n : n = message[r].seq
  OBVIOUS
<1>2. message[r] = [Fresh EXCEPT !.pif = LeftDelimiter, !.eif = RightDelimiter,
                                 !.age = Age[r], !.name = Name[r], !.seq = n]
  BY <1>1 DEF Typed
<1>3. message[r] = MessageOf(r, n)
  BY <1>2 DEF Fresh, MessageOf, Fields
<1>4. \A x : [message[r] EXCEPT !.seq = x] = MessageOf(r, x)
  <2>1. ASSUME NEW x PROVE [message[r] EXCEPT !.seq = x] = MessageOf(r, x)
    <3>1. PICK m : m = message[r]
      OBVIOUS
    <3>2. [m EXCEPT !.seq = x] = MessageOf(r, x)
      BY <3>1, <1>3 DEF MessageOf, Fields
    <3> QED BY <3>1, <3>2
  <2> QED BY <2>1
<1> QED BY <1>1, <1>3, <1>4

LEMMA NumberRead ==
    ASSUME NEW bytes \in Seq(Nat), NEW i \in Nat, i + 2 <= Len(bytes), NEW j, j = i + 1
    PROVE  numberAt(bytes, j) = NumberBehind(bytes, i)
<1>0. PICK len \in Nat : len = Len(bytes)
  BY LenProperties
<1>1. \A k \in j..(j + 1) : bytes[k] \in Nat
  BY <1>0, ElementOfSeq
<1>2. \A k \in 1..((j + 1) - j + 1) : SubSeq(bytes, j, j + 1)[k] = bytes[j + k - 1]
  BY <1>1, SubSeqProperties
<1>3. /\ 1 \in 1..((j + 1) - j + 1) /\ 2 \in 1..((j + 1) - j + 1)
      /\ j + 1 - 1 = i + 1 /\ j + 2 - 1 = i + 2
  OBVIOUS
<1> QED BY <1>2, <1>3 DEF numberAt, fromEndian, NumberBehind

\* What is read from bytes tells the number, and the age if that was not left out.
ReadsAs(bytes, r, number) ==
    \E m : /\ decode(bytes) = {m} /\ m.mid = messageId /\ m.seq = number
           /\ Room[r] >= 10 => m.age = Age[r]

\* What a request puts on the wire: if that is a frame at all it tells the id and the
\* number, and if all of it fits, the message.
LEMMA WireOf ==
    ASSUME NEW r \in Requests, NEW number \in Nat, NEW w,
           w = Readable(serialize(newBuffer(Room[r]), MessageOf(r, number)))
    PROVE  /\ w \in Seq(Nat)
           /\ Framed(w) => ReadsAs(w, r, number)
           /\ 14 + Len(Name[r]) <= Room[r] /\ 14 + Len(Name[r]) \in UInt16 =>
                 /\ Framed(w)
                 /\ decode(w) = {Fields(LeftDelimiter, 14 + Len(Name[r]), messageId, number, Age[r],
                                        Name[r],
                                        IF Name[r] = <<>> THEN Unset ELSE RightDelimiter)}
<1> DEFINE m0 == MessageOf(r, number)
<1>0. PICK size : size = 14 + Len(Name[r])
  OBVIOUS
<1>1. /\ m0.pif = LeftDelimiter /\ m0.length = 10 /\ m0.mid = messageId /\ m0.seq = number
      /\ m0.age = Age[r] /\ m0.name = Name[r] /\ m0.eif = RightDelimiter
  BY FieldsAre DEF MessageOf
<1>2. Numeric(m0)
  BY <1>1, RequestFields DEF Numeric
<1> HIDE DEF m0
<1>3. Room[r] \in Nat \ {0, 1}
  BY RequestFields
<1>4. /\ w \in Seq(Nat)
      /\ Len(w) >= 8 => /\ Holds(w, 0, m0.pif) /\ Holds(w, 2, toUInt16(Len(w)))
                        /\ Holds(w, 4, m0.mid) /\ Holds(w, 6, m0.seq)
      /\ Room[r] >= 10 => Len(w) >= 10 /\ Holds(w, 8, m0.age)
      /\ 14 + Len(m0.name) <= Room[r] =>
            /\ Len(w) = 14 + Len(m0.name)
            /\ Holds(w, 8, m0.age) /\ Holds(w, 10, toUInt16(Len(m0.name)))
            /\ \A i \in 1..Len(m0.name) : w[12 + i] = m0.name[i]
            /\ Holds(w, 12 + Len(m0.name), m0.eif)
  <2>1. w = Readable(serialize(newBuffer(Room[r]), m0))
    BY DEF m0
  <2>2. PICK m : m = m0
    OBVIOUS
  <2>3. PICK room \in Nat \ {0, 1} : room = Room[r]
    BY <1>3
  <2>4. Numeric(m) /\ w = Readable(serialize(newBuffer(room), m))
    BY <1>2, <2>1, <2>2, <2>3
  <2> QED BY <2>2, <2>3, <2>4, Serialized
<1>5. ASSUME Len(w) >= 8
      PROVE  /\ idOf(Received(w)) = messageId
             /\ decode(w) = IF Framed(w) THEN {deserialize(Received(w))} ELSE {}
             /\ deserialize(Received(w)).mid = messageId
             /\ deserialize(Received(w)).seq = number
             /\ Room[r] >= 10 => deserialize(Received(w)).age = Age[r]
  <2>1. NumberBehind(w, 4) = messageId /\ NumberBehind(w, 6) = number
    BY <1>1, <1>4, <1>5, HeldNumber, RequestFields
  <2>2. PICK m : m = deserialize(Received(w))
    OBVIOUS
  <2>3. /\ m.mid = NumberBehind(w, 4) /\ m.seq = NumberBehind(w, 6)
        /\ idOf(Received(w)) = NumberBehind(w, 4)
        /\ Len(w) >= 10 => m.age = NumberBehind(w, 8)
    BY <1>4, <1>5, <2>2, ReadsNumbers
  <2>4. ASSUME Room[r] >= 10 PROVE m.age = Age[r]
    <3>1. Holds(w, 8, Age[r]) /\ Age[r] \in Nat
      BY <1>1, <1>4, <2>4, RequestFields
    <3>2. NumberBehind(w, 8) = Age[r]
      BY <3>1, HeldNumber
    <3>3. Len(w) >= 10
      BY <1>4, <2>4
    <3> QED BY <3>2, <3>3, <2>3
  <2> QED BY <2>1, <2>2, <2>3, <2>4, RegisteredAssumption DEF decode
<1>6. ASSUME Framed(w) PROVE ReadsAs(w, r, number)
  <2>1. Len(w) >= 8
    BY <1>6 DEF Framed
  <2> QED BY <2>1, <1>5, <1>6 DEF ReadsAs
<1>7. ASSUME size <= Room[r], size \in UInt16
      PROVE  /\ Framed(w)
             /\ decode(w) = {Fields(LeftDelimiter, size, messageId, number, Age[r], Name[r],
                                    IF Name[r] = <<>> THEN Unset ELSE RightDelimiter)}
  <2>1. PICK n \in Nat : n = Len(Name[r]) /\ toUInt16(n) = n
    BY RequestFields, LenProperties
  <2>2. /\ size \in Nat /\ size = 14 + n /\ Len(w) = size /\ Len(w) >= 8
        /\ 14 + Len(m0.name) <= Room[r]
    BY <1>0, <1>1, <1>4, <1>7, <2>1
  <2>3. toUInt16(size) = size
    <3>1. PICK b \in Nat \ {0} : b = Base * Base
      BY Width
    <3>2. \A x \in 0..(b - 1) : x % b = x
      OBVIOUS
    <3> QED BY <1>7, <3>1, <3>2 DEF toUInt16, UInt16
  <2>4. Holds(w, 0, LeftDelimiter) /\ Holds(w, 2, size) /\ Holds(w, 12 + n, RightDelimiter)
    BY <1>1, <1>4, <2>1, <2>2, <2>3
  <2>5. Framed(w)
    <3>1. /\ numberAt(w, 1) = NumberBehind(w, 0) /\ numberAt(w, 3) = NumberBehind(w, 2)
      <4>1. 0 + 2 <= Len(w) /\ 2 + 2 <= Len(w) /\ 1 = 0 + 1 /\ 3 = 2 + 1
        BY <2>2
      <4>2. numberAt(w, 1) = NumberBehind(w, 0)
        BY <1>4, <4>1, NumberRead
      <4>3. numberAt(w, 3) = NumberBehind(w, 2)
        BY <1>4, <4>1, NumberRead
      <4> QED BY <4>2, <4>3
    <3>2. PICK i \in Nat : i = 12 + n /\ i + 2 = Len(w) /\ i + 1 = Len(w) - 1
      BY <2>2
    <3>3. numberAt(w, Len(w) - 1) = NumberBehind(w, i)
      BY <1>4, <3>2, NumberRead
    <3>4. NumberBehind(w, 0) = LeftDelimiter /\ NumberBehind(w, 2) = size
      BY <2>2, <2>4, HeldNumber, RequestFields
    <3>5. NumberBehind(w, i) = RightDelimiter
      BY <2>1, <2>4, <3>2, HeldNumber, RequestFields
    <3> QED BY <2>2, <3>1, <3>3, <3>4, <3>5 DEF Framed
  <2>6. deserialize(Received(w)) =
           Fields(LeftDelimiter, size, messageId, number, Age[r], Name[r],
                  IF Name[r] = <<>> THEN Unset ELSE RightDelimiter)
    <3>1. PICK m : m = Fields(LeftDelimiter, size, messageId, number, Age[r], Name[r],
                              RightDelimiter)
      OBVIOUS
    <3>2. /\ m.pif = LeftDelimiter /\ m.length = size /\ m.mid = messageId /\ m.seq = number
          /\ m.age = Age[r] /\ m.name = Name[r] /\ m.eif = RightDelimiter
      BY <3>1, FieldsAre
    <3>3. Numeric(m) /\ Layout(w, m)
      BY <1>1, <1>4, <2>1, <2>2, <2>3, <3>2, RequestFields DEF Numeric, Layout
    <3>4. deserialize(Received(w)) =
             Fields(m.pif, m.length, m.mid, m.seq, m.age, m.name,
                    IF m.name = <<>> THEN Unset ELSE m.eif)
      BY <1>4, <3>3, ReadsWhole
    <3> QED BY <3>2, <3>4
  <2> QED BY <1>5, <2>2, <2>5, <2>6
<1> QED BY <1>0, <1>4, <1>6, <1>7

LEMMA Shaped ==
    ASSUME NEW r \in Requests, NEW n
    PROVE  [Fresh EXCEPT !.pif = LeftDelimiter, !.eif = RightDelimiter, !.age = Age[r],
                         !.name = Name[r], !.seq = n] = MessageOf(r, n)
<1>1. PICK m : m = [Fresh EXCEPT !.pif = LeftDelimiter, !.eif = RightDelimiter, !.age = Age[r],
                                 !.name = Name[r], !.seq = n]
  OBVIOUS
<1>2. m = MessageOf(r, n)
  BY <1>1 DEF Fresh, MessageOf, Fields
<1> QED BY <1>1, <1>2

LEMMA NumberOf ==
    ASSUME NEW r \in Requests, NEW n
    PROVE  MessageOf(r, n).seq = n /\ MessageOf(r, n).mid = messageId
BY FieldsAre DEF MessageOf

LEMMA HandleWriteStep == ASSUME IInv, handleWrite PROVE IInv'
<1> DEFINE D == Writes(Head(queue))
           H == {r \in D : Kind[r] \in Counters}
           n(r) == toUInt16(counterOf(r))
<1>0. TypeOK /\ Typed /\ PlacesInv /\ NumbersInv /\ RoutesInv /\ WireInv /\ AnswersInv
  BY DEF IInv
<1>1. queue # <<>> /\ Due = D
  <2>1. Due # {}
    BY DEF handleWrite
  <2> QED BY <2>1, <1>0, DueIs
<1>2. /\ queue' = Tail(queue)
      /\ seq' = [k \in Counters |-> seq[k] + Cardinality({r \in H : Kind[r] = k})]
      /\ message' = [r \in Requests |-> IF r \in H THEN [message[r] EXCEPT !.seq = n(r)]
                                                   ELSE message[r]]
      /\ wire' = [r \in Requests |->
                    IF r \in H
                    THEN Readable(serialize(newBuffer(Room[r]), [message[r] EXCEPT !.seq = n(r)]))
                    ELSE wire[r]]
      /\ sending' = sending \cup H
      /\ UNCHANGED <<left, routes, written, outcome, refused, heard, answered, reads>>
  BY <1>1 DEF handleWrite, numbered
<1>3. /\ Head(queue) = queue[1] /\ Head(queue) \in Tasks /\ 1 \in 1..Len(queue)
      /\ queue' \in Seq(Tasks)
      /\ \A i \in 1..Len(queue') : i + 1 \in 1..Len(queue) /\ i + 1 # 1 /\ queue'[i] = queue[i + 1]
      /\ \A r \in Requests :
            /\ ToWrite(r)' <=> ToWrite(r) /\ r \notin D
            /\ ToTell(r)' <=> ToTell(r) /\ ~Tells(Head(queue), r)
  BY <1>0, <1>1, <1>2, TaskTaken
<1>4. Head(queue).do \in {"active", "write"} /\ D \subseteq Requests /\ D \subseteq written
  <2>1. Head(queue).do \in {"active", "write"}
    BY <1>1, Zenon DEF handleWrite, Writes
  <2>2. Eager \subseteq Requests /\ written \subseteq Requests
    BY <1>0, RequestResponseAssumption DEF TypeOK
  <2> QED BY <2>1, <2>2, <1>0, <1>3 DEF PlacesInv, Writes
<1>5. \A r \in Requests : ~Tells(Head(queue), r)
  BY <1>4 DEF Tells
<1>6. \A r \in D : ToWrite(r) /\ r \notin sending /\ ~ToTell(r) /\ outcome[r] = "none"
  <2>1. \A r \in D : ToWrite(r)
    BY <1>3 DEF ToWrite
  <2> QED BY <2>1, <1>0, <1>4 DEF PlacesInv
<1>7. H \subseteq D /\ H \subseteq Handled /\ \A r \in D : r \in Handled => r \in H
  BY <1>4 DEF Handled
<1> HIDE DEF D
<1>8. \A r \in Requests : Passed(r)' <=> Passed(r) \/ r \in D
  BY <1>2, <1>3, <1>4, <1>6 DEF Passed
<1>9. \A r \in H : n(r) = toUInt16(FirstSeq + Place(r)) /\ n(r) \in UInt16
  <2>1. ASSUME NEW r \in H PROVE counterOf(r) = FirstSeq + Place(r) /\ FirstSeq + Place(r) \in Nat
    <3>1. r \in Requests /\ r \in Writes(Head(queue)) /\ Kind[r] \in Counters
      BY <1>4, <1>7 DEF D
    <3>2. {q \in Requests : q < r /\ Kind[q] = Kind[r]} \in SUBSET Requests
      OBVIOUS
    <3>3. Place(r) \in Nat /\ FirstSeq \in Nat
      BY <3>2, RequestsFinite, RequestResponseAssumption DEF Place
    <3> QED BY <1>1, <3>1, <3>3, CountersGoOn
  <2> QED BY <2>1, Width
<1> HIDE DEF H, n
<1>10. \A r \in Requests :
          message'[r] = IF r \in H THEN MessageOf(r, n(r)) ELSE message[r]
  <2>1. \A r \in Requests : [message[r] EXCEPT !.seq = n(r)] = MessageOf(r, n(r))
    BY <1>0, MessageIs
  <2> QED BY <1>2, <2>1
<1>11. \A r \in Requests :
          wire'[r] = IF r \in H THEN Readable(serialize(newBuffer(Room[r]), message'[r]))
                                ELSE wire[r]
  <2>1. \A r \in Requests : r \in H => message'[r] = [message[r] EXCEPT !.seq = n(r)]
    BY <1>2
  <2> QED BY <1>2, <2>1
<1>12. TypeOK'
  <2>1. seq' \in [Counters -> Nat]
    <3>1. ASSUME NEW k \in Counters PROVE seq'[k] \in Nat
      <4>1. {r \in H : Kind[r] = k} \in SUBSET Requests
        BY <1>4, <1>7
      <4>2. Cardinality({r \in H : Kind[r] = k}) \in Nat
        BY <4>1, RequestsFinite
      <4>3. PICK c \in Nat, s \in Nat : c = Cardinality({r \in H : Kind[r] = k}) /\ s = seq[k]
        BY <1>0, <4>2 DEF TypeOK
      <4>4. seq'[k] = s + c
        BY <1>2, <4>3
      <4> QED BY <4>4
    <3> QED BY <1>2, <3>1
  <2>2. \A r \in Requests : message'[r].seq \in UInt16 \cup {Unset}
    <3>1. \A r \in H : MessageOf(r, n(r)).seq \in UInt16
      BY <1>4, <1>7, <1>9, NumberOf
    <3> QED BY <1>0, <1>10, <3>1 DEF TypeOK
  <2>3. \A i \in DOMAIN queue' : queue'[i].do \in {"active", "write", "written", "failed", "read"}
    BY <1>3, TasksDo
  <2>4. sending' \subseteq Requests
    BY <1>0, <1>2, <1>4, <1>7 DEF TypeOK
  <2> QED BY <2>1, <2>2, <2>3, <2>4, <1>0, <1>2 DEF TypeOK
<1>13. Typed'
  <2>1. ASSUME NEW r \in Requests PROVE wire'[r] \in Seq(Nat)
    <3>1. CASE r \in H
      <4>1. wire'[r] = Readable(serialize(newBuffer(Room[r]), MessageOf(r, n(r))))
        BY <1>10, <1>11, <3>1
      <4>2. n(r) \in Nat
        BY <1>9, <3>1, Width
      <4> QED BY <4>1, <4>2, WireOf
    <3>2. CASE r \notin H
      BY <1>0, <1>11, <3>2 DEF Typed
    <3> QED BY <3>1, <3>2
  <2>2. ASSUME NEW r \in Requests
        PROVE  message'[r] = [Fresh EXCEPT !.pif = LeftDelimiter, !.eif = RightDelimiter,
                                           !.age = Age[r], !.name = Name[r],
                                           !.seq = message'[r].seq]
    <3>1. message'[r] = MessageOf(r, message'[r].seq)
      BY <1>0, <1>10, MessageIs, NumberOf
    <3>2. PICK x : x = message'[r].seq
      OBVIOUS
    <3> QED BY <3>1, <3>2, Shaped
  <2>3. wire' \in [Requests -> Seq(Nat)] /\ DOMAIN message' = Requests
    BY <1>2, <2>1
  <2> QED BY <2>2, <2>3, <1>0, <1>2, <1>3 DEF Typed
<1>14. PlacesInv'
  <2>1. ASSUME NEW i \in 1..Len(queue')
        PROVE  /\ queue'[i].do = "active" => i = 1
               /\ queue'[i].do = "write" => queue'[i].r \in written' \ Eager
               /\ queue'[i].do \in {"written", "failed"} => queue'[i].r \in Handled' \cap written'
    BY <1>0, <1>2, <1>3 DEF PlacesInv, Handled
  <2>2. ASSUME NEW r \in Requests, NEW i \in 1..Len(queue'), NEW j \in 1..Len(queue')
        PROVE  /\ r \in Writes(queue'[i]) /\ r \in Writes(queue'[j]) => i = j
               /\ Tells(queue'[i], r) /\ Tells(queue'[j], r) => i = j
    <3>1. /\ i + 1 \in 1..Len(queue) /\ queue'[i] = queue[i + 1]
          /\ j + 1 \in 1..Len(queue) /\ queue'[j] = queue[j + 1]
      BY <1>3
    <3>2. i + 1 = j + 1 => i = j
      OBVIOUS
    <3> QED BY <1>0, <3>1, <3>2 DEF PlacesInv
  <2>3. ASSUME NEW r \in Requests
        PROVE  /\ ToWrite(r)' => r \notin sending' /\ ~ToTell(r)' /\ outcome'[r] = "none"
               /\ ToTell(r)' => r \notin sending' /\ outcome'[r] = "none"
               /\ r \in sending' => r \in Handled' \cap written' /\ outcome'[r] = "none"
               /\ outcome'[r] # "none" => r \in Handled' \cap written'
    <3>1. Handled' = Handled
      BY DEF Handled
    <3> QED BY <3>1, <1>0, <1>2, <1>3, <1>4, <1>6, <1>7 DEF PlacesInv
  <2> QED BY <2>1, <2>2, <2>3, <1>0, <1>2 DEF PlacesInv
<1>15. NumbersInv'
  <2>1. ASSUME NEW k \in Counters
        PROVE  seq'[k] = FirstSeq + Cardinality({r \in Requests : Kind[r] = k /\ Passed(r)'})
    <3> DEFINE P == {r \in Requests : Kind[r] = k /\ Passed(r)}
               E == {r \in H : Kind[r] = k}
    <3>1. {r \in Requests : Kind[r] = k /\ Passed(r)'} = P \cup E
      BY <1>4, <1>7, <1>8 DEF Handled
    <3>2. P \cap E = {}
      BY <1>6, <1>7 DEF Passed
    <3>3. /\ IsFiniteSet(P) /\ IsFiniteSet(E)
          /\ Cardinality(P) \in Nat /\ Cardinality(E) \in Nat
      <4>1. P \in SUBSET Requests /\ E \in SUBSET Requests
        BY <1>4, <1>7
      <4> HIDE DEF P, E
      <4> QED BY <4>1, RequestsFinite
    <3>4. seq[k] = FirstSeq + Cardinality(P) /\ seq'[k] = seq[k] + Cardinality(E)
      BY <1>0, <1>2 DEF NumbersInv
    <3>5. Cardinality(P \cap E) = 0
      BY <3>2, FS_EmptySet
    <3> HIDE DEF P, E
    <3>6. Cardinality(P \cup E) = Cardinality(P) + Cardinality(E) - Cardinality(P \cap E)
      BY <3>3, FS_Union
    <3>7. FirstSeq \in Nat
      BY RequestResponseAssumption
    <3>8. Cardinality(P \cup E) = Cardinality(P) + Cardinality(E)
      BY <3>3, <3>5, <3>6
    <3>9. seq'[k] = FirstSeq + Cardinality(P \cup E)
      BY <3>3, <3>4, <3>7, <3>8
    <3> QED BY <3>1, <3>9
  <2>2. ASSUME NEW r \in Handled, Passed(r)'
        PROVE  message'[r].seq = toUInt16(FirstSeq + Place(r))
    <3>1. r \in Requests
      BY DEF Handled
    <3>2. CASE r \in D
      <4>1. r \in H
        BY <1>7, <3>2
      <4> QED BY <4>1, <1>9, <1>10, <3>1, NumberOf
    <3>3. CASE r \notin D
      BY <2>2, <3>1, <3>3, <1>0, <1>7, <1>8, <1>10 DEF NumbersInv
    <3> QED BY <3>2, <3>3
  <2>3. ASSUME NEW q \in Requests, NEW r \in Requests, q < r, Kind[q] = Kind[r], r \in written'
        PROVE  /\ q \in written'
               /\ ToWrite(q)' => ToWrite(r)'
               /\ \A i, j \in 1..Len(queue') :
                     q \in Writes(queue'[i]) /\ r \in Writes(queue'[j]) => i <= j
    <3>1. r \in written
      BY <2>3, <1>2
    <3>2. /\ q \in written /\ (ToWrite(q) => ToWrite(r))
          /\ \A i, j \in 1..Len(queue) : q \in Writes(queue[i]) /\ r \in Writes(queue[j]) => i <= j
      BY <2>3, <3>1, <1>0 DEF NumbersInv
    <3>3. ASSUME ToWrite(q), r \in D PROVE q \in D
      <4>1. PICK i \in 1..Len(queue) : q \in Writes(queue[i])
        BY <3>3 DEF ToWrite
      <4>2. i <= 1
        BY <4>1, <3>2, <3>3, <1>3 DEF D
      <4>3. i = 1
        BY <4>2
      <4> QED BY <4>1, <4>3, <1>3 DEF D
    <3>4. ToWrite(q)' => ToWrite(r)'
      BY <3>2, <3>3, <1>3
    <3>5. ASSUME NEW i \in 1..Len(queue'), NEW j \in 1..Len(queue'),
                 q \in Writes(queue'[i]), r \in Writes(queue'[j])
          PROVE  i <= j
      <4>1. i + 1 <= j + 1
        BY <3>2, <3>5, <1>3
      <4> QED BY <4>1
    <3> QED BY <3>2, <3>4, <3>5, <1>2
  <2> QED BY <2>1, <2>2, <2>3 DEF NumbersInv, Handled
<1>16. RoutesInv'
  <2>1. \A r \in Requests : outcome[r] = "written" => message'[r] = message[r]
    BY <1>6, <1>7, <1>10
  <2> QED BY <2>1, <1>0, <1>2, SameRoutes
<1>17. WireInv'
  <2>1. ASSUME NEW r \in Requests, wire'[r] # <<>>
        PROVE  /\ Passed(r)' /\ r \in Handled
               /\ wire'[r] = Readable(serialize(newBuffer(Room[r]), message'[r]))
    <3>1. CASE r \in H
      BY <3>1, <1>7, <1>8, <1>11
    <3>2. CASE r \notin H
      <4>1. wire'[r] = wire[r] /\ message'[r] = message[r]
        BY <3>2, <1>10, <1>11
      <4> QED BY <4>1, <2>1, <1>0, <1>8 DEF WireInv
    <3> QED BY <3>1, <3>2
  <2> QED BY <2>1 DEF WireInv, Handled
<1>18. AnswersInv'
  BY <1>0, <1>2, SameAnswers
<1> QED BY <1>12, <1>13, <1>14, <1>15, <1>16, <1>17, <1>18 DEF IInv

\* A task that writes nothing joins the queue, or leaves it.
LEMMA QuietTask ==
    ASSUME IInv, NEW task \in Tasks, Writes(task) = {}, queue' = Append(queue, task),
           UNCHANGED <<seq, message, written>>
    PROVE  NumbersInv' /\ \A r \in Requests : Passed(r)' <=> Passed(r)
<1>0. Typed /\ NumbersInv
  BY DEF IInv
<1>1. /\ queue'[Len(queue) + 1] = task
      /\ \A i \in 1..Len(queue) : queue'[i] = queue[i]
      /\ \A i \in 1..Len(queue') : i \in 1..Len(queue) \/ i = Len(queue) + 1
      /\ \A r : ToWrite(r)' <=> ToWrite(r)
  BY <1>0, Queued
<1>2. \A q, r \in Requests :
         (\A i, j \in 1..Len(queue) : q \in Writes(queue[i]) /\ r \in Writes(queue[j]) => i <= j) =>
         (\A i, j \in 1..Len(queue') :
             q \in Writes(queue'[i]) /\ r \in Writes(queue'[j]) => i <= j)
  BY <1>1
<1>3. NumbersInv'
  BY <1>0, <1>1, <1>2, SameNumbers
<1> QED BY <1>1, <1>3 DEF Passed

LEMMA QuietTaken ==
    ASSUME IInv, queue # <<>>, Writes(Head(queue)) = {}, queue' = Tail(queue),
           UNCHANGED <<seq, message, written>>
    PROVE  NumbersInv' /\ \A r \in Requests : Passed(r)' <=> Passed(r)
<1>0. Typed /\ PlacesInv /\ NumbersInv
  BY DEF IInv
<1>1. /\ \A i \in 1..Len(queue') : i + 1 \in 1..Len(queue) /\ queue'[i] = queue[i + 1]
      /\ \A r \in Requests : ToWrite(r)' <=> ToWrite(r)
  BY <1>0, TaskTaken
<1>2. ASSUME NEW q \in Requests, NEW r \in Requests,
             \A i, j \in 1..Len(queue) : q \in Writes(queue[i]) /\ r \in Writes(queue[j]) => i <= j,
             NEW i \in 1..Len(queue'), NEW j \in 1..Len(queue'),
             q \in Writes(queue'[i]), r \in Writes(queue'[j])
      PROVE  i <= j
  <2>1. i + 1 <= j + 1
    BY <1>1, <1>2
  <2> QED BY <2>1
<1>3. NumbersInv'
  BY <1>0, <1>1, <1>2, SameNumbers
<1> QED BY <1>1, <1>3 DEF Passed

LEMMA LeaveStep == ASSUME IInv, NEW r \in Requests, leave(r) PROVE IInv'
<1>0. /\ TypeOK /\ Typed /\ PlacesInv /\ NumbersInv /\ RoutesInv /\ WireInv /\ AnswersInv
      /\ left' = left \cup {r}
      /\ UNCHANGED <<seq, message, queue, sending, wire, routes, written, outcome, refused,
                     heard, answered, reads>>
  BY DEF IInv, leave
<1>1. \A q : (ToWrite(q)' <=> ToWrite(q)) /\ (ToTell(q)' <=> ToTell(q)) /\ (Passed(q)' <=> Passed(q))
  BY <1>0 DEF ToWrite, ToTell, Passed
<1>2. TypeOK' /\ Typed'
  BY <1>0 DEF TypeOK, Typed
<1>3. PlacesInv'
  BY <1>0, <1>1 DEF PlacesInv, Handled
<1>4. NumbersInv'
  BY <1>0, <1>1, SameNumbers
<1>5. RoutesInv' /\ WireInv' /\ AnswersInv'
  BY <1>0, <1>1, SameRoutes, SameWires, SameAnswers
<1> QED BY <1>2, <1>3, <1>4, <1>5 DEF IInv

LEMMA SendEndsStep == ASSUME IInv, NEW r \in Requests, sendEnds(r) PROVE IInv'
<1>0. /\ TypeOK /\ Typed /\ PlacesInv /\ NumbersInv /\ RoutesInv /\ WireInv /\ AnswersInv
      /\ r \in sending /\ sending' = sending \ {r}
      /\ UNCHANGED <<seq, message, wire, left, routes, written, outcome, refused, heard,
                     answered, reads>>
  BY DEF IInv, sendEnds
<1>1. PICK task : queue' = Append(queue, task) /\ task \in Tasks /\ task.r = r
                  /\ task.do \in {"written", "failed"}
  <2>1. /\ queue' = Append(queue, Task(IF r \in left THEN "written" ELSE "failed", r, <<>>))
        /\ Task(IF r \in left THEN "written" ELSE "failed", r, <<>>) \in Tasks
    BY DEF sendEnds, Task, Tasks
  <2> QED BY <2>1 DEF Task
<1>2. Writes(task) = {} /\ \A q : Tells(task, q) <=> q = r
  BY <1>1 DEF Writes, Tells
<1>3. /\ queue' \in Seq(Tasks) /\ Len(queue) \in Nat /\ queue'[Len(queue) + 1] = task
      /\ \A i \in 1..Len(queue) : queue'[i] = queue[i]
      /\ \A i \in 1..Len(queue') : i \in 1..Len(queue) \/ i = Len(queue) + 1
      /\ \A q : ToWrite(q)' <=> ToWrite(q)
      /\ \A q : ToTell(q)' <=> ToTell(q) \/ q = r
  BY <1>0, <1>1, <1>2, Queued
<1>4. r \in Handled \cap written /\ ~ToTell(r) /\ ~ToWrite(r) /\ outcome[r] = "none"
  BY <1>0 DEF PlacesInv
<1>5. TypeOK' /\ Typed'
  <2>1. \A i \in DOMAIN queue' : queue'[i].do \in {"active", "write", "written", "failed", "read"}
    BY <1>3, TasksDo
  <2> QED BY <2>1, <1>0, <1>3 DEF TypeOK, Typed
<1>6. PlacesInv'
  <2>1. ASSUME NEW i \in 1..Len(queue')
        PROVE  /\ queue'[i].do = "active" => i = 1
               /\ queue'[i].do = "write" => queue'[i].r \in written' \ Eager
               /\ queue'[i].do \in {"written", "failed"} => queue'[i].r \in Handled' \cap written'
    BY <1>0, <1>1, <1>3, <1>4 DEF PlacesInv, Handled
  <2>2. ASSUME NEW q \in Requests, NEW i \in 1..Len(queue'), NEW j \in 1..Len(queue')
        PROVE  /\ q \in Writes(queue'[i]) /\ q \in Writes(queue'[j]) => i = j
               /\ Tells(queue'[i], q) /\ Tells(queue'[j], q) => i = j
    <3>1. q \in Writes(queue'[i]) /\ q \in Writes(queue'[j]) => i = j
      BY <1>0, <1>2, <1>3 DEF PlacesInv
    <3>2. Tells(queue'[i], q) /\ Tells(queue'[j], q) => i = j
      BY <1>0, <1>2, <1>3, <1>4 DEF PlacesInv, ToTell
    <3> QED BY <3>1, <3>2
  <2>3. ASSUME NEW q \in Requests
        PROVE  /\ ToWrite(q)' => q \notin sending' /\ ~ToTell(q)' /\ outcome'[q] = "none"
               /\ ToTell(q)' => q \notin sending' /\ outcome'[q] = "none"
               /\ q \in sending' => q \in Handled' \cap written' /\ outcome'[q] = "none"
               /\ outcome'[q] # "none" => q \in Handled' \cap written'
    BY <1>0, <1>3, <1>4 DEF PlacesInv, Handled
  <2> QED BY <1>0, <2>1, <2>2, <2>3 DEF PlacesInv
<1>7. NumbersInv' /\ \A q \in Requests : Passed(q)' <=> Passed(q)
  BY <1>0, <1>1, <1>2, QuietTask
<1>8. RoutesInv' /\ WireInv' /\ AnswersInv'
  BY <1>0, <1>7, SameRoutes, SameWires, SameAnswers
<1> QED BY <1>5, <1>6, <1>7, <1>8 DEF IInv

LEMMA ReceiveStep == ASSUME IInv, NEW bytes \in Answers \cup Strays, receive(bytes) PROVE IInv'
<1> DEFINE task == Task("read", 0, bytes)
<1>0. /\ TypeOK /\ Typed /\ PlacesInv /\ NumbersInv /\ RoutesInv /\ WireInv /\ AnswersInv
      /\ reads < MaxReads /\ reads' = reads + 1 /\ queue' = Append(queue, task)
      /\ UNCHANGED <<seq, message, sending, wire, left, routes, written, outcome, refused,
                     heard, answered>>
  BY DEF IInv, receive
<1>1. bytes \in Seq(Nat)
  <2>1. CASE bytes \in Answers
    <3>1. PICK r \in left : bytes = wire[r]
      BY <2>1 DEF Answers
    <3>2. r \in Requests /\ wire \in [Requests -> Seq(Nat)]
      BY <1>0 DEF TypeOK, Typed
    <3> QED BY <3>1, <3>2
  <2>2. CASE bytes \in Strays
    <3>1. bytes \in Seq(0..(Base - 1)) /\ 0..(Base - 1) \subseteq Nat
      BY <2>2, Width, RequestResponseAssumption
    <3> QED BY <3>1, SeqMonotonic
  <2> QED BY <2>1, <2>2
<1>2. task \in Tasks /\ task.do = "read" /\ Writes(task) = {} /\ \A q : ~Tells(task, q)
  BY <1>1 DEF Task, Tasks, Writes, Tells
<1> HIDE DEF task
<1>3. /\ queue' \in Seq(Tasks) /\ Len(queue) \in Nat /\ queue'[Len(queue) + 1] = task
      /\ \A i \in 1..Len(queue) : queue'[i] = queue[i]
      /\ \A i \in 1..Len(queue') : i \in 1..Len(queue) \/ i = Len(queue) + 1
      /\ \A q : ToWrite(q)' <=> ToWrite(q)
      /\ \A q : ToTell(q)' <=> ToTell(q)
  BY <1>0, <1>2, Queued
<1>4. TypeOK' /\ Typed'
  <2>1. \A i \in DOMAIN queue' : queue'[i].do \in {"active", "write", "written", "failed", "read"}
    BY <1>3, TasksDo
  <2>2. reads' \in 0..MaxReads
    BY <1>0, RequestResponseAssumption DEF TypeOK
  <2> QED BY <2>1, <2>2, <1>0, <1>3 DEF TypeOK, Typed
<1>5. PlacesInv'
  <2>1. ASSUME NEW i \in 1..Len(queue')
        PROVE  /\ queue'[i].do = "active" => i = 1
               /\ queue'[i].do = "write" => queue'[i].r \in written' \ Eager
               /\ queue'[i].do \in {"written", "failed"} => queue'[i].r \in Handled' \cap written'
    BY <1>0, <1>2, <1>3 DEF PlacesInv, Handled
  <2>2. ASSUME NEW q \in Requests, NEW i \in 1..Len(queue'), NEW j \in 1..Len(queue')
        PROVE  /\ q \in Writes(queue'[i]) /\ q \in Writes(queue'[j]) => i = j
               /\ Tells(queue'[i], q) /\ Tells(queue'[j], q) => i = j
    BY <1>0, <1>2, <1>3 DEF PlacesInv
  <2>3. ASSUME NEW q \in Requests
        PROVE  /\ ToWrite(q)' => q \notin sending' /\ ~ToTell(q)' /\ outcome'[q] = "none"
               /\ ToTell(q)' => q \notin sending' /\ outcome'[q] = "none"
               /\ q \in sending' => q \in Handled' \cap written' /\ outcome'[q] = "none"
               /\ outcome'[q] # "none" => q \in Handled' \cap written'
    BY <1>0, <1>3 DEF PlacesInv, Handled
  <2> QED BY <1>0, <2>1, <2>2, <2>3 DEF PlacesInv
<1>6. NumbersInv' /\ \A q \in Requests : Passed(q)' <=> Passed(q)
  BY <1>0, <1>2, QuietTask
<1>7. RoutesInv' /\ WireInv' /\ AnswersInv'
  BY <1>0, <1>6, SameRoutes, SameWires, SameAnswers
<1> QED BY <1>4, <1>5, <1>6, <1>7 DEF IInv

\* A request is told of its write.
LEMMA ToldPlaces ==
    ASSUME IInv, queue # <<>>, queue' = Tail(queue), NEW r, r = Head(queue).r,
           Head(queue).do \in {"written", "failed"}, NEW how \in {"written", "failed"},
           outcome' = [outcome EXCEPT ![r] = how],
           UNCHANGED <<seq, message, sending, written>>
    PROVE  /\ queue' \in Seq(Tasks) /\ PlacesInv' /\ NumbersInv'
           /\ \A q \in Requests : Passed(q)' <=> Passed(q)
           /\ r \in Handled \cap written /\ outcome[r] = "none" /\ Passed(r)
           /\ outcome' \in [Requests -> {"none", "written", "failed"}]
           /\ \A q \in Requests : outcome'[q] = IF q = r THEN how ELSE outcome[q]
<1>0. TypeOK /\ Typed /\ PlacesInv
  BY DEF IInv
<1>1. Writes(Head(queue)) = {} /\ \A q : Tells(Head(queue), q) <=> q = r
  BY DEF Writes, Tells
<1>2. /\ Head(queue) = queue[1] /\ 1 \in 1..Len(queue) /\ queue' \in Seq(Tasks)
      /\ \A i \in 1..Len(queue') : i + 1 \in 1..Len(queue) /\ i + 1 # 1 /\ queue'[i] = queue[i + 1]
      /\ \A q \in Requests : ToWrite(q)' <=> ToWrite(q)
      /\ \A q \in Requests : ToTell(q)' <=> ToTell(q) /\ q # r
  BY <1>0, <1>1, TaskTaken
<1>3. r \in Handled \cap written /\ ToTell(r) /\ r \in Requests
  BY <1>0, <1>1, <1>2 DEF PlacesInv, ToTell, Handled
<1>4. outcome[r] = "none" /\ r \notin sending /\ ~ToWrite(r) /\ Passed(r)
  BY <1>0, <1>3 DEF PlacesInv, Passed
<1>5. /\ outcome' \in [Requests -> {"none", "written", "failed"}]
      /\ \A q \in Requests : outcome'[q] = IF q = r THEN how ELSE outcome[q]
  BY <1>0, <1>3 DEF TypeOK
<1>6. PlacesInv'
  <2>1. ASSUME NEW i \in 1..Len(queue')
        PROVE  /\ queue'[i].do = "active" => i = 1
               /\ queue'[i].do = "write" => queue'[i].r \in written' \ Eager
               /\ queue'[i].do \in {"written", "failed"} => queue'[i].r \in Handled' \cap written'
    BY <1>0, <1>2 DEF PlacesInv, Handled
  <2>2. ASSUME NEW q \in Requests, NEW i \in 1..Len(queue'), NEW j \in 1..Len(queue')
        PROVE  /\ q \in Writes(queue'[i]) /\ q \in Writes(queue'[j]) => i = j
               /\ Tells(queue'[i], q) /\ Tells(queue'[j], q) => i = j
    <3>1. /\ i + 1 \in 1..Len(queue) /\ queue'[i] = queue[i + 1]
          /\ j + 1 \in 1..Len(queue) /\ queue'[j] = queue[j + 1]
      BY <1>2
    <3>2. i + 1 = j + 1 => i = j
      OBVIOUS
    <3> QED BY <1>0, <3>1, <3>2 DEF PlacesInv
  <2>3. ASSUME NEW q \in Requests
        PROVE  /\ ToWrite(q)' => q \notin sending' /\ ~ToTell(q)' /\ outcome'[q] = "none"
               /\ ToTell(q)' => q \notin sending' /\ outcome'[q] = "none"
               /\ q \in sending' => q \in Handled' \cap written' /\ outcome'[q] = "none"
               /\ outcome'[q] # "none" => q \in Handled' \cap written'
    BY <1>0, <1>2, <1>3, <1>4, <1>5 DEF PlacesInv, Handled
  <2> QED BY <1>0, <2>1, <2>2, <2>3 DEF PlacesInv
<1>7. NumbersInv' /\ \A q \in Requests : Passed(q)' <=> Passed(q)
  BY <1>1, QuietTaken
<1> QED BY <1>2, <1>3, <1>4, <1>5, <1>6, <1>7

LEMMA WriteErrorStep == ASSUME IInv, writeError PROVE IInv'
<1>1. PICK r : r = Head(queue).r
  OBVIOUS
<1>0. /\ TypeOK /\ Typed /\ PlacesInv /\ NumbersInv /\ RoutesInv /\ WireInv /\ AnswersInv
      /\ queue # <<>> /\ Head(queue).do = "failed" /\ queue' = Tail(queue)
      /\ outcome' = [outcome EXCEPT ![r] = "failed"]
      /\ UNCHANGED <<seq, message, sending, wire, left, routes, written, refused, heard, answered,
                     reads>>
  BY <1>1 DEF IInv, writeError
<1>2. /\ queue' \in Seq(Tasks) /\ PlacesInv' /\ NumbersInv'
      /\ \A q \in Requests : Passed(q)' <=> Passed(q)
      /\ r \in Handled /\ outcome[r] = "none"
      /\ outcome' \in [Requests -> {"none", "written", "failed"}]
      /\ \A q \in Requests : outcome'[q] = IF q = r THEN "failed" ELSE outcome[q]
  BY <1>0, <1>1, ToldPlaces
<1>3. TypeOK' /\ Typed'
  <2>1. \A i \in DOMAIN queue' : queue'[i].do \in {"active", "write", "written", "failed", "read"}
    BY <1>2, TasksDo
  <2> QED BY <2>1, <1>0, <1>2 DEF TypeOK, Typed
<1>4. RoutesInv'
  <2>1. \A q : Waits(q)' <=> Waits(q)
    BY <1>0 DEF Waits
  <2>2. \A route \in routes : Route(route.request)' = Route(route.request)
    BY <1>0 DEF Route
  <2>3. \A q \in Requests : outcome[q] = "written" <=> outcome'[q] = "written"
    BY <1>2
  <2> QED BY <1>0, <2>1, <2>2, <2>3 DEF RoutesInv
<1>5. WireInv'
  BY <1>0, <1>2, SameWires
<1>6. AnswersInv'
  <2>1. answered \subseteq Requests
    BY <1>0 DEF TypeOK
  <2> QED BY <2>1, <1>0, <1>2 DEF AnswersInv, Waits
<1> QED BY <1>2, <1>3, <1>4, <1>5, <1>6 DEF IInv

\* Two messages of one number are those of requests that share it.
LEMMA OfOneNumber ==
    ASSUME NumbersInv, NEW q \in Handled, NEW r \in Handled, q # r, Passed(q), Passed(r),
           message[q].seq = message[r].seq
    PROVE  SharesNumber(q, r)
<1>1. toUInt16(FirstSeq + Place(q)) = toUInt16(FirstSeq + Place(r))
  BY DEF NumbersInv
<1>2. FirstSeq \in Nat /\ Place(q) \in Nat /\ Place(r) \in Nat
  <2>1. /\ {p \in Requests : p < q /\ Kind[p] = Kind[q]} \in SUBSET Requests
        /\ {p \in Requests : p < r /\ Kind[p] = Kind[r]} \in SUBSET Requests
    OBVIOUS
  <2> QED BY <2>1, RequestsFinite, RequestResponseAssumption DEF Place
<1>3. toUInt16(Place(q)) = toUInt16(Place(r))
  BY <1>1, <1>2, SameRemainder
<1> QED BY <1>3 DEF SharesNumber, Handled

LEMMA WriteCompleteStep == ASSUME IInv, writeComplete PROVE IInv'
<1>1. PICK r : r = Head(queue).r
  OBVIOUS
<1>0. /\ TypeOK /\ Typed /\ PlacesInv /\ NumbersInv /\ RoutesInv /\ WireInv /\ AnswersInv
      /\ queue # <<>> /\ Head(queue).do = "written" /\ queue' = Tail(queue)
      /\ outcome' = [outcome EXCEPT ![r] = "written"] /\ addRoute(r)
      /\ UNCHANGED <<seq, message, sending, wire, left, written, heard, answered, reads>>
  BY <1>1 DEF IInv, writeComplete
<1>2. /\ queue' \in Seq(Tasks) /\ PlacesInv' /\ NumbersInv'
      /\ \A q \in Requests : Passed(q)' <=> Passed(q)
      /\ r \in Handled /\ outcome[r] = "none" /\ Passed(r)
      /\ outcome' \in [Requests -> {"none", "written", "failed"}]
      /\ \A q \in Requests : outcome'[q] = IF q = r THEN "written" ELSE outcome[q]
  <2>1. Head(queue).do \in {"written", "failed"} /\ "written" \in {"written", "failed"}
    BY <1>0
  <2> QED BY <2>1, <1>0, <1>1, ToldPlaces
<1>3. r \in Requests /\ Kind[r] \in Counters /\ heard[r] = <<>> /\ r \notin refused /\ ~Waits(r)
  BY <1>0, <1>2 DEF RoutesInv, Handled, Waits
<1>4. \A q : Route(q)' = Route(q)
  BY <1>0 DEF Route
<1>5. Route(r).request = r
  BY DEF Route
<1>6. \/ routes' = routes \cup {Route(r)} /\ refused' = refused
      \/ /\ refused' = refused \cup {r} /\ routes' = routes
         /\ \E listed \in routes : SameKey(listed, Route(r))
  BY <1>0 DEF addRoute, canAdd
\* Only one of the same number is in the way.
<1>7. ASSUME NEW listed \in routes, SameKey(listed, Route(r))
      PROVE  \E q \in Requests : SharesNumber(q, r) /\ outcome[q] = "written"
  <2>1. PICK q \in Requests : q = listed.request /\ listed = Route(q) /\ outcome[q] = "written"
    BY <1>0, <1>7 DEF RoutesInv
  <2>2. q # r /\ q \in Handled /\ Passed(q)
    BY <1>0, <1>2, <2>1 DEF PlacesInv, Passed
  <2>3. message[q].seq = message[r].seq
    BY <1>7, <2>1 DEF SameKey, Route
  <2> QED BY <1>0, <1>2, <2>1, <2>2, <2>3, OfOneNumber
<1>8. TypeOK' /\ Typed'
  <2>1. \A i \in DOMAIN queue' : queue'[i].do \in {"active", "write", "written", "failed", "read"}
    BY <1>2, TasksDo
  <2>2. refused' \subseteq Requests /\ \A route \in routes' : route.request \in Requests
    BY <1>0, <1>3, <1>5, <1>6 DEF TypeOK
  <2> QED BY <2>1, <2>2, <1>0, <1>2 DEF TypeOK, Typed
<1>9. RoutesInv'
  <2>1. ASSUME NEW route \in routes'
        PROVE  /\ route.request \in Requests /\ route = Route(route.request)'
               /\ outcome'[route.request] = "written"
               /\ heard'[route.request] = <<>> /\ route.request \notin refused'
    <3>1. CASE route \in routes
      <4>1. route.request # r
        BY <3>1, <1>3 DEF Waits
      <4> QED BY <3>1, <4>1, <1>0, <1>2, <1>4, <1>6 DEF RoutesInv
    <3>2. CASE route \notin routes
      <4>1. route = Route(r) /\ refused' = refused
        BY <2>1, <3>2, <1>6
      <4> QED BY <4>1, <1>0, <1>2, <1>3, <1>4, <1>5
    <3> QED BY <3>1, <3>2
  <2>2. \A q \in Requests : Waits(q) => Waits(q)'
    BY <1>6 DEF Waits
  <2>3. Waits(r)' \/ r \in refused'
    BY <1>5, <1>6 DEF Waits
  <2>4. ASSUME NEW q \in Requests
        PROVE  /\ outcome'[q] = "written" => Waits(q)' \/ heard'[q] # <<>> \/ q \in refused'
               /\ outcome'[q] # "written" => heard'[q] = <<>> /\ q \notin refused'
    BY <1>0, <1>2, <1>6, <2>2, <2>3 DEF RoutesInv
  <2>5. ASSUME NEW q \in Requests, q \in refused'
        PROVE  /\ heard'[q] = <<>>
               /\ \E p \in Requests : SharesNumber(p, q) /\ outcome'[p] = "written"
    <3>1. \A p \in Requests : outcome[p] = "written" => outcome'[p] = "written"
      BY <1>2
    <3>2. CASE q \in refused
      BY <3>1, <3>2, <1>0 DEF RoutesInv
    <3>3. CASE q \notin refused
      <4>1. q = r /\ \E listed \in routes : SameKey(listed, Route(r))
        BY <2>5, <3>3, <1>6
      <4>2. \E p \in Requests : SharesNumber(p, r) /\ outcome[p] = "written"
        BY <4>1, <1>7
      <4> QED BY <3>1, <4>1, <4>2, <1>0, <1>3
    <3> QED BY <3>2, <3>3
  <2>6. \A p, q : SharesNumber(p, q)' <=> SharesNumber(p, q)
    BY DEF SharesNumber
  <2> QED BY <2>1, <2>4, <2>5, <2>6 DEF RoutesInv
<1>10. WireInv'
  BY <1>0, <1>2, SameWires
<1>11. AnswersInv'
  <2>1. \A q \in answered : q \in Requests /\ q # r
    BY <1>0, <1>2 DEF TypeOK, AnswersInv
  <2>2. \A q \in answered : Waits(q)' => Waits(q)
    BY <2>1, <1>5, <1>6 DEF Waits
  <2> QED BY <2>1, <2>2, <1>0, <1>2 DEF AnswersInv
<1> QED BY <1>2, <1>8, <1>9, <1>10, <1>11 DEF IInv

\* A frame that answers a request gives an event of its number, and of its age.
TellsOf(bytes, r, m) ==
    decode(bytes) = {m} /\ match(Route(r), m) /\ (Room[r] >= 10 => m.age = Age[r])

LEMMA AnswerTold ==
    ASSUME IInv, NEW r \in Requests, Framed(wire[r])
    PROVE  \E m : TellsOf(wire[r], r, m)
<1>0. Typed /\ NumbersInv /\ WireInv
  BY DEF IInv
<1>1. wire[r] # <<>>
  BY DEF Framed
<1>2. /\ Passed(r) /\ r \in Handled
      /\ wire[r] = Readable(serialize(newBuffer(Room[r]), message[r]))
  BY <1>0, <1>1 DEF WireInv
<1>3. PICK n \in Nat : n = message[r].seq
  <2>1. message[r].seq = toUInt16(FirstSeq + Place(r))
    BY <1>0, <1>2 DEF NumbersInv
  <2>2. {q \in Requests : q < r /\ Kind[q] = Kind[r]} \in SUBSET Requests
    OBVIOUS
  <2>3. FirstSeq + Place(r) \in Nat
    <3>1. FirstSeq \in Nat /\ Place(r) \in Nat
      BY <2>2, RequestsFinite, RequestResponseAssumption DEF Place
    <3> QED BY <3>1
  <2> QED BY <2>1, <2>3, Width
<1>4. message[r] = MessageOf(r, n)
  BY <1>0, <1>3, MessageIs
<1>5. PICK w : w = wire[r]
  OBVIOUS
<1>6. w = Readable(serialize(newBuffer(Room[r]), MessageOf(r, n))) /\ Framed(w)
  BY <1>2, <1>4, <1>5
<1>7. PICK m : /\ decode(w) = {m} /\ m.mid = messageId /\ m.seq = n
               /\ Room[r] >= 10 => m.age = Age[r]
  <2>1. ReadsAs(w, r, n)
    BY <1>6, WireOf
  <2> QED BY <2>1 DEF ReadsAs
<1>8. Route(r).id = messageId /\ Route(r).number = n
  BY <1>3, <1>4, NumberOf DEF Route
<1>9. match(Route(r), m)
  BY <1>7, <1>8 DEF match
<1>10. TellsOf(w, r, m)
  BY <1>7, <1>9 DEF TellsOf
<1> QED BY <1>5, <1>10

LEMMA HandleReadStep == ASSUME IInv, handleRead PROVE IInv'
<1>1. PICK bytes, found : bytes = Head(queue).bytes /\ found = decode(bytes)
  OBVIOUS
<1>0. /\ TypeOK /\ Typed /\ PlacesInv /\ NumbersInv /\ RoutesInv /\ WireInv /\ AnswersInv
      /\ queue # <<>> /\ Head(queue).do = "read" /\ queue' = Tail(queue)
      /\ \/ found = {} /\ UNCHANGED <<routes, heard>>
         \/ \E m \in found : postEvent(m)
      /\ answered' = answered \cup
            {r \in Requests : wire[r] = bytes /\ Framed(bytes) /\ outcome[r] = "written"}
      /\ UNCHANGED <<seq, message, sending, wire, left, written, outcome, refused, reads>>
  BY <1>1 DEF IInv, handleRead
<1>2. Writes(Head(queue)) = {} /\ \A q : ~Tells(Head(queue), q)
  BY <1>0 DEF Writes, Tells
<1>3. /\ queue' \in Seq(Tasks)
      /\ \A i \in 1..Len(queue') : i + 1 \in 1..Len(queue) /\ i + 1 # 1 /\ queue'[i] = queue[i + 1]
      /\ \A q \in Requests : (ToWrite(q)' <=> ToWrite(q)) /\ (ToTell(q)' <=> ToTell(q))
  BY <1>0, <1>2, TaskTaken
<1>4. PlacesInv'
  <2>1. ASSUME NEW i \in 1..Len(queue')
        PROVE  /\ queue'[i].do = "active" => i = 1
               /\ queue'[i].do = "write" => queue'[i].r \in written' \ Eager
               /\ queue'[i].do \in {"written", "failed"} => queue'[i].r \in Handled' \cap written'
    BY <1>0, <1>3 DEF PlacesInv, Handled
  <2>2. ASSUME NEW q \in Requests, NEW i \in 1..Len(queue'), NEW j \in 1..Len(queue')
        PROVE  /\ q \in Writes(queue'[i]) /\ q \in Writes(queue'[j]) => i = j
               /\ Tells(queue'[i], q) /\ Tells(queue'[j], q) => i = j
    <3>1. /\ i + 1 \in 1..Len(queue) /\ queue'[i] = queue[i + 1]
          /\ j + 1 \in 1..Len(queue) /\ queue'[j] = queue[j + 1]
      BY <1>3
    <3>2. i + 1 = j + 1 => i = j
      OBVIOUS
    <3> QED BY <1>0, <3>1, <3>2 DEF PlacesInv
  <2>3. ASSUME NEW q \in Requests
        PROVE  /\ ToWrite(q)' => q \notin sending' /\ ~ToTell(q)' /\ outcome'[q] = "none"
               /\ ToTell(q)' => q \notin sending' /\ outcome'[q] = "none"
               /\ q \in sending' => q \in Handled' \cap written' /\ outcome'[q] = "none"
               /\ outcome'[q] # "none" => q \in Handled' \cap written'
    BY <1>0, <1>3 DEF PlacesInv, Handled
  <2> QED BY <1>0, <2>1, <2>2, <2>3 DEF PlacesInv
<1>5. NumbersInv' /\ \A q \in Requests : Passed(q)' <=> Passed(q)
  BY <1>0, <1>2, QuietTaken
\* Each route that is erased has its callback called, and no other callback is.
<1>6. /\ routes' \subseteq routes /\ DOMAIN heard' = Requests
      /\ \A route \in routes' : heard'[route.request] = heard[route.request]
      /\ \A route \in routes : route \in routes' \/ heard'[route.request] # <<>>
      /\ \A r \in Requests : ~Waits(r) => heard'[r] = heard[r]
  <2>1. CASE found = {} /\ UNCHANGED <<routes, heard>>
    BY <2>1, <1>0 DEF Typed
  <2>2. CASE \E m \in found : postEvent(m)
    <3>1. PICK m : postEvent(m)
      BY <2>2
    <3>2. /\ heard' = [r \in Requests |->
                         IF \E route \in routes : route.request = r /\ match(route, m)
                         THEN Append(heard[r], m) ELSE heard[r]]
          /\ routes' = {route \in routes : ~match(route, m)}
      BY <3>1 DEF postEvent
    <3>3. \A a, b \in routes : a.request = b.request => a = b
      BY <1>0 DEF RoutesInv
    <3>4. ASSUME NEW route \in routes' PROVE heard'[route.request] = heard[route.request]
      BY <1>0, <3>2, <3>3, <3>4 DEF RoutesInv
    <3>5. ASSUME NEW route \in routes, route \notin routes' PROVE heard'[route.request] # <<>>
      <4>1. route.request \in Requests /\ heard[route.request] = <<>> /\ match(route, m)
        BY <1>0, <3>2, <3>5 DEF RoutesInv
      <4>2. heard'[route.request] = Append(<<>>, m)
        BY <3>2, <4>1
      <4>3. Append(<<>>, m) # <<>>
        OBVIOUS
      <4> QED BY <4>2, <4>3
    <3>6. ASSUME NEW r \in Requests, ~Waits(r) PROVE heard'[r] = heard[r]
      BY <3>2, <3>6 DEF Waits
    <3> QED BY <3>2, <3>4, <3>5, <3>6
  <2> QED BY <1>0, <2>1, <2>2
<1>7. TypeOK' /\ Typed'
  <2>1. \A i \in DOMAIN queue' : queue'[i].do \in {"active", "write", "written", "failed", "read"}
    BY <1>3, TasksDo
  <2> QED BY <2>1, <1>0, <1>3, <1>6 DEF TypeOK, Typed
<1>8. RoutesInv'
  <2>1. \A q : Route(q)' = Route(q)
    BY <1>0 DEF Route
  <2>2. \A route \in routes' :
           /\ route.request \in Requests /\ route = Route(route.request)'
           /\ outcome'[route.request] = "written"
           /\ heard'[route.request] = <<>> /\ route.request \notin refused'
    BY <1>0, <1>6, <2>1 DEF RoutesInv
  <2>3. ASSUME NEW r \in Requests
        PROVE  /\ outcome'[r] = "written" => Waits(r)' \/ heard'[r] # <<>> \/ r \in refused'
               /\ outcome'[r] # "written" => heard'[r] = <<>> /\ r \notin refused'
               /\ r \in refused' =>
                     /\ heard'[r] = <<>>
                     /\ \E q \in Requests : SharesNumber(q, r) /\ outcome'[q] = "written"
    <3>1. CASE Waits(r)
      <4>1. PICK route \in routes : route.request = r
        BY <3>1 DEF Waits
      <4>2. outcome[r] = "written" /\ r \notin refused
        BY <1>0, <4>1 DEF RoutesInv
      <4>3. Waits(r)' \/ heard'[r] # <<>>
        BY <1>6, <4>1 DEF Waits
      <4> QED BY <1>0, <4>2, <4>3
    <3>2. CASE ~Waits(r)
      <4>1. heard'[r] = heard[r]
        BY <1>6, <3>2
      <4> QED BY <1>0, <3>2, <4>1 DEF RoutesInv
    <3> QED BY <3>1, <3>2
  <2>4. \A p, q : SharesNumber(p, q)' <=> SharesNumber(p, q)
    BY DEF SharesNumber
  <2> QED BY <2>2, <2>3, <2>4 DEF RoutesInv
<1>9. WireInv'
  BY <1>0, <1>5, SameWires
<1>10. AnswersInv'
  <2>1. ASSUME NEW r \in answered PROVE outcome'[r] = "written" /\ ~Waits(r)'
    BY <1>0, <1>6 DEF AnswersInv, Waits
  <2>2. ASSUME NEW r \in Requests, wire[r] = bytes, Framed(bytes), outcome[r] = "written"
        PROVE  outcome'[r] = "written" /\ ~Waits(r)'
    <3>1. PICK m : found = {m} /\ match(Route(r), m)
      <4>1. PICK m : TellsOf(wire[r], r, m)
        BY <2>2, AnswerTold
      <4> QED BY <1>1, <2>2, <4>1 DEF TellsOf
    <3>2. routes' = {route \in routes : ~match(route, m)}
      BY <1>0, <3>1 DEF postEvent
    <3>3. \A route \in routes : route.request = r => route = Route(r)
      BY <1>0 DEF RoutesInv
    <3> QED BY <1>0, <2>2, <3>1, <3>2, <3>3 DEF Waits
  <2> QED BY <1>0, <2>1, <2>2 DEF AnswersInv
<1> QED BY <1>4, <1>5, <1>7, <1>8, <1>9, <1>10 DEF IInv

LEMMA Stuttering == ASSUME IInv, UNCHANGED vars PROVE IInv'
<1>0. /\ TypeOK /\ Typed /\ PlacesInv /\ NumbersInv /\ RoutesInv /\ WireInv /\ AnswersInv
      /\ UNCHANGED <<seq, message, queue, sending, wire, left, routes, written, outcome, refused,
                     heard, answered, reads>>
  BY DEF IInv, vars
<1>1. \A q : (ToWrite(q)' <=> ToWrite(q)) /\ (ToTell(q)' <=> ToTell(q)) /\ (Passed(q)' <=> Passed(q))
  BY <1>0 DEF ToWrite, ToTell, Passed
<1>2. TypeOK' /\ Typed'
  BY <1>0 DEF TypeOK, Typed
<1>3. PlacesInv'
  BY <1>0, <1>1 DEF PlacesInv, Handled
<1>4. NumbersInv'
  BY <1>0, <1>1, SameNumbers
<1>5. RoutesInv' /\ WireInv' /\ AnswersInv'
  BY <1>0, <1>1, SameRoutes, SameWires, SameAnswers
<1> QED BY <1>2, <1>3, <1>4, <1>5 DEF IInv

LEMMA Initially == ASSUME Init PROVE IInv
<1>1. /\ seq = [k \in Counters |-> FirstSeq] /\ sending = {} /\ left = {} /\ routes = {}
      /\ wire = [r \in Requests |-> <<>>] /\ written = Eager /\ refused = {} /\ answered = {}
      /\ outcome = [r \in Requests |-> "none"] /\ heard = [r \in Requests |-> <<>>] /\ reads = 0
      /\ queue = IF Eager = {} THEN <<>> ELSE <<Task("active", 0, <<>>)>>
      /\ Eager \subseteq Requests /\ FirstSeq \in Nat /\ MaxReads \in Nat
  BY RequestResponseAssumption DEF Init
<1>2. \A r \in Requests : message[r] = MessageOf(r, Unset)
  <2>1. ASSUME NEW r \in Requests PROVE message[r] = MessageOf(r, Unset)
    <3>1. message[r] = [Fresh EXCEPT !.pif = LeftDelimiter, !.eif = RightDelimiter,
                                     !.age = Age[r], !.name = Name[r]]
      BY DEF Init
    <3> QED BY <3>1 DEF Fresh, MessageOf, Fields
  <2> QED BY <2>1
<1>3. PICK task : task = Task("active", 0, <<>>)
  OBVIOUS
<1>4. task \in Tasks /\ task.do = "active" /\ Writes(task) = Eager /\ \A r : ~Tells(task, r)
  BY <1>3 DEF Task, Tasks, Writes, Tells
<1>5. /\ queue \in Seq(Tasks)
      /\ \A i \in 1..Len(queue) : i = 1 /\ queue[i] = task
      /\ Eager # {} => 1 \in 1..Len(queue) /\ queue[1] = task
  BY <1>1, <1>3, <1>4
<1>6. \A r \in Requests : (ToWrite(r) <=> r \in Eager) /\ ~ToTell(r) /\ ~Passed(r)
  BY <1>1, <1>4, <1>5 DEF ToWrite, ToTell, Passed
<1>7. TypeOK /\ Typed
  <2>1. \A r \in Requests : message[r].seq = Unset
    BY <1>2, NumberOf
  <2>2. \A i \in DOMAIN queue : queue[i].do \in {"active", "write", "written", "failed", "read"}
    BY <1>5, TasksDo
  <2>3. TypeOK
    BY <1>1, <2>1, <2>2 DEF TypeOK
  <2>4. ASSUME NEW r \in Requests
        PROVE  message[r] = [Fresh EXCEPT !.pif = LeftDelimiter, !.eif = RightDelimiter,
                                          !.age = Age[r], !.name = Name[r],
                                          !.seq = message[r].seq]
    <3>1. PICK x : x = message[r].seq /\ message[r] = MessageOf(r, x)
      BY <1>2, <2>1
    <3> QED BY <3>1, Shaped
  <2>5. DOMAIN message = Requests
    BY DEF Init
  <2>6. wire \in [Requests -> Seq(Nat)] /\ DOMAIN heard = Requests
    <3>1. <<>> \in Seq(Nat)
      BY EmptySeq
    <3> QED BY <1>1, <3>1
  <2> QED BY <1>5, <2>3, <2>4, <2>5, <2>6 DEF Typed
<1>8. PlacesInv
  BY <1>1, <1>4, <1>5, <1>6 DEF PlacesInv
<1>9. NumbersInv
  <2>1. \A k \in Counters : {r \in Requests : Kind[r] = k /\ Passed(r)} = {}
    BY <1>6
  <2>2. \A k \in Counters :
           seq[k] = FirstSeq + Cardinality({r \in Requests : Kind[r] = k /\ Passed(r)})
    <3>1. Cardinality({}) = 0
      BY FS_EmptySet
    <3>2. \A k \in Counters : seq[k] = FirstSeq + 0
      BY <1>1
    <3> QED BY <2>1, <3>1, <3>2
  <2>3. ASSUME NEW q \in Requests, NEW r \in Requests, q < r, Kind[q] = Kind[r], r \in written
        PROVE  q \in Eager
    BY <1>1, <2>3, RequestResponseAssumption
  <2>4. \A i, j \in 1..Len(queue) : i <= j
    BY <1>5
  <2> QED BY <1>1, <1>6, <2>2, <2>3, <2>4 DEF NumbersInv, Handled
<1>10. RoutesInv /\ WireInv /\ AnswersInv
  BY <1>1 DEF RoutesInv, WireInv, AnswersInv
<1> QED BY <1>7, <1>8, <1>9, <1>10 DEF IInv

LEMMA Inductive == ASSUME IInv, [Next]_vars PROVE IInv'
<1>1. ASSUME NEW r \in Requests, write(r) PROVE IInv'
  BY <1>1, WriteStep
<1>2. CASE handleWrite
  BY <1>2, HandleWriteStep
<1>3. CASE writeComplete
  BY <1>3, WriteCompleteStep
<1>4. CASE writeError
  BY <1>4, WriteErrorStep
<1>5. CASE handleRead
  BY <1>5, HandleReadStep
<1>6. ASSUME NEW r \in Requests, leave(r) \/ sendEnds(r) PROVE IInv'
  BY <1>6, LeaveStep, SendEndsStep
<1>7. ASSUME NEW bytes \in Answers \cup Strays, receive(bytes) PROVE IInv'
  BY <1>7, ReceiveStep
<1>8. CASE UNCHANGED vars
  BY <1>8, Stuttering
<1> QED BY <1>1, <1>2, <1>3, <1>4, <1>5, <1>6, <1>7, <1>8 DEF Next, IoServes

LEMMA InductiveInvariant == Spec => []IInv
BY Initially, Inductive, PTL DEF Spec

------------------------------------------------------------------------------
(***************************************************************************)
(* However replies are lost, repeated and reordered, a request whose write *)
(* is complete is in exactly one of three places: it waits for its reply   *)
(* as one route, or its callback was called (which took the route away),   *)
(* or its route was refused (TemporaryRouter::add), and then only because  *)
(* a request of the same sixteen bits waited; and nothing else has a route *)
(* (NewMessageWriteStage and MonitorStage of main.cpp).                    *)
(***************************************************************************)
THEOREM RequestsAreAccountedFor == Spec => []RequestsInv
<1>1. IInv => RequestsInv
  <2>1. ASSUME IInv, NEW r \in Requests, outcome[r] = "written"
        PROVE  Cardinality({x \in {"waits", "called", "refused"} :
                  \/ x = "waits" /\ Waits(r)
                  \/ x = "called" /\ heard[r] # <<>>
                  \/ x = "refused" /\ r \in refused}) = 1
    <3> DEFINE S == {x \in {"waits", "called", "refused"} :
                       \/ x = "waits" /\ Waits(r)
                       \/ x = "called" /\ heard[r] # <<>>
                       \/ x = "refused" /\ r \in refused}
    <3>1. /\ Waits(r) => heard[r] = <<>> /\ r \notin refused
          /\ r \in refused => heard[r] = <<>>
          /\ Waits(r) \/ heard[r] # <<>> \/ r \in refused
      BY <2>1 DEF IInv, RoutesInv, Waits
    <3>2. \E x : S = {x}
      <4>1. CASE Waits(r)
        <5>1. S = {"waits"}
          BY <3>1, <4>1
        <5> QED BY <5>1
      <4>2. CASE r \in refused
        <5>1. S = {"refused"}
          BY <3>1, <4>2
        <5> QED BY <5>1
      <4>3. CASE heard[r] # <<>>
        <5>1. S = {"called"}
          BY <3>1, <4>3
        <5> QED BY <5>1
      <4> QED BY <3>1, <4>1, <4>2, <4>3
    <3> HIDE DEF S
    <3>3. Cardinality(S) = 1
      BY <3>2, FS_Singleton
    <3> QED BY <3>3 DEF S
  <2>2. ASSUME IInv, NEW r \in Requests
        PROVE  /\ outcome[r] # "written" => ~Waits(r) /\ heard[r] = <<>> /\ r \notin refused
               /\ r \in refused =>
                     \E q \in Requests : SharesNumber(q, r) /\ outcome[q] = "written"
               /\ \A a, b \in routes : a.request = r /\ b.request = r => a = b
    BY <2>2 DEF IInv, RoutesInv, Waits
  <2>3. IInv => TypeOK
    BY DEF IInv
  <2> QED BY <2>1, <2>2, <2>3 DEF RequestsInv, RequestsAccountedFor
<1> QED BY <1>1, InductiveInvariant, PTL

(***************************************************************************)
(* A reply that is handled when the write of its request is complete calls *)
(* the request's callback, unless its route was refused: the id and the    *)
(* number that the decoder finds are the ones the route was added with,    *)
(* for every message, buffer and place where the numbers begin again.      *)
(***************************************************************************)
THEOREM AnswersReach == Spec => []AnswerReaches
<1>1. IInv => AnswerReaches
  BY DEF IInv, TypeOK, AnswersInv, RoutesInv, AnswerReaches
<1> QED BY <1>1, InductiveInvariant, PTL

(***************************************************************************)
(* NewMessage::serialize and deserialize are inverse on the wire, for      *)
(* every name and buffer: when the whole message fits its buffer and has a *)
(* length of sixteen bits, the bytes are one frame, the factory knows its  *)
(* id, and what is decoded is what was written, with the length filled in. *)
(* An empty name loses the right delimiter, as the code has it.            *)
(***************************************************************************)
THEOREM WireIsTheMessage == Spec => []WireIsMessage
<1>1. ASSUME IInv, NEW r \in Requests, wire[r] # <<>>,
             14 + Len(Name[r]) <= Room[r], 14 + Len(Name[r]) \in UInt16
      PROVE  /\ Framed(wire[r])
             /\ decode(wire[r]) =
                  {[message[r] EXCEPT !.length = 14 + Len(Name[r]),
                                      !.eif = IF Name[r] = <<>> THEN Unset ELSE @]}
  <2>1. PICK w : w = wire[r]
    OBVIOUS
  <2>2. /\ Passed(r) /\ r \in Handled
        /\ w = Readable(serialize(newBuffer(Room[r]), message[r]))
    BY <1>1, <2>1 DEF IInv, WireInv
  <2>3. PICK n \in Nat : n = message[r].seq
    <3>1. message[r].seq = toUInt16(FirstSeq + Place(r))
      BY <1>1, <2>2 DEF IInv, NumbersInv
    <3>2. {q \in Requests : q < r /\ Kind[q] = Kind[r]} \in SUBSET Requests
      OBVIOUS
    <3>3. FirstSeq \in Nat /\ Place(r) \in Nat
      BY <3>2, RequestsFinite, RequestResponseAssumption DEF Place
    <3>4. FirstSeq + Place(r) \in Nat
      BY <3>3
    <3> QED BY <3>1, <3>4, Width
  <2>4. message[r] = MessageOf(r, n)
    BY <1>1, <2>3, MessageIs DEF IInv
  <2>5. PICK m : m = message[r]
    OBVIOUS
  <2>6. [m EXCEPT !.length = 14 + Len(Name[r]), !.eif = IF Name[r] = <<>> THEN Unset ELSE @] =
           Fields(LeftDelimiter, 14 + Len(Name[r]), messageId, n, Age[r], Name[r],
                  IF Name[r] = <<>> THEN Unset ELSE RightDelimiter)
    <3>1. PICK size, last : /\ size = 14 + Len(Name[r])
                            /\ last = IF Name[r] = <<>> THEN Unset ELSE RightDelimiter
      OBVIOUS
    <3>2. m = MessageOf(r, n) /\ m.eif = RightDelimiter
      BY <2>4, <2>5, FieldsAre DEF MessageOf
    <3>3. [m EXCEPT !.length = size, !.eif = last] =
             Fields(LeftDelimiter, size, messageId, n, Age[r], Name[r], last)
      <4>1. [m EXCEPT !.length = size] =
               Fields(LeftDelimiter, size, messageId, n, Age[r], Name[r], RightDelimiter)
        BY <3>2 DEF MessageOf, Fields
      <4>2. PICK f : f = [m EXCEPT !.length = size]
        OBVIOUS
      <4>3. [f EXCEPT !.eif = last] =
               Fields(LeftDelimiter, size, messageId, n, Age[r], Name[r], last)
        <5>1. With(f, "eif", last) =
                 Fields(LeftDelimiter, size, messageId, n, Age[r], Name[r], last)
          BY <4>1, <4>2, FieldSet
        <5> QED BY <5>1 DEF With
      <4> QED BY <4>2, <4>3
    <3>4. [m EXCEPT !.length = size, !.eif = IF Name[r] = <<>> THEN Unset ELSE @] =
             [m EXCEPT !.length = size, !.eif = last]
      BY <3>1, <3>2
    <3> QED BY <3>1, <3>3, <3>4
  <2>7. w = Readable(serialize(newBuffer(Room[r]), MessageOf(r, n)))
    BY <2>2, <2>4
  <2>8. /\ Framed(w)
        /\ decode(w) = {Fields(LeftDelimiter, 14 + Len(Name[r]), messageId, n, Age[r], Name[r],
                               IF Name[r] = <<>> THEN Unset ELSE RightDelimiter)}
    BY <1>1, <2>7, WireOf
  <2> QED BY <2>1, <2>5, <2>6, <2>8
<1>2. IInv => WireIsMessage
  BY <1>1 DEF WireIsMessage
<1> QED BY <1>2, InductiveInvariant, PTL

------------------------------------------------------------------------------
(***************************************************************************)
(* RequestResponse implements Requests. Beyond IInv this needs to know     *)
(* that a key is listed once, so that an event calls one callback at most, *)
(* and where the datagrams of the queue come from.                         *)
(***************************************************************************)
Replied(bytes) == \E q \in Requests : wire[q] # <<>> /\ bytes = wire[q]

KeysInv == \A a, b \in routes : SameKey(a, b) => a = b

ReadsInv ==
    \A i \in 1..Len(queue) :
        queue[i].do = "read" => queue[i].bytes \in Strays \/ Replied(queue[i].bytes)

\* What was encoded is not encoded again.
LEMMA WiresStay ==
    ASSUME IInv, [Next]_vars, NEW r \in Requests, wire[r] # <<>>
    PROVE  wire'[r] = wire[r]
<1>1. CASE handleWrite
  <2>1. Typed /\ WireInv
    BY DEF IInv
  <2>2. ~ToWrite(r)
    BY <2>1 DEF WireInv, Passed
  <2>3. r \notin Due
    <3>1. CASE queue = <<>>
      BY <2>1, <3>1, DueIs
    <3>2. CASE queue # <<>>
      <4>1. Due = Writes(Head(queue))
        BY <2>1, <3>2, DueIs
      <4>2. Head(queue) = queue[1] /\ 1 \in 1..Len(queue)
        <5>1. queue \in Seq(Tasks)
          BY <2>1 DEF Typed
        <5>2. Head(queue) = queue[1] /\ Len(queue) \in Nat \ {0}
          BY <5>1, <3>2, HeadTailProperties, EmptySeq
        <5> QED BY <5>2
      <4> QED BY <4>1, <4>2, <2>2 DEF ToWrite
    <3> QED BY <3>1, <3>2
  <2> QED BY <1>1, <2>3 DEF handleWrite
<1>2. CASE ~handleWrite
  <2>1. UNCHANGED wire
    BY <1>2 DEF Next, IoServes, write, writeComplete, writeError, handleRead, leave, sendEnds,
                receive, vars
  <2> QED BY <2>1
<1> QED BY <1>1, <1>2

LEMMA KeysStay == ASSUME IInv, KeysInv, [Next]_vars PROVE KeysInv'
<1>1. CASE writeComplete
  <2>1. PICK r : addRoute(r)
    BY <1>1 DEF writeComplete
  <2>2. CASE routes' = routes \cup {Route(r)} /\ canAdd(Route(r))
    BY <2>2 DEF canAdd, KeysInv, SameKey
  <2>3. CASE routes' = routes
    BY <2>3 DEF KeysInv, SameKey
  <2> QED BY <2>1, <2>2, <2>3 DEF addRoute
<1>2. CASE handleRead
  <2>1. routes' \subseteq routes
    BY <1>2 DEF handleRead, postEvent
  <2> QED BY <2>1 DEF KeysInv, SameKey
<1>3. CASE ~writeComplete /\ ~handleRead
  <2>1. UNCHANGED routes
    BY <1>3 DEF Next, IoServes, write, handleWrite, writeError, leave, sendEnds, receive, vars
  <2> QED BY <2>1 DEF KeysInv, SameKey
<1> QED BY <1>1, <1>2, <1>3

LEMMA ReadsStay == ASSUME IInv, ReadsInv, [Next]_vars PROVE ReadsInv'
<1>0. Typed /\ WireInv /\ TypeOK /\ PlacesInv
  BY DEF IInv
<1>1. \A bytes : Replied(bytes) =>
         \E q \in Requests : wire'[q] # <<>> /\ bytes = wire'[q]
  BY WiresStay DEF Replied
<1>2. ASSUME NEW task \in Tasks, queue' = Append(queue, task),
             task.do = "read" => task.bytes \in Strays \/ Replied(task.bytes)
      PROVE  ReadsInv'
  <2>1. /\ queue'[Len(queue) + 1] = task
        /\ \A i \in 1..Len(queue) : queue'[i] = queue[i]
        /\ \A i \in 1..Len(queue') : i \in 1..Len(queue) \/ i = Len(queue) + 1
    BY <1>0, <1>2, Queued
  <2> SUFFICES ASSUME NEW i \in 1..Len(queue'), queue'[i].do = "read"
               PROVE  \/ queue'[i].bytes \in Strays
                      \/ \E q \in Requests : wire'[q] # <<>> /\ queue'[i].bytes = wire'[q]
    BY DEF ReadsInv, Replied
  <2>2. PICK it : it = queue'[i]
    OBVIOUS
  <2>3. it.bytes \in Strays \/ Replied(it.bytes)
    BY <1>2, <2>1, <2>2 DEF ReadsInv
  <2>4. it.bytes \in Strays \/ \E q \in Requests : wire'[q] # <<>> /\ it.bytes = wire'[q]
    BY <1>1, <2>3
  <2> QED BY <2>2, <2>4
<1>3. ASSUME queue # <<>>, queue' = Tail(queue) PROVE ReadsInv'
  <2>1. \A i \in 1..Len(queue') : i + 1 \in 1..Len(queue) /\ queue'[i] = queue[i + 1]
    BY <1>0, <1>3, TaskTaken
  <2> SUFFICES ASSUME NEW i \in 1..Len(queue'), queue'[i].do = "read"
               PROVE  \/ queue'[i].bytes \in Strays
                      \/ \E q \in Requests : wire'[q] # <<>> /\ queue'[i].bytes = wire'[q]
    BY DEF ReadsInv, Replied
  <2>2. PICK it : it = queue'[i]
    OBVIOUS
  <2>3. it.bytes \in Strays \/ Replied(it.bytes)
    BY <2>1, <2>2 DEF ReadsInv
  <2>4. it.bytes \in Strays \/ \E q \in Requests : wire'[q] # <<>> /\ it.bytes = wire'[q]
    BY <1>1, <2>3
  <2> QED BY <2>2, <2>4
<1>4. ASSUME UNCHANGED queue PROVE ReadsInv'
  <2> SUFFICES ASSUME NEW i \in 1..Len(queue), queue[i].do = "read"
               PROVE  \/ queue[i].bytes \in Strays
                      \/ \E q \in Requests : wire'[q] # <<>> /\ queue[i].bytes = wire'[q]
    BY <1>4 DEF ReadsInv, Replied
  <2>1. PICK it : it = queue[i] /\ it = queue'[i]
    BY <1>4
  <2>2. it.bytes \in Strays \/ \E q \in Requests : wire'[q] # <<>> /\ it.bytes = wire'[q]
    BY <1>1, <2>1 DEF ReadsInv
  <2> QED BY <2>1, <2>2
<1>5. ASSUME NEW r \in Requests, write(r) PROVE ReadsInv'
  <2>1. PICK task : task = Task("write", r, <<>>)
    OBVIOUS
  <2>2. task \in Tasks /\ task.do # "read"
    BY <2>1, EmptySeq DEF Task, Tasks
  <2>3. queue' = Append(queue, task)
    BY <1>5, <2>1 DEF write
  <2> QED BY <1>2, <2>2, <2>3
<1>6. ASSUME NEW r \in Requests, sendEnds(r) PROVE ReadsInv'
  <2>1. PICK task : task = Task(IF r \in left THEN "written" ELSE "failed", r, <<>>)
    OBVIOUS
  <2>2. task \in Tasks /\ task.do # "read"
    BY <2>1, EmptySeq DEF Task, Tasks
  <2>3. queue' = Append(queue, task)
    BY <1>6, <2>1 DEF sendEnds
  <2> QED BY <1>2, <2>2, <2>3
<1>7. ASSUME NEW bytes \in Answers \cup Strays, receive(bytes) PROVE ReadsInv'
  <2>1. PICK task : task = Task("read", 0, bytes)
    OBVIOUS
  <2>2. bytes \in Seq(Nat) /\ (bytes \in Strays \/ Replied(bytes))
    <3>1. CASE bytes \in Answers
      <4>1. PICK r \in left : bytes = wire[r] /\ Framed(wire[r])
        BY <3>1 DEF Answers
      <4>2. r \in Requests /\ wire \in [Requests -> Seq(Nat)]
        BY <1>0 DEF TypeOK, Typed
      <4>3. wire[r] # <<>>
        BY <4>1 DEF Framed
      <4> QED BY <4>1, <4>2, <4>3 DEF Replied
    <3>2. CASE bytes \in Strays
      <4>1. bytes \in Seq(0..(Base - 1)) /\ 0..(Base - 1) \subseteq Nat
        BY <3>2, Width, RequestResponseAssumption
      <4> QED BY <3>2, <4>1, SeqMonotonic
    <3> QED BY <3>1, <3>2
  <2>3. task \in Tasks /\ task.bytes = bytes
    BY <2>1, <2>2 DEF Task, Tasks
  <2>4. queue' = Append(queue, task)
    BY <1>7, <2>1 DEF receive
  <2> QED BY <1>2, <2>2, <2>3, <2>4
<1>8. CASE handleWrite
  <2>1. queue # <<>> /\ queue' = Tail(queue)
    BY <1>8 DEF handleWrite, Due
  <2> QED BY <1>3, <2>1
<1>9. CASE writeComplete \/ writeError \/ handleRead
  <2>1. queue # <<>> /\ queue' = Tail(queue)
    BY <1>9 DEF writeComplete, writeError, handleRead
  <2> QED BY <1>3, <2>1
<1>10. ASSUME NEW r \in Requests, leave(r) PROVE ReadsInv'
  BY <1>4, <1>10 DEF leave
<1>11. CASE UNCHANGED vars
  BY <1>4, <1>11 DEF vars
<1> QED BY <1>5, <1>6, <1>7, <1>8, <1>9, <1>10, <1>11 DEF Next, IoServes

\* What a step may do to the abstract variables.
States == [r \in Requests |-> StateOf(r)]
Replies == [r \in Requests |-> RepliesTo(r)]

LEMMA Stays ==
    ASSUME UNCHANGED <<written, outcome, refused>>, \A r \in Requests : heard'[r] = heard[r]
    PROVE  UNCHANGED R!requestsVars
<1>1. \A r \in Requests : StateOf(r)' = StateOf(r)
  BY DEF StateOf
<1>2. \A r \in Requests : RepliesTo(r)' = RepliesTo(r)
  BY DEF RepliesTo
<1> QED BY <1>1, <1>2 DEF R!requestsVars

LEMMA Moves ==
    ASSUME NEW r \in Requests, NEW from, NEW to, StateOf(r) = from, StateOf(r)' = to,
           \A q \in Requests : q # r => StateOf(q)' = StateOf(q)
    PROVE  R!Move(r, from, to)
<1>1. States[r] = from
  BY DEF States
<1>2. States' = [States EXCEPT ![r] = to]
  BY DEF States
<1> QED BY <1>1, <1>2 DEF R!Move, States

LEMMA SameReplies == ASSUME UNCHANGED heard PROVE UNCHANGED Replies
<1>1. \A r \in Requests : RepliesTo(r)' = RepliesTo(r)
  BY DEF RepliesTo
<1> QED BY <1>1 DEF Replies

LEMMA InitialRequests == ASSUME Init PROVE R!Init
<1>1. \A r \in Requests : StateOf(r) \in {"idle", "written"}
  BY DEF Init, StateOf
<1>2. \A r \in Requests : RepliesTo(r) = <<>>
  <2>1. ASSUME NEW r \in Requests PROVE RepliesTo(r) = <<>>
    <3>1. heard[r] = <<>>
      BY DEF Init
    <3> QED BY <3>1 DEF RepliesTo
  <2> QED BY <2>1
<1> QED BY <1>1, <1>2 DEF R!Init

LEMMA WriteMaps ==
    ASSUME IInv, NEW r \in Requests, write(r)
    PROVE  R!Next
<1>1. /\ r \notin written /\ written' = written \cup {r}
      /\ UNCHANGED <<outcome, refused, heard>> /\ outcome[r] = "none"
  BY Unwritten DEF write, IInv
<1>2. StateOf(r) = "idle" /\ StateOf(r)' = "written"
  <2>1. StateOf(r) = "idle"
    BY <1>1 DEF StateOf
  <2>2. r \in written' /\ outcome'[r] = "none"
    BY <1>1
  <2>3. StateOf(r)' = "written"
    BY <2>2 DEF StateOf
  <2> QED BY <2>1, <2>3
<1>3. \A q \in Requests : q # r => StateOf(q)' = StateOf(q)
  BY <1>1 DEF StateOf
<1>4. R!Move(r, "idle", "written")
  BY <1>2, <1>3, Moves
<1>5. UNCHANGED Replies
  BY <1>1, SameReplies
<1> QED BY <1>4, <1>5 DEF R!Next, R!Write, Replies

LEMMA WriteErrorMaps ==
    ASSUME IInv, writeError
    PROVE  R!Next
<1>0. TypeOK /\ Typed /\ PlacesInv /\ RoutesInv
  BY DEF IInv
<1>1. PICK r : r = Head(queue).r
  OBVIOUS
<1>2. /\ queue # <<>> /\ queue' = Tail(queue) /\ Head(queue).do \in {"written", "failed"}
      /\ outcome' = [outcome EXCEPT ![r] = "failed"]
      /\ UNCHANGED <<seq, message, sending, written, refused, heard>>
  BY <1>1 DEF writeError
<1>3. /\ r \in Handled \cap written /\ outcome[r] = "none"
      /\ \A q \in Requests : outcome'[q] = IF q = r THEN "failed" ELSE outcome[q]
  <2>1. "failed" \in {"written", "failed"}
    OBVIOUS
  <2> QED BY <1>1, <1>2, <2>1, ToldPlaces
<1>4. r \in Requests /\ StateOf(r) = "written" /\ StateOf(r)' = "failed"
  <2>1. r \in Requests
    BY <1>3 DEF Handled
  <2>2. StateOf(r) = "written"
    BY <1>3 DEF StateOf
  <2>3. r \in written' /\ outcome'[r] = "failed"
    BY <1>2, <1>3, <2>1
  <2>4. StateOf(r)' = "failed"
    BY <2>3 DEF StateOf
  <2> QED BY <2>1, <2>2, <2>4
<1>5. \A q \in Requests : q # r => StateOf(q)' = StateOf(q)
  BY <1>2, <1>3 DEF StateOf
<1>6. R!Move(r, "written", "failed")
  BY <1>4, <1>5, Moves
<1>7. UNCHANGED Replies
  BY <1>2, SameReplies
<1> QED BY <1>4, <1>6, <1>7 DEF R!Next, R!Conclude, R!Fail, Replies

\* Who is asked to share its number waits, as its route is listed.
LEMMA WriteCompleteMaps ==
    ASSUME IInv, writeComplete
    PROVE  R!Next
<1>0. TypeOK /\ Typed /\ PlacesInv /\ NumbersInv /\ RoutesInv
  BY DEF IInv
<1>1. PICK r : r = Head(queue).r
  OBVIOUS
<1>2. /\ queue # <<>> /\ queue' = Tail(queue) /\ Head(queue).do \in {"written", "failed"}
      /\ outcome' = [outcome EXCEPT ![r] = "written"] /\ addRoute(r)
      /\ UNCHANGED <<seq, message, sending, written, heard>>
  BY <1>1 DEF writeComplete
<1>3. /\ r \in Handled \cap written /\ outcome[r] = "none" /\ Passed(r)
      /\ \A q \in Requests : outcome'[q] = IF q = r THEN "written" ELSE outcome[q]
  <2>1. "written" \in {"written", "failed"}
    OBVIOUS
  <2> QED BY <1>1, <1>2, <2>1, ToldPlaces
<1>4. /\ r \in Requests /\ Kind[r] \in Counters /\ StateOf(r) = "written"
      /\ heard[r] = <<>> /\ r \notin refused
  BY <1>0, <1>3 DEF StateOf, Handled, RoutesInv
<1>5. UNCHANGED Replies
  BY <1>2, SameReplies
<1>6. CASE refused' = refused
  <2>1. StateOf(r)' = "waiting"
    BY <1>2, <1>3, <1>4, <1>6 DEF StateOf
  <2>2. \A q \in Requests : q # r => StateOf(q)' = StateOf(q)
    BY <1>2, <1>3, <1>6 DEF StateOf
  <2>3. R!Move(r, "written", "waiting")
    BY <1>4, <2>1, <2>2, Moves
  <2> QED BY <1>4, <1>5, <2>3 DEF R!Next, R!Conclude, R!Wait, Replies
<1>7. CASE refused' = refused \cup {r} /\ ~canAdd(Route(r))
  <2>1. StateOf(r)' = "refused"
    BY <1>2, <1>3, <1>4, <1>7 DEF StateOf
  <2>2. \A q \in Requests : q # r => StateOf(q)' = StateOf(q)
    BY <1>2, <1>3, <1>7 DEF StateOf
  <2>3. R!Move(r, "written", "refused")
    BY <1>4, <2>1, <2>2, Moves
  <2>4. PICK listed \in routes : SameKey(listed, Route(r))
    BY <1>7 DEF canAdd
  <2>5. PICK q \in Requests : /\ q = listed.request /\ listed = Route(q)
                              /\ outcome[q] = "written" /\ heard[q] = <<>> /\ q \notin refused
    BY <1>0, <2>4 DEF RoutesInv
  <2>6. StateOf(q) = "waiting" /\ Passed(q) /\ q \in Handled
    BY <1>0, <2>5 DEF StateOf, PlacesInv, Passed
  <2>7. SharesNumber(q, r)
    <3>1. message[q].seq = message[r].seq /\ q # r
      BY <1>3, <2>4, <2>5 DEF SameKey, Route
    <3> QED BY <3>1, <1>0, <1>3, <1>4, <2>5, <2>6, OfOneNumber
  <2>8. States[q] = "waiting"
    BY <2>5, <2>6 DEF States
  <2> QED BY <1>4, <1>5, <2>3, <2>5, <2>7, <2>8 DEF R!Next, R!Conclude, R!Refuse, Replies, States
<1> QED BY <1>2, <1>6, <1>7 DEF addRoute

\* What is posted was sent by one request, and is given to those that wait for its number.
LEMMA HandleReadMaps ==
    ASSUME IInv, KeysInv, ReadsInv, handleRead
    PROVE  R!Next \/ UNCHANGED R!requestsVars
<1>0. /\ TypeOK /\ Typed /\ PlacesInv /\ NumbersInv /\ RoutesInv /\ WireInv
      /\ UNCHANGED <<message, written, outcome, refused>>
      /\ queue # <<>> /\ Head(queue).do = "read"
  BY DEF IInv, handleRead
<1>1. PICK bytes : bytes = Head(queue).bytes
  OBVIOUS
<1>2. bytes \in Strays \/ Replied(bytes)
  <2>1. queue \in Seq(Tasks)
    BY <1>0 DEF Typed
  <2>2. Head(queue) = queue[1] /\ 1 \in 1..Len(queue)
    BY <2>1, <1>0, HeadTailProperties, EmptySeq
  <2>3. PICK task : task = queue[1]
    OBVIOUS
  <2>4. task.do = "read" /\ task.bytes = bytes
    BY <1>0, <1>1, <2>2, <2>3
  <2> QED BY <2>2, <2>3, <2>4 DEF ReadsInv
<1>3. CASE \A p \in Requests : heard'[p] = heard[p]
  BY <1>0, <1>3, Stays
<1>4. ASSUME NEW m \in decode(bytes), postEvent(m), NEW p \in Requests, heard'[p] # heard[p]
      PROVE  R!Next
  <2>1. PICK route \in routes : match(route, m)
    BY <1>4 DEF postEvent
  <2>2. PICK r \in Requests : /\ r = route.request /\ route = Route(r)
                              /\ outcome[r] = "written" /\ heard[r] = <<>> /\ r \notin refused
    BY <1>0 DEF RoutesInv
  <2>3. Passed(r) /\ r \in Handled /\ r \in written
    BY <1>0, <2>2 DEF PlacesInv, Passed
  <2>4. \A other \in routes : match(other, m) => other = route
    BY <2>1 DEF match, KeysInv, SameKey
  <2>5. /\ heard'[r] = Append(heard[r], m)
        /\ \A o \in Requests : o # r => heard'[o] = heard[o]
    <3>1. \A o \in Requests :
             heard'[o] = IF \E other \in routes : other.request = o /\ match(other, m)
                         THEN Append(heard[o], m) ELSE heard[o]
      BY <1>4 DEF postEvent
    <3>2. \A o \in Requests :
             (\E other \in routes : other.request = o /\ match(other, m)) <=> o = r
      BY <2>1, <2>2, <2>4
    <3> QED BY <3>1, <3>2
  <2>6. message[r].mid = messageId
    BY <1>0, MessageIs, NumberOf
  <2>7. m.mid = messageId /\ m.seq = message[r].seq
    BY <2>1, <2>2, <2>6 DEF match, Route
  <2>8. bytes \notin Strays
    BY <1>4, <2>7, ReplyAssumption
  <2>9. PICK q \in Requests : wire[q] # <<>> /\ bytes = wire[q]
    BY <1>2, <2>8 DEF Replied
  <2>10. Passed(q) /\ q \in Handled /\ q \in written
    BY <1>0, <2>9 DEF WireInv, Passed
  <2>11. Framed(wire[q])
    BY <1>4, <2>9 DEF decode
  <2>12. PICK told : TellsOf(wire[q], q, told)
    BY <2>11, AnswerTold
  <2>13. match(Route(q), m) /\ m.age = Age[q]
    BY <1>4, <2>9, <2>12, ReplyAssumption DEF TellsOf
  <2>14. q = r \/ SharesNumber(q, r)
    <3>1. message[q].seq = message[r].seq
      BY <2>7, <2>13 DEF match, Route
    <3> QED BY <3>1, <1>0, <2>3, <2>10, OfOneNumber
  <2>15. R!Move(r, "waiting", "answered")
    <3>1. StateOf(r) = "waiting"
      BY <2>2, <2>3 DEF StateOf
    <3>2. heard'[r] # <<>>
      BY <2>2, <2>5
    <3>3. StateOf(r)' = "answered"
      BY <1>0, <2>2, <2>3, <3>2 DEF StateOf
    <3>4. \A o \in Requests : o # r => StateOf(o)' = StateOf(o)
      BY <1>0, <2>5 DEF StateOf
    <3> QED BY <3>1, <3>3, <3>4, Moves
  <2>16. Replies' = [Replies EXCEPT ![r] = Append(@, Age[q])]
    <3>1. heard'[r] = <<m>>
      BY <2>2, <2>5
    <3>2. RepliesTo(r)' = <<Age[q]>>
      BY <3>1, <2>13 DEF RepliesTo
    <3>3. RepliesTo(r) = <<>>
      BY <2>2 DEF RepliesTo
    <3>4. \A o \in Requests : o # r => RepliesTo(o)' = RepliesTo(o)
      BY <2>5 DEF RepliesTo
    <3>5. Replies[r] = <<>>
      BY <3>3 DEF Replies
    <3>6. Replies' = [Replies EXCEPT ![r] = <<Age[q]>>]
      BY <3>2, <3>4 DEF Replies
    <3>7. Append(Replies[r], Age[q]) = <<Age[q]>>
      BY <3>5
    <3> QED BY <3>6, <3>7
  <2>17. States[q] # "idle"
    BY <1>0, <2>10 DEF TypeOK, States, StateOf
  <2> QED BY <2>14, <2>15, <2>16, <2>17 DEF R!Next, R!Answer, Replies, States
<1> QED BY <1>1, <1>3, <1>4 DEF handleRead

LEMMA StepMaps ==
    ASSUME IInv, KeysInv, ReadsInv, [Next]_vars
    PROVE  [R!Next]_(R!requestsVars)
<1>1. ASSUME NEW r \in Requests, leave(r) \/ sendEnds(r)
      PROVE  UNCHANGED R!requestsVars
  BY <1>1, Stays DEF leave, sendEnds
<1>2. ASSUME NEW bytes \in Answers \cup Strays, receive(bytes)
      PROVE  UNCHANGED R!requestsVars
  BY <1>2, Stays DEF receive
<1>3. CASE handleWrite
  BY <1>3, Stays DEF handleWrite
<1>4. CASE UNCHANGED vars
  BY <1>4, Stays DEF vars
<1> QED BY <1>1, <1>2, <1>3, <1>4, WriteMaps, WriteErrorMaps, WriteCompleteMaps, HandleReadMaps
        DEF Next, IoServes

(***************************************************************************)
(* RequestsSpec: RequestResponse implements Requests. However the network  *)
(* loses, repeats and reorders datagrams, a request goes from idle over    *)
(* written to failed, refused, or waiting and then answered, as written(), *)
(* the error listener and TemporaryRouter::post of the example do it; its  *)
(* callback is given one reply, that of the request itself or of one of    *)
(* the same number, and its route is refused for one of the same number    *)
(* only.                                                                   *)
(***************************************************************************)
THEOREM ImplementsRequests == Spec => RequestsSpec
<1>1. Init => KeysInv /\ ReadsInv
  <2> SUFFICES ASSUME Init PROVE KeysInv /\ ReadsInv
    OBVIOUS
  <2>1. KeysInv
    BY DEF Init, KeysInv
  <2>2. ASSUME NEW i \in 1..Len(queue) PROVE queue[i].do # "read"
    <3>1. CASE queue = <<>>
      BY <3>1, EmptySeq
    <3>2. CASE queue = <<Task("active", 0, <<>>)>>
      <4>1. PICK task : task = Task("active", 0, <<>>)
        OBVIOUS
      <4>2. task.do = "active"
        BY <4>1 DEF Task
      <4>3. queue[i] = task
        BY <3>2, <4>1
      <4> QED BY <4>2, <4>3
    <3> QED BY <3>1, <3>2 DEF Init
  <2> QED BY <2>1, <2>2 DEF ReadsInv
<1>2. IInv /\ KeysInv /\ ReadsInv /\ [Next]_vars => KeysInv' /\ ReadsInv'
  BY KeysStay, ReadsStay
<1>3. Init => R!Init
  BY InitialRequests
<1>4. IInv /\ KeysInv /\ ReadsInv /\ [Next]_vars => [R!Next]_(R!requestsVars)
  BY StepMaps
<1> QED BY <1>1, <1>2, <1>3, <1>4, InductiveInvariant, PTL DEF Spec, RequestsSpec, R!Spec

==============================================================================
