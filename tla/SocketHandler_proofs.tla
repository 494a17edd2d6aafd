------------------------- MODULE SocketHandler_proofs -------------------------
(***************************************************************************)
(* Proofs about SocketHandler: its safety properties, for any number of    *)
(* threads and calls, for both protocols.                                  *)
(*                                                                         *)
(* The futures of the calls are handed from thread to queue to operation.  *)
(* The inductive invariant says which call's future may be where (Fits),   *)
(* that, unless connects overlapped, one place at most works on a connect  *)
(* (OneConnect), and, for a handler used by its own thread alone, that     *)
(* what was loaded of the state is still true when it is stored. At the    *)
(* end, that a future is in one of these places at a time (OnceInv).       *)
(***************************************************************************)
EXTENDS SocketHandler, FiniteSetTheorems, SequenceTheorems, TLAPS

\* The calls whose future an operation, a task or a completion may carry.
Fits(kind, f) ==
    IF kind = "closeTask"
    THEN f = CloseFuture \/ (f \in 1..calls /\ method[f] = "disconnect")
    ELSE f \in 1..calls /\ method[f] = IF kind \in {"read", "write"} THEN kind ELSE "connect"

PendingFits ==
    /\ IsFiniteSet(pending)
    /\ \A op \in pending : op.kind \notin {"connectTask", "closeTask"} /\ Fits(op.kind, op.future)

QueueFits == \A i \in 1..Len(ioQueue) : Fits(ioQueue[i].kind, ioQueue[i].future)

\* What the targets of setConnectivityState are, and whose future goes with them.
JobFits(t) ==
    LET do == job[t]
    IN  /\ pc[t] = "checked" => Fits("connect", do.future)
        /\ pc[t] = "start" => do.kind \in {"read", "write"} /\ Fits(do.kind, do.future)
        /\ pc[t] = "store" =>
              \/ do.next = "asyncConnect" /\ do.target = "Connecting" /\ Fits("connect", do.future)
              \/ do.next = "finish" /\ do.target = "Ready" /\ Fits("connect", do.future)
              \/ /\ do.next = "fail" /\ do.target = "TransitentFailure"
                 /\ \E kind \in {"connect", "read", "write"} : Fits(kind, do.future)
              \/ /\ do.next = "postClose" /\ do.target \in {"TransitentFailure", "Shutdown"}
                 /\ Fits("closeTask", do.future)

\* Nothing was done yet about the calls to come.
ToCome ==
    /\ \A f \in Futures : f > calls => future[f] = "unused" /\ went[f] = 0
    /\ method[CloseFuture] = "close"

HandlingInv ==
    /\ PendingFits /\ QueueFits
    /\ \A t \in Threads : JobFits(t)
    /\ ToCome

\* Where a connect may be under way.
ConnectOps == {op \in pending : op.kind \in {"resolve", "connect"}}
ConnectItems ==
    {i \in 1..Len(ioQueue) : ioQueue[i].kind \in {"connectTask", "resolve", "connect"}}
ConnectThreads ==
    {t \in Threads : \/ pc[t] = "checked"
                     \/ pc[t] = "store" /\ method[job[t].future] = "connect"}

\* The connect under way is not answered yet, and a list that is there is not of
\* a later one.
UnderWay(f) == method[f] = "connect" /\ future[f] = "pending" /\ endpoints <= f

OneConnect ==
    /\ \A op1, op2 \in ConnectOps : op1 = op2
    /\ \A i, j \in ConnectItems : i = j
    /\ \A t, u \in ConnectThreads : t = u
    /\ ConnectOps = {} \/ ConnectItems = {}
    /\ ConnectThreads = {} \/ (ConnectOps = {} /\ ConnectItems = {})
    /\ \A op \in ConnectOps : UnderWay(op.future)
    /\ \A i \in ConnectItems : UnderWay(ioQueue[i].future)
    /\ \A t \in ConnectThreads : UnderWay(job[t].future)

\* An endpoint is resolved for want of a list only, and a connection that was made
\* stays or is closed, until its completion is handled.
ResolveInv ==
    /\ \A op \in pending : op.kind = "resolve" => endpoints = 0
    /\ \A i \in 1..Len(ioQueue) :
          /\ ioQueue[i].kind = "resolve" => endpoints = 0
          /\ ioQueue[i].kind = "connect" /\ ioQueue[i].ok => socket # "open"

DestinationInv ==
    /\ endpoints <= calls
    /\ ~overlapped => OneConnect /\ ResolveInv
    /\ OneDestination

\* A handler used by the io thread alone.
AloneInv ==
    /\ \A t \in Users : pc[t] = "idle"
    /\ \A i \in 1..Len(ioQueue) : ioQueue[i].kind \notin {"connectTask", "closeTask"}
    /\ pc[Io] = "store" => (job[Io].store <=> connState # "Shutdown")
    /\ connState = "Ready" \/ (pc[Io] = "store" /\ job[Io].next = "finish") =>
          socket # "closed" /\ (~overlapped => socket = "connected")

IInv ==
    /\ TypeOK /\ NoLostFuture
    /\ HandlingInv
    /\ DestinationInv
    /\ alone => AloneInv

------------------------------------------------------------------------------
\* The sequences of a finite set list each of its elements once.
LEMMA ListsAll ==
    ASSUME NEW S, IsFiniteSet(S), NEW s \in SetToSeqs(S)
    PROVE  /\ s \in Seq(S)
           /\ \A x \in S : \E i \in 1..Len(s) : s[i] = x
           /\ \A i, j \in 1..Len(s) : s[i] = s[j] => i = j
<1> DEFINE n == Cardinality(S)
<1>1. n \in Nat
  BY FS_CardinalityType
<1>2. s \in [1..n -> S] /\ \A i, j \in 1..n : i # j => s[i] # s[j]
  BY DEF SetToSeqs
<1>3. s \in Injection(1..n, S)
  BY <1>2 DEF Injection, IsInjective
<1>4. Cardinality(1..n) = n
  BY <1>1, FS_Interval
<1>5. s \in Surjection(1..n, S)
  BY <1>3, <1>4, FS_Injection
<1>6. Len(s) = n /\ s \in Seq(S)
  BY <1>1, <1>2
<1> QED BY <1>2, <1>5, <1>6 DEF Surjection

\* What basic_socket::close appends to the queue: the completions of the operations
\* on the socket, each once.
LEMMA Aborted ==
    ASSUME TypeOK, IsFiniteSet(pending), NEW queue \in Seq(Items), AbortOperations(queue)
    PROVE  /\ ioQueue' \in Seq(Items)
           /\ \A i \in 1..Len(queue) : i \in 1..Len(ioQueue') /\ ioQueue'[i] = queue[i]
           /\ \A i \in 1..Len(ioQueue') :
                 \/ i \in 1..Len(queue) /\ ioQueue'[i] = queue[i]
                 \/ \E op \in OnSocket : /\ ioQueue'[i].kind = op.kind /\ ioQueue'[i].ok = FALSE
                                         /\ ioQueue'[i].future = op.future
           /\ \A op \in OnSocket : \E i \in 1..Len(ioQueue') \ 1..Len(queue) :
                 ioQueue'[i] = Item(op.kind, op.future, FALSE) /\ ioQueue'[i].future = op.future
           /\ \A i, j \in 1..Len(ioQueue') \ 1..Len(queue) : ioQueue'[i] = ioQueue'[j] => i = j
<1> DEFINE S == {Item(op.kind, op.future, FALSE) : op \in OnSocket}
<1>1. IsFiniteSet(OnSocket)
  BY FS_Subset DEF OnSocket
<1>2. IsFiniteSet(S)
  <2> DEFINE f == [op \in OnSocket |-> Item(op.kind, op.future, FALSE)]
  <2>1. f \in [OnSocket -> S] /\ \A x \in S : \E op \in OnSocket : f[op] = x
    OBVIOUS
  <2>2. f \in Surjection(OnSocket, S)
    BY <2>1 DEF Surjection
  <2> QED BY <1>1, <2>2, FS_Surjection
<1>3. S \subseteq Items
  <2>1. \A op \in OnSocket : op.kind \in Kinds /\ op.future \in Futures
    BY DEF TypeOK, OnSocket, Operations
  <2>2. \A op \in OnSocket : Item(op.kind, op.future, FALSE) \in Items
    BY <2>1 DEF Items, Item
  <2> QED BY <2>2
<1>4. PICK s \in SetToSeqs(S) : ioQueue' = queue \o s
  BY DEF AbortOperations
<1> HIDE DEF S
<1>5. /\ s \in Seq(S)
      /\ \A x \in S : \E i \in 1..Len(s) : s[i] = x
      /\ \A i, j \in 1..Len(s) : s[i] = s[j] => i = j
  BY <1>2, ListsAll
<1>6. s \in Seq(Items)
  BY <1>3, <1>5, SeqMonotonic
<1>7. /\ ioQueue' \in Seq(Items)
      /\ Len(ioQueue') = Len(queue) + Len(s)
      /\ \A i \in 1..Len(queue) + Len(s) :
            ioQueue'[i] = IF i <= Len(queue) THEN queue[i] ELSE s[i - Len(queue)]
  BY <1>4, <1>6, ConcatProperties
<1>8. Len(queue) \in Nat /\ Len(s) \in Nat
  BY <1>6
<1>9. /\ \A i \in 1..Len(queue) : i \in 1..Len(ioQueue') /\ ioQueue'[i] = queue[i]
      /\ \A k \in 1..Len(s) : /\ Len(queue) + k \in 1..Len(ioQueue')
                              /\ Len(queue) + k > Len(queue)
                              /\ ioQueue'[Len(queue) + k] = s[k]
      /\ \A i \in 1..Len(ioQueue') : i > Len(queue) => \E k \in 1..Len(s) : i = Len(queue) + k
  <2>1. \A i \in 1..Len(ioQueue') : i > Len(queue) =>
           i - Len(queue) \in 1..Len(s) /\ i = Len(queue) + (i - Len(queue))
    BY <1>7, <1>8
  <2>2. \A k \in 1..Len(s) : /\ Len(queue) + k \in 1..Len(queue) + Len(s)
                             /\ Len(queue) + k > Len(queue)
                             /\ (Len(queue) + k) - Len(queue) = k
    BY <1>8
  <2>3. \A k \in 1..Len(s) : ioQueue'[Len(queue) + k] = s[k]
    BY <1>7, <1>8, <2>2
  <2> QED BY <1>7, <1>8, <2>1, <2>2, <2>3
<1>10. \A i \in 1..Len(ioQueue') : i > Len(queue) =>
         \E op \in OnSocket : ioQueue'[i] = Item(op.kind, op.future, FALSE)
  <2>1. \A k \in 1..Len(s) : s[k] \in S
    BY <1>5
  <2>2. \A x \in S : \E op \in OnSocket : x = Item(op.kind, op.future, FALSE)
    BY DEF S
  <2> QED BY <2>1, <2>2, <1>9
<1>11. \A op \in OnSocket : \E i \in 1..Len(ioQueue') :
         i > Len(queue) /\ ioQueue'[i] = Item(op.kind, op.future, FALSE)
  <2>1. \A op \in OnSocket : \E k \in 1..Len(s) : s[k] = Item(op.kind, op.future, FALSE)
    BY <1>5 DEF S
  <2> QED BY <2>1, <1>9
<1>12. \A i, j \in 1..Len(ioQueue') :
         i > Len(queue) /\ j > Len(queue) /\ ioQueue'[i] = ioQueue'[j] => i = j
  <2> TAKE i, j \in 1..Len(ioQueue')
  <2> HAVE i > Len(queue) /\ j > Len(queue) /\ ioQueue'[i] = ioQueue'[j]
  <2>1. PICK k \in 1..Len(s), m \in 1..Len(s) : i = Len(queue) + k /\ j = Len(queue) + m
    BY <1>9
  <2>2. s[k] = s[m]
    BY <2>1, <1>9
  <2> QED BY <2>1, <2>2, <1>5
<1>13. \A i \in 1..Len(ioQueue') : i > Len(queue) <=> i \notin 1..Len(queue)
  BY <1>7, <1>8
<1>15. \A i \in 1..Len(ioQueue') :
         \/ i \in 1..Len(queue) /\ ioQueue'[i] = queue[i]
         \/ \E op \in OnSocket : /\ ioQueue'[i].kind = op.kind /\ ioQueue'[i].ok = FALSE
                                 /\ ioQueue'[i].future = op.future
  <2> TAKE i \in 1..Len(ioQueue')
  <2>1. CASE i \in 1..Len(queue)
    BY <2>1, <1>9
  <2>2. CASE i \notin 1..Len(queue)
    <3>1. PICK op \in OnSocket : ioQueue'[i] = Item(op.kind, op.future, FALSE)
      BY <2>2, <1>10, <1>13
    <3> QED BY <3>1 DEF Item
  <2> QED BY <2>1, <2>2
<1>16. \A op \in OnSocket : \E i \in 1..Len(ioQueue') \ 1..Len(queue) :
         ioQueue'[i] = Item(op.kind, op.future, FALSE) /\ ioQueue'[i].future = op.future
  <2> TAKE op \in OnSocket
  <2>1. PICK i \in 1..Len(ioQueue') : i > Len(queue) /\ ioQueue'[i] = Item(op.kind, op.future, FALSE)
    BY <1>11
  <2>2. i \in 1..Len(ioQueue') \ 1..Len(queue) /\ ioQueue'[i].future = op.future
    BY <2>1, <1>13 DEF Item
  <2> QED BY <2>1, <2>2
<1>17. \A i, j \in 1..Len(ioQueue') \ 1..Len(queue) : ioQueue'[i] = ioQueue'[j] => i = j
  BY <1>12, <1>13
<1> QED BY <1>7, <1>9, <1>15, <1>16, <1>17

\* The rest of the queue.
LEMMA Dequeued ==
    ASSUME TypeOK, ioQueue # <<>>
    PROVE  /\ Next1 \in Items /\ Next1 = ioQueue[1]
           /\ Rest \in Seq(Items) /\ Len(ioQueue) \in Nat \ {0} /\ Len(Rest) = Len(ioQueue) - 1
           /\ \A i \in 1..Len(Rest) : Rest[i] = ioQueue[i + 1]
BY HeadTailProperties, EmptySeq DEF TypeOK, Next1, Rest

------------------------------------------------------------------------------
LEMMA Initially == Init => IInv
<1> SUFFICES ASSUME Init PROVE IInv
  OBVIOUS
<1> USE SocketAssumption
<1>1. TypeOK
  <2>1. CloseFuture \in Futures /\ 0 \in 0..MaxCalls
    BY DEF Futures, CloseFuture
  <2>2. NoJob \in Jobs
    BY <2>1 DEF NoJob, Jobs, States, Kinds
  <2>3. ioQueue \in Seq(Items)
    BY DEF Init
  <2>4. future \in [Futures -> {"unused", "pending", "finished", "failed"}]
    BY DEF Init
  <2> QED BY <2>1, <2>2, <2>3, <2>4 DEF Init, TypeOK, States, Methods, CloseFuture
<1>2. NoLostFuture /\ OneDestination
  BY DEF Init, NoLostFuture, OneDestination
<1>3. HandlingInv
  BY FS_EmptySet DEF Init, HandlingInv, PendingFits, QueueFits, JobFits, ToCome, CloseFuture, Futures
<1>4. OneConnect /\ ResolveInv
  BY DEF Init, OneConnect, ResolveInv, ConnectOps, ConnectItems, ConnectThreads
<1>5. AloneInv
  BY DEF Init, AloneInv, Threads
<1> QED BY <1>1, <1>2, <1>3, <1>4, <1>5 DEF IInv, DestinationInv, Init

\* A new call takes the next number, and leaves the earlier calls what they were.
LEMMA Numbered ==
    ASSUME IInv, NEW t \in Threads, NEW m \in Methods, NewCall(t, m)
    PROVE  /\ calls \in Nat /\ calls + 1 \in Futures /\ calls + 1 # CloseFuture
           /\ calls' = calls + 1 /\ calls' \in 0..MaxCalls
           /\ method' \in [Futures -> Methods] /\ method'[calls + 1] = m
           /\ \A f \in Futures : f # calls + 1 => method'[f] = method[f]
           /\ 1..calls \subseteq Futures /\ calls + 1 \notin 1..calls
           /\ 1..calls' = 1..calls \cup {calls + 1}
           /\ future[calls + 1] = "unused" /\ went[calls + 1] = 0
BY SocketAssumption DEF IInv, TypeOK, NewCall, Futures, CloseFuture, HandlingInv, ToCome

\* The load of setConnectivityState.
LEMMA Loaded ==
    ASSUME TypeOK, NEW t \in Threads, NEW target \in States, NEW f \in Futures,
           NEW next \in {"asyncConnect", "finish", "fail", "postClose"},
           setConnectivityState(t, target, next, f)
    PROVE  /\ pc'[t] = "store" /\ job'[t] \in Jobs
           /\ job'[t].target = target /\ job'[t].next = next /\ job'[t].future = f
           /\ job'[t].store <=> connState # "Shutdown"
           /\ pc' = [pc EXCEPT ![t] = pc'[t]] /\ job' = [job EXCEPT ![t] = job'[t]]
           /\ pc' \in [Threads -> {"idle", "checked", "store", "start"}]
           /\ job' \in [Threads -> Jobs]
           /\ \A u \in Threads : u # t => pc'[u] = pc[u] /\ job'[u] = job[u]
<1> DEFINE do == [next |-> next, target |-> target, kind |-> "read",
                  future |-> f, store |-> connState # "Shutdown"]
<1>1. pc' = [pc EXCEPT ![t] = "store"] /\ job' = [job EXCEPT ![t] = do]
  BY DEF setConnectivityState
<1>2. do \in Jobs
  BY DEF Jobs, Kinds
<1> HIDE DEF do
<1>3. job'[t] = do /\ pc'[t] = "store"
  BY <1>1 DEF TypeOK
<1>4. /\ do.target = target /\ do.next = next /\ do.future = f
      /\ do.store <=> connState # "Shutdown"
  BY DEF do
<1> QED BY <1>1, <1>2, <1>3, <1>4 DEF TypeOK

LEMMA StillFits ==
    ASSUME IInv, NEW t \in Threads, NEW m \in Methods, NewCall(t, m)
    PROVE  /\ \A kind, f : Fits(kind, f) => Fits(kind, f)'
           /\ PendingFits' /\ QueueFits'
           /\ \A u \in Threads : pc'[u] = pc[u] /\ job'[u] = job[u] => JobFits(u)'
<1>1. \A f \in 1..calls : f \in 1..calls' /\ method'[f] = method[f]
  BY Numbered
<1>2. \A kind, f : Fits(kind, f) => Fits(kind, f)'
  BY <1>1 DEF Fits
<1>3. PendingFits' /\ QueueFits'
  BY <1>2 DEF IInv, HandlingInv, PendingFits, QueueFits, NewCall
<1>4. ASSUME NEW u \in Threads, pc'[u] = pc[u], job'[u] = job[u]
      PROVE  JobFits(u)'
  BY <1>2, <1>4 DEF IInv, HandlingInv, JobFits
<1> QED BY <1>2, <1>3, <1>4

\* A call that is refused, or that goes on with the future it was given, keeps the
\* invariant: what it goes on with fits it, a connect goes on unoverlapped when no
\* other was under way, and the io thread remembers the state it loaded.
LEMMA CallStep ==
    ASSUME IInv, NEW t \in Threads, NEW m \in Methods, NewCall(t, m),
           pc'[t] \in {"idle", "checked", "store", "start"}, job'[t] \in Jobs,
           future'[calls + 1] \in {"unused", "pending", "failed"},
           pc' = [pc EXCEPT ![t] = pc'[t]], job' = [job EXCEPT ![t] = job'[t]],
           future' = [future EXCEPT ![calls + 1] = future'[calls + 1]],
           future'[calls + 1] = "pending" => pc'[t] # "idle" /\ job'[t].future = calls + 1,
           JobFits(t)',
           overlapped' \in BOOLEAN, overlapped => overlapped',
           t \in ConnectThreads' => /\ m = "connect" /\ job'[t].future = calls + 1
                                    /\ future'[calls + 1] = "pending"
                                    /\ ~overlapped' => Connects = {},
           pc'[t] = "store" =>
               (job'[t].store <=> connState # "Shutdown") /\ job'[t].next # "finish"
    PROVE  IInv'
<1> DEFINE f == calls + 1
<1> USE SocketAssumption
<1>0. TypeOK /\ HandlingInv /\ DestinationInv /\ NoLostFuture /\ pc[t] = "idle"
  BY DEF IInv, NewCall
<1>1. UNCHANGED <<protocol, endpoints, connState, socket, pending, ioQueue, forgotten, went>>
  BY DEF NewCall
<1>2. /\ calls \in Nat /\ f \in Futures /\ f # CloseFuture
      /\ calls' = f /\ calls' \in 0..MaxCalls
      /\ method' \in [Futures -> Methods] /\ method'[f] = m
      /\ \A g \in Futures : g # f => method'[g] = method[g]
      /\ 1..calls \subseteq Futures /\ f \notin 1..calls
      /\ 1..calls' = 1..calls \cup {f}
      /\ future[f] = "unused" /\ went[f] = 0
  BY Numbered
<1>3. /\ future' \in [Futures -> {"unused", "pending", "finished", "failed"}]
      /\ \A g \in Futures : g # f => future'[g] = future[g]
  BY <1>0, <1>2 DEF TypeOK
<1>4. /\ pc' \in [Threads -> {"idle", "checked", "store", "start"}] /\ job' \in [Threads -> Jobs]
      /\ \A u \in Threads : u # t => pc'[u] = pc[u] /\ job'[u] = job[u]
  BY <1>0 DEF TypeOK
<1>5. TypeOK'
  <2>1. alone' \in BOOLEAN
    BY <1>0 DEF NewCall, TypeOK
  <2> QED BY <1>0, <1>1, <1>2, <1>3, <1>4, <2>1 DEF TypeOK
<1>6. HandlingInv'
  <2>1. PendingFits' /\ QueueFits' /\ \A u \in Threads : JobFits(u)'
    BY <1>4, StillFits
  <2>2. ToCome'
    <3> SUFFICES ASSUME NEW g \in Futures, g > f
                 PROVE  future'[g] = "unused" /\ went'[g] = 0
      BY <1>0, <1>2 DEF ToCome, HandlingInv, CloseFuture, Futures
    <3> QED BY <1>0, <1>1, <1>2, <1>3 DEF ToCome, HandlingInv, Futures
  <2> QED BY <2>1, <2>2 DEF HandlingInv
<1>7. NoLostFuture'
  <2> SUFFICES ASSUME NEW g \in 1..calls', future'[g] = "pending"
               PROVE  Carried(g)' \/ (g \in forgotten' /\ method'[g] = "disconnect")
    BY DEF NoLostFuture
  <2>1. CASE g = f
    BY <2>1, <1>3, <1>4 DEF Carried
  <2>2. CASE g # f
    <3>1. g \in 1..calls /\ future[g] = "pending" /\ method'[g] = method[g]
      BY <2>2, <1>2, <1>3
    <3>2. Carried(g) \/ (g \in forgotten /\ method[g] = "disconnect")
      BY <3>1, <1>0 DEF NoLostFuture
    <3>3. Carried(g) => Carried(g)'
      BY <1>0, <1>1, <1>4 DEF Carried
    <3> QED BY <3>1, <3>2, <3>3, <1>1
  <2> QED BY <2>1, <2>2
<1>8. DestinationInv'
  <2>1. endpoints \in Nat /\ endpoints <= calls /\ endpoints' <= calls' /\ endpoints <= f
    BY <1>0, <1>1, <1>2 DEF DestinationInv, TypeOK, Futures
  <2>2. OneDestination'
    BY <1>0, <1>1, <1>2 DEF DestinationInv, OneDestination
  <2>3. ASSUME ~overlapped' PROVE OneConnect' /\ ResolveInv'
    <3>0. OneConnect /\ ResolveInv
      BY <1>0, <2>3 DEF DestinationInv
    <3>1. ResolveInv' /\ ConnectOps' = ConnectOps /\ ConnectItems' = ConnectItems
      BY <1>1, <3>0 DEF ResolveInv, ConnectOps, ConnectItems
    <3>2. \A u \in Threads : u # t => (u \in ConnectThreads' <=> u \in ConnectThreads)
      <4> SUFFICES ASSUME NEW u \in Threads, u # t, pc[u] = "store"
                   PROVE  method'[job[u].future] = method[job[u].future]
        BY <1>4 DEF ConnectThreads
      <4>1. job[u].future = CloseFuture \/ job[u].future \in 1..calls
        BY <1>0 DEF HandlingInv, JobFits, Fits
      <4> QED BY <4>1, <1>2 DEF Futures, CloseFuture
    <3>3. t \notin ConnectThreads
      BY <1>0 DEF ConnectThreads
    <3>4. /\ \A op \in ConnectOps : op.future \in Connects \ {f}
          /\ \A i \in ConnectItems : ioQueue[i].future \in Connects \ {f}
          /\ \A u \in ConnectThreads : job[u].future \in Connects \ {f}
      <4>1. \A g \in 1..calls : method[g] = "connect" /\ future[g] = "pending" => g \in Connects \ {f}
        BY <1>2 DEF Connects
      <4>2. \A op \in ConnectOps : Fits("connect", op.future) /\ future[op.future] = "pending"
        BY <1>0, <3>0 DEF HandlingInv, PendingFits, ConnectOps, OneConnect, UnderWay, Fits
      <4>3. \A i \in ConnectItems : Fits("connect", ioQueue[i].future) /\ future[ioQueue[i].future] = "pending"
        BY <1>0, <3>0 DEF HandlingInv, QueueFits, ConnectItems, OneConnect, UnderWay, Fits
      <4>4. \A u \in ConnectThreads : Fits("connect", job[u].future) /\ future[job[u].future] = "pending"
        <5> TAKE u \in ConnectThreads
        <5>1. u \in Threads /\ JobFits(u) /\ future[job[u].future] = "pending"
          BY <1>0, <3>0 DEF HandlingInv, ConnectThreads, OneConnect, UnderWay
        <5>2. pc[u] = "checked" \/ (pc[u] = "store" /\ method[job[u].future] = "connect")
          BY DEF ConnectThreads
        <5>3. job[u].future # CloseFuture \/ pc[u] = "checked"
          BY <1>0, <5>2 DEF HandlingInv, ToCome
        <5> QED BY <5>1, <5>2, <5>3 DEF JobFits, Fits
      <4> QED BY <4>1, <4>2, <4>3, <4>4 DEF Fits
    <3>5. CASE t \in ConnectThreads'
      <4>1. ConnectOps = {} /\ ConnectItems = {} /\ ConnectThreads = {}
        BY <2>3, <3>4, <3>5
      <4>2. UnderWay(job[t].future)'
        BY <2>1, <3>5, <1>1, <1>2, <1>3, <1>4 DEF UnderWay
      <4> QED BY <3>1, <3>2, <4>1, <4>2 DEF OneConnect, ConnectThreads
    <3>6. CASE t \notin ConnectThreads'
      <4>1. ConnectThreads' = ConnectThreads
        BY <3>2, <3>3, <3>6 DEF ConnectThreads
      <4>2. \A g \in Connects \ {f} : UnderWay(g) => UnderWay(g)'
        BY <1>1, <1>2, <1>3 DEF UnderWay, Connects
      <4>3. \A u \in ConnectThreads : job'[u] = job[u]
        BY <1>4, <3>3 DEF ConnectThreads
      <4> QED BY <3>0, <3>1, <3>4, <4>1, <4>2, <4>3, <1>1 DEF OneConnect
    <3> QED BY <3>5, <3>6
  <2> QED BY <2>1, <2>2, <2>3 DEF DestinationInv
<1>9. ASSUME alone' PROVE AloneInv'
  <2>1. alone /\ t = Io
    BY <1>9 DEF NewCall
  <2>2. AloneInv
    BY <2>1 DEF IInv
  <2> QED BY <2>1, <2>2, <1>0, <1>1, <1>4 DEF AloneInv, Threads
<1> QED BY <1>5, <1>6, <1>7, <1>8, <1>9 DEF IInv

------------------------------------------------------------------------------
\* connect() refused, or past its first test.
LEMMA ConnectStep ==
    ASSUME IInv, NEW t \in Threads, connect(t)
    PROVE  IInv'
<1> DEFINE f == calls + 1
<1>0. TypeOK /\ pc[t] = "idle"
  BY DEF IInv, connect, NewCall
<1>1. NewCall(t, "connect") /\ "connect" \in Methods
  BY DEF connect, Methods
<1>2. f \in Futures /\ f \in 1..calls' /\ method'[f] = "connect"
  BY <1>1, Numbered
<1>3. CASE Refuse(f) /\ UNCHANGED overlapped
  <2>1. /\ pc' = [pc EXCEPT ![t] = pc'[t]] /\ pc'[t] = "idle"
        /\ job' = [job EXCEPT ![t] = job'[t]] /\ job'[t] \in Jobs
    BY <1>0, <1>3 DEF Refuse, thread, TypeOK
  <2>4. future' = [future EXCEPT ![f] = future'[f]] /\ future'[f] = "failed"
    BY <1>0, <1>2, <1>3 DEF Refuse, TypeOK
  <2>2. JobFits(t)' /\ t \notin ConnectThreads'
    BY <1>0, <2>1 DEF JobFits, ConnectThreads, TypeOK
  <2> QED BY <1>0, <1>1, <1>3, <2>1, <2>2, <2>4, CallStep DEF TypeOK
<1>4. CASE Accept(t, f, "checked", NoJob) /\ overlapped' = (overlapped \/ Connects # {})
  <2> DEFINE do == [NoJob EXCEPT !.future = f]
  <2>2. do \in Jobs /\ do.future = f
    BY <1>2 DEF NoJob, Jobs, States, Kinds
  <2> HIDE DEF do
  <2>1. /\ pc' = [pc EXCEPT ![t] = pc'[t]] /\ pc'[t] = "checked"
        /\ job' = [job EXCEPT ![t] = job'[t]] /\ job'[t] = do
        /\ future' = [future EXCEPT ![f] = future'[f]] /\ future'[f] = "pending"
    BY <1>0, <1>2, <1>4 DEF Accept, TypeOK, do
  <2>3. JobFits(t)'
    BY <1>0, <1>2, <2>1, <2>2 DEF JobFits, Fits, TypeOK
  <2>4. overlapped' \in BOOLEAN
    BY <1>0, <1>4 DEF TypeOK
  <2> QED BY <1>1, <1>4, <2>1, <2>2, <2>3, <2>4, CallStep
<1> QED BY <1>3, <1>4 DEF connect

\* disconnect() and close(), between the load of the state and its store.
LEMMA CloseStep ==
    ASSUME IInv, NEW t \in Threads, disconnect(t) \/ close(t)
    PROVE  IInv'
<1> DEFINE f == calls + 1
<1>0. TypeOK /\ pc[t] = "idle" /\ overlapped \in BOOLEAN
  BY DEF IInv, disconnect, close, NewCall, TypeOK
<1>1. CASE disconnect(t)
  <2>1. NewCall(t, "disconnect") /\ "disconnect" \in Methods
    BY <1>1 DEF disconnect, Methods
  <2>2. f \in Futures /\ f \in 1..calls' /\ method'[f] = "disconnect"
    BY <2>1, Numbered
  <2>3. setConnectivityState(t, "TransitentFailure", "postClose", f) /\ UNCHANGED overlapped
    BY <1>1 DEF disconnect, closeSocketWithState
  <2>4. /\ pc'[t] = "store" /\ job'[t] \in Jobs
        /\ job'[t].target = "TransitentFailure" /\ job'[t].next = "postClose"
        /\ job'[t].future = f /\ (job'[t].store <=> connState # "Shutdown")
        /\ pc' = [pc EXCEPT ![t] = pc'[t]] /\ job' = [job EXCEPT ![t] = job'[t]]
    BY <1>0, <2>2, <2>3, Loaded DEF States
  <2>5. JobFits(t)' /\ t \notin ConnectThreads'
    BY <2>2, <2>4 DEF JobFits, Fits, ConnectThreads
  <2>6. future' = [future EXCEPT ![f] = future'[f]] /\ future'[f] = "pending"
    BY <1>0, <1>1, <2>2 DEF disconnect, TypeOK
  <2> QED BY <1>0, <2>1, <2>3, <2>4, <2>5, <2>6, CallStep
<1>2. CASE close(t)
  <2>1. NewCall(t, "close") /\ "close" \in Methods
    BY <1>2 DEF close, Methods
  <2>2. /\ f \in Futures /\ CloseFuture \in Futures
        /\ method'[CloseFuture] = "close" /\ future[f] = "unused"
    BY <2>1, Numbered, SocketAssumption DEF IInv, HandlingInv, ToCome, Futures, CloseFuture
  <2>3. setConnectivityState(t, "Shutdown", "postClose", CloseFuture) /\ UNCHANGED overlapped
    BY <1>2 DEF close, closeSocketWithState
  <2>4. /\ pc'[t] = "store" /\ job'[t] \in Jobs
        /\ job'[t].target = "Shutdown" /\ job'[t].next = "postClose"
        /\ job'[t].future = CloseFuture /\ (job'[t].store <=> connState # "Shutdown")
        /\ pc' = [pc EXCEPT ![t] = pc'[t]] /\ job' = [job EXCEPT ![t] = job'[t]]
    BY <1>0, <2>2, <2>3, Loaded DEF States
  <2>5. JobFits(t)' /\ t \notin ConnectThreads'
    BY <2>2, <2>4 DEF JobFits, Fits, ConnectThreads
  <2>6. future' = [future EXCEPT ![f] = future'[f]] /\ future'[f] = "unused"
    BY <1>0, <1>2, <2>2 DEF close, TypeOK
  <2> QED BY <1>0, <2>1, <2>3, <2>4, <2>5, <2>6, CallStep
<1> QED BY <1>1, <1>2

\* read() and write(), between the test of the state and the operation.
LEMMA TransferStep ==
    ASSUME IInv, NEW t \in Threads, NEW m \in {"read", "write"}, readOrWrite(t, m)
    PROVE  IInv'
<1> DEFINE f == calls + 1
<1>0. TypeOK /\ pc[t] = "idle" /\ overlapped \in BOOLEAN /\ UNCHANGED overlapped
  BY DEF IInv, readOrWrite, NewCall, TypeOK
<1>1. NewCall(t, m) /\ m \in Methods
  BY DEF readOrWrite, Methods
<1>2. f \in Futures /\ f \in 1..calls' /\ method'[f] = m
  BY <1>1, Numbered
<1>3. CASE Refuse(f)
  <2>1. /\ pc' = [pc EXCEPT ![t] = pc'[t]] /\ pc'[t] = "idle"
        /\ job' = [job EXCEPT ![t] = job'[t]] /\ job'[t] \in Jobs
    BY <1>0, <1>3 DEF Refuse, thread, TypeOK
  <2>2. future' = [future EXCEPT ![f] = future'[f]] /\ future'[f] = "failed"
    BY <1>0, <1>2, <1>3 DEF Refuse, TypeOK
  <2>3. JobFits(t)' /\ t \notin ConnectThreads'
    BY <2>1 DEF JobFits, ConnectThreads
  <2> QED BY <1>0, <1>1, <2>1, <2>2, <2>3, CallStep
<1>4. CASE Accept(t, f, "start", [NoJob EXCEPT !.next = "start", !.kind = m])
  <2> DEFINE do == [[NoJob EXCEPT !.next = "start", !.kind = m] EXCEPT !.future = f]
  <2>1. do \in Jobs /\ do.future = f /\ do.kind = m
    BY <1>2 DEF NoJob, Jobs, States, Kinds
  <2> HIDE DEF do
  <2>2. /\ pc' = [pc EXCEPT ![t] = pc'[t]] /\ pc'[t] = "start"
        /\ job' = [job EXCEPT ![t] = job'[t]] /\ job'[t] = do
        /\ future' = [future EXCEPT ![f] = future'[f]] /\ future'[f] = "pending"
    BY <1>0, <1>2, <1>4 DEF Accept, TypeOK, do
  <2>3. JobFits(t)' /\ t \notin ConnectThreads'
    BY <1>2, <2>1, <2>2 DEF JobFits, Fits, ConnectThreads
  <2> QED BY <1>0, <1>1, <2>1, <2>2, <2>3, CallStep
<1> QED BY <1>3, <1>4 DEF readOrWrite

------------------------------------------------------------------------------
\* What the steps of a call or a handler are made of.
LEMMA Idled ==
    ASSUME TypeOK, NEW t \in Threads, Idle(t)
    PROVE  /\ pc'[t] = "idle"
           /\ pc' \in [Threads -> {"idle", "checked", "store", "start"}]
           /\ job' \in [Threads -> Jobs]
           /\ \A u \in Threads : u # t => pc'[u] = pc[u] /\ job'[u] = job[u]
<1>1. NoJob \in Jobs
  BY SocketAssumption DEF NoJob, Jobs, States, Kinds, Futures, CloseFuture
<1> QED BY <1>1 DEF TypeOK, Idle

LEMMA ReportSettles ==
    ASSUME TypeOK, NEW f \in Futures, NEW outcome \in {"finished", "failed"}, Report(f, outcome)
    PROVE  /\ future' \in [Futures -> {"unused", "pending", "finished", "failed"}]
           /\ future'[f] # "pending"
           /\ \A g \in Futures : g # f => future'[g] = future[g]
           /\ \A g \in Futures : future[g] = "unused" => future'[g] = "unused"
BY DEF TypeOK, Report

LEMMA Appended ==
    ASSUME NEW queue \in Seq(Items), NEW x \in Items, ioQueue' = Append(queue, x)
    PROVE  /\ ioQueue' \in Seq(Items) /\ Len(queue) \in Nat /\ Len(ioQueue') = Len(queue) + 1
           /\ \A i \in 1..Len(queue) : i \in 1..Len(ioQueue') /\ ioQueue'[i] = queue[i]
           /\ Len(ioQueue') \in 1..Len(ioQueue') /\ ioQueue'[Len(ioQueue')] = x
           /\ \A i \in 1..Len(ioQueue') : i \in 1..Len(queue) \/ i = Len(ioQueue')
<1>1. Len(queue) \in Nat /\ ioQueue' \in Seq(Items) /\ Len(ioQueue') = Len(queue) + 1
  OBVIOUS
<1>2. \A i \in 1..Len(queue) : ioQueue'[i] = queue[i]
  OBVIOUS
<1>3. ioQueue'[Len(queue) + 1] = x
  OBVIOUS
<1> QED BY <1>1, <1>2, <1>3

\* Steps other than calls do not change which call a future belongs to.
LEMMA SameFits ==
    ASSUME UNCHANGED record
    PROVE  \A kind, f : Fits(kind, f)' <=> Fits(kind, f)
BY DEF record, Fits

\* The future in the hands of a thread is that of a call.
LEMMA InHands ==
    ASSUME IInv, NEW t \in Threads
    PROVE  /\ pc[t] \in {"checked", "start"} => job[t].future \in 1..calls
           /\ pc[t] = "store" => job[t].future \in 1..calls \/ job[t].future = CloseFuture
           /\ job[t].future \in Futures
           /\ 1..calls \subseteq Futures
<1>1. JobFits(t) /\ job[t] \in Jobs
  BY DEF IInv, HandlingInv, TypeOK
<1>2. 1..calls \subseteq Futures
  BY SocketAssumption DEF IInv, TypeOK, Futures
<1>3. \A kind, f : Fits(kind, f) => f \in 1..calls \/ (kind = "closeTask" /\ f = CloseFuture)
  BY DEF Fits
<1>4. job[t].future \in Futures
  BY <1>1 DEF Jobs
<1> QED BY <1>1, <1>2, <1>3, <1>4 DEF JobFits

\* The start of a read or a write.
LEMMA StartStep ==
    ASSUME IInv, NEW t \in Threads, StartOperation(t)
    PROVE  IInv'
<1>0. /\ TypeOK /\ HandlingInv /\ NoLostFuture /\ DestinationInv
      /\ pc[t] = "start" /\ Idle(t) /\ UNCHANGED record
      /\ UNCHANGED <<connState, socket, endpoints, future, forgotten, went>>
  BY DEF IInv, StartOperation
<1>1. /\ pc'[t] = "idle" /\ pc' \in [Threads -> {"idle", "checked", "store", "start"}]
      /\ job' \in [Threads -> Jobs]
      /\ \A u \in Threads : u # t => pc'[u] = pc[u] /\ job'[u] = job[u]
  BY <1>0, Idled
<1>2. PICK f \in Futures, kind \in {"read", "write"} :
         f = job[t].future /\ kind = job[t].kind /\ Fits(kind, f)
  BY <1>0, InHands DEF HandlingInv, JobFits
<1> DEFINE op == [kind |-> kind, future |-> f]
           x == Item(kind, f, FALSE)
<1>3. /\ op \in Operations /\ op.kind = kind /\ op.future = f
      /\ x \in Items /\ x.kind = kind /\ x.future = f
  BY <1>2 DEF Operations, Items, Item, Kinds
<1>4. \/ pending' = pending \cup {op} /\ ioQueue' = ioQueue
      \/ ioQueue' = Append(ioQueue, x) /\ pending' = pending
  BY <1>2 DEF StartOperation
<1> HIDE DEF op, x
<1>5. /\ ioQueue' \in Seq(Items)
      /\ \A i \in 1..Len(ioQueue) : i \in 1..Len(ioQueue') /\ ioQueue'[i] = ioQueue[i]
      /\ \A i \in 1..Len(ioQueue') : i \in 1..Len(ioQueue) \/ ioQueue'[i] = x
  BY <1>0, <1>3, <1>4, Appended DEF TypeOK
<1>6. TypeOK'
  BY <1>0, <1>1, <1>3, <1>4, <1>5 DEF TypeOK, record
<1>7. HandlingInv'
  <2>1. PendingFits'
    <3>1. IsFiniteSet(pending')
      BY <1>0, <1>4, FS_AddElement DEF HandlingInv, PendingFits
    <3> QED BY <1>0, <1>2, <1>3, <1>4, <3>1, SameFits DEF HandlingInv, PendingFits
  <2>2. QueueFits'
    BY <1>0, <1>2, <1>3, <1>5, SameFits DEF HandlingInv, QueueFits
  <2>3. \A u \in Threads : JobFits(u)'
    BY <1>0, <1>1, SameFits DEF HandlingInv, JobFits
  <2> QED BY <1>0, <2>1, <2>2, <2>3 DEF HandlingInv, ToCome, record
<1>8. NoLostFuture'
  <2>1. \A g \in 1..calls : Carried(g) => Carried(g)'
    <3>1. Carried(f)'
      <4>1. CASE pending' = pending \cup {op}
        BY <1>3, <4>1 DEF Carried
      <4>2. CASE ioQueue' = Append(ioQueue, x)
        BY <1>0, <1>3, <4>2, Appended DEF Carried, TypeOK
      <4> QED BY <1>4, <4>1, <4>2
    <3>2. \A g \in 1..calls : g # f /\ Carried(g) => Carried(g)'
      BY <1>0, <1>1, <1>2, <1>4, <1>5 DEF Carried
    <3> QED BY <3>1, <3>2
  <2> QED BY <1>0, <2>1 DEF NoLostFuture, record
<1>9. DestinationInv'
  <2>1. ASSUME ~overlapped
        PROVE  OneConnect' /\ ResolveInv'
    <3>1. OneConnect /\ ResolveInv
      BY <1>0, <2>1 DEF DestinationInv
    <3>2. ConnectOps' = ConnectOps
      BY <1>2, <1>3, <1>4 DEF ConnectOps
    <3>3. ConnectItems' = ConnectItems /\ \A i \in ConnectItems : ioQueue'[i] = ioQueue[i]
      BY <1>2, <1>3, <1>5 DEF ConnectItems
    <3>4. ConnectThreads' = ConnectThreads /\ t \notin ConnectThreads
      BY <1>0, <1>1 DEF ConnectThreads, record
    <3>5. OneConnect'
      BY <1>0, <1>1, <3>1, <3>2, <3>3, <3>4 DEF OneConnect, UnderWay, ConnectThreads, record
    <3>6. ResolveInv'
      BY <1>0, <1>2, <1>3, <1>4, <1>5, <3>1 DEF ResolveInv
    <3> QED BY <3>5, <3>6
  <2> QED BY <1>0, <2>1 DEF DestinationInv, OneDestination, record
<1>10. ASSUME alone' PROVE AloneInv'
  <2>1. AloneInv
    BY <1>0, <1>10 DEF IInv, record
  <2> QED BY <1>0, <1>1, <1>2, <1>3, <1>5, <2>1 DEF AloneInv, record, Threads
<1> QED BY <1>6, <1>7, <1>8, <1>9, <1>10 DEF IInv

------------------------------------------------------------------------------
\* The body of connect's task, for the connect that thread t has in hands or, taken
\* from the queue, that the io thread runs. It leaves no other connect under way,
\* unless connects overlapped.
LEMMA StartConnectStep ==
    ASSUME IInv, NEW t \in Threads, NEW f \in Futures, NEW queue \in Seq(Items),
           StartConnect(t, f, queue), Fits("connect", f),
           \/ queue = ioQueue /\ pc[t] = "checked" /\ job[t].future = f
           \/ /\ queue = Rest /\ ioQueue # <<>> /\ pc[t] = "idle"
              /\ Next1.kind = "connectTask" /\ Next1.future = f,
           alone => connState # "Ready",
           UNCHANGED <<connState, endpoints, future, forgotten, went, record>>
    PROVE  IInv'
<1> DEFINE op == [kind |-> "resolve", future |-> f]
<1>0. TypeOK /\ HandlingInv /\ NoLostFuture /\ DestinationInv
  BY DEF IInv
<1>1. /\ socket' = "closed" /\ IsFiniteSet(pending) /\ op \in Operations
      /\ op.kind = "resolve" /\ op.future = f
      /\ "Connecting" \in States /\ endpoints \in Nat
      /\ Len(queue) \in Nat
  BY <1>0 DEF StartConnect, resetSocket, HandlingInv, PendingFits, Operations, Kinds, States,
              TypeOK, Futures
<1>2. /\ ioQueue' \in Seq(Items)
      /\ \A i \in 1..Len(queue) : i \in 1..Len(ioQueue') /\ ioQueue'[i] = queue[i]
      /\ \A i \in 1..Len(ioQueue') :
            \/ i \in 1..Len(queue) /\ ioQueue'[i] = queue[i]
            \/ \E o \in OnSocket : /\ ioQueue'[i].kind = o.kind /\ ioQueue'[i].ok = FALSE
                                   /\ ioQueue'[i].future = o.future
      /\ \A o \in OnSocket : \E i \in 1..Len(ioQueue') : ioQueue'[i].future = o.future
  BY <1>0, <1>1, Aborted DEF StartConnect, resetSocket
<1>3. /\ \A i \in 1..Len(queue) : \E j \in 1..Len(ioQueue) : queue[i] = ioQueue[j]
      /\ \A i \in 1..Len(ioQueue) :
            ioQueue[i].future = f \/ \E j \in 1..Len(queue) : queue[j] = ioQueue[i]
  <2>1. CASE queue = ioQueue
    BY <2>1
  <2>2. CASE queue = Rest /\ ioQueue # <<>> /\ Next1.future = f
    <3>1. /\ Next1 = ioQueue[1] /\ Len(ioQueue) \in Nat /\ Len(queue) = Len(ioQueue) - 1
          /\ \A i \in 1..Len(queue) : queue[i] = ioQueue[i + 1]
      BY <1>0, <2>2, Dequeued
    <3>2. \A i \in 1..Len(ioQueue) : i = 1 \/ (i - 1 \in 1..Len(queue) /\ queue[i - 1] = ioQueue[i])
      BY <3>1
    <3>3. \A i \in 1..Len(queue) : i + 1 \in 1..Len(ioQueue)
      BY <3>1
    <3> QED BY <2>2, <3>1, <3>2, <3>3
  <2> QED BY <2>1, <2>2
<1>4. \A i \in 1..Len(ioQueue') :
         \/ \E j \in 1..Len(ioQueue) : ioQueue'[i] = ioQueue[j]
         \/ \E o \in OnSocket : /\ ioQueue'[i].kind = o.kind /\ ioQueue'[i].ok = FALSE
                                /\ ioQueue'[i].future = o.future
  BY <1>2, <1>3
<1>5. /\ pc' \in [Threads -> {"idle", "checked", "store", "start"}] /\ job' \in [Threads -> Jobs]
      /\ \A u \in Threads : u # t => pc'[u] = pc[u] /\ job'[u] = job[u]
      /\ \/ /\ endpoints = 0 /\ pc'[t] = "idle"
            /\ pending' = (pending \ OnSocket) \cup {op}
         \/ /\ endpoints # 0 /\ pending' = pending \ OnSocket
            /\ pc'[t] = "store" /\ job'[t].next = "asyncConnect" /\ job'[t].future = f
            /\ job'[t].target = "Connecting" /\ (job'[t].store <=> connState # "Shutdown")
  <2>1. CASE ~Listed /\ pending' = (pending \ OnSocket) \cup {op} /\ Idle(t)
    BY <1>0, <2>1, Idled DEF Listed
  <2>2. CASE Listed /\ pending' = pending \ OnSocket /\ setConnectivityState(t, "Connecting", "asyncConnect", f)
    BY <1>0, <1>1, <2>2, Loaded DEF Listed
  <2> QED BY <2>1, <2>2 DEF StartConnect
<1> HIDE DEF op
<1>6. TypeOK'
  BY <1>0, <1>1, <1>2, <1>5 DEF TypeOK, record
<1>7. HandlingInv'
  <2>1. IsFiniteSet(pending')
    BY <1>1, <1>5, FS_Subset, FS_AddElement
  <2>2. PendingFits'
    <3>1. \A o \in pending' : o \in pending \/ o = op
      BY <1>5
    <3>2. Fits("resolve", f)
      BY DEF Fits
    <3> QED BY <1>0, <1>1, <2>1, <3>1, <3>2, SameFits DEF HandlingInv, PendingFits
  <2>3. QueueFits'
    BY <1>0, <1>2, <1>3, <1>4, SameFits DEF HandlingInv, QueueFits, PendingFits, OnSocket
  <2>4. \A u \in Threads : JobFits(u)'
    BY <1>0, <1>5, SameFits DEF HandlingInv, JobFits
  <2> QED BY <1>0, <2>2, <2>3, <2>4 DEF HandlingInv, ToCome, record
<1>8. NoLostFuture'
  <2>1. Carried(f)'
    BY <1>1, <1>5 DEF Carried
  <2>2. \A g \in 1..calls : g # f /\ Carried(g) => Carried(g)'
    <3> SUFFICES ASSUME NEW g \in 1..calls, g # f, Carried(g) PROVE Carried(g)'
      OBVIOUS
    <3>1. CASE \E o \in pending : o.future = g
      <4>1. PICK o \in pending : o.future = g
        BY <3>1
      <4>2. o \in OnSocket \/ o \in pending'
        BY <1>5
      <4> QED BY <4>1, <4>2, <1>2 DEF Carried
    <3>2. CASE \E i \in 1..Len(ioQueue) : ioQueue[i].future = g
      <4>1. PICK j \in 1..Len(queue) : queue[j].future = g
        BY <3>2, <1>3
      <4>2. j \in 1..Len(ioQueue') /\ ioQueue'[j].future = g
        BY <4>1, <1>2
      <4> QED BY <4>2 DEF Carried
    <3>3. CASE \E u \in Threads : pc[u] # "idle" /\ job[u].future = g
      BY <3>3, <1>5 DEF Carried
    <3> QED BY <3>1, <3>2, <3>3 DEF Carried
  <2> QED BY <1>0, <2>1, <2>2 DEF NoLostFuture, record
<1>9. DestinationInv'
  <2>1. ASSUME ~overlapped
        PROVE  OneConnect' /\ ResolveInv'
    <3>1. OneConnect /\ ResolveInv
      BY <1>0, <2>1 DEF DestinationInv
    <3>2. /\ ConnectOps = {} /\ ConnectThreads \subseteq {t} /\ UnderWay(f)
          /\ \A i \in 1..Len(queue) : queue[i].kind \notin {"connectTask", "resolve", "connect"}
      <4>1. CASE queue = ioQueue /\ pc[t] = "checked" /\ job[t].future = f
        <5>1. t \in ConnectThreads
          BY <4>1 DEF ConnectThreads
        <5> QED BY <3>1, <4>1, <5>1 DEF OneConnect, ConnectItems
      <4>2. CASE /\ queue = Rest /\ ioQueue # <<>> /\ pc[t] = "idle"
                 /\ Next1.kind = "connectTask" /\ Next1.future = f
        <5>1. /\ Next1 = ioQueue[1] /\ Len(ioQueue) \in Nat \ {0} /\ Len(queue) = Len(ioQueue) - 1
              /\ \A i \in 1..Len(queue) : queue[i] = ioQueue[i + 1]
          BY <1>0, <4>2, Dequeued
        <5>2. 1 \in ConnectItems
          BY <4>2, <5>1 DEF ConnectItems
        <5>3. \A i \in 1..Len(queue) : i + 1 \in 1..Len(ioQueue) /\ i + 1 # 1
          BY <5>1
        <5> QED BY <3>1, <4>2, <5>1, <5>2, <5>3 DEF OneConnect, ConnectItems
      <4> QED BY <4>1, <4>2
    <3>3. \A o \in OnSocket : o.kind \notin {"connectTask", "resolve", "connect"}
      BY <1>0, <3>2 DEF ConnectOps, OnSocket, HandlingInv, PendingFits
    <3>4. ConnectItems' = {}
      BY <1>2, <1>3, <3>2, <3>3 DEF ConnectItems
    <3>5. UnderWay(f)'
      BY <3>2 DEF UnderWay, record
    <3>6. method[f] = "connect" /\ method' = method
      BY DEF record, Fits
    <3>7. \A u \in Threads : u # t => u \notin ConnectThreads'
      BY <1>5, <3>2, <3>6 DEF ConnectThreads
    <3>8. CASE endpoints = 0 /\ pc'[t] = "idle" /\ pending' = (pending \ OnSocket) \cup {op}
      <4>1. ConnectThreads' = {}
        BY <3>7, <3>8 DEF ConnectThreads
      <4>2. ConnectOps' \subseteq {op}
        BY <3>2, <3>8, <1>1 DEF ConnectOps
      <4> QED BY <1>1, <1>2, <1>3, <3>1, <3>2, <3>3, <3>4, <3>5, <3>8, <4>1, <4>2 DEF OneConnect, ResolveInv
    <3>9. CASE endpoints # 0 /\ pending' = pending \ OnSocket /\ pc'[t] = "store" /\ job'[t].future = f
      <4>1. ConnectThreads' \subseteq {t}
        BY <3>7 DEF ConnectThreads
      <4>2. ConnectOps' = {}
        BY <3>2, <3>9 DEF ConnectOps
      <4>3. ResolveInv'
        BY <1>2, <1>3, <3>1, <3>2, <3>3, <3>9 DEF ResolveInv, ConnectOps
      <4> QED BY <3>4, <3>5, <3>9, <4>1, <4>2, <4>3 DEF OneConnect
    <3> QED BY <1>5, <3>8, <3>9
  <2> QED BY <1>0, <2>1 DEF DestinationInv, OneDestination, record
<1>10. ASSUME alone' PROVE AloneInv'
  <2>1. AloneInv /\ alone
    BY <1>0, <1>10 DEF IInv, record
  <2>2. queue = ioQueue /\ pc[t] = "checked"
    <3> SUFFICES ASSUME ioQueue # <<>>, Next1.kind = "connectTask" PROVE FALSE
      OBVIOUS
    <3>1. Next1 = ioQueue[1] /\ 1 \in 1..Len(ioQueue)
      BY <1>0, Dequeued
    <3> QED BY <2>1, <3>1 DEF AloneInv
  <2>3. t = Io /\ \A u \in Users : pc'[u] = "idle"
    BY <1>5, <2>1, <2>2, SocketAssumption DEF AloneInv, Threads
  <2>4. \A i \in 1..Len(ioQueue') : ioQueue'[i].kind \notin {"connectTask", "closeTask"}
    BY <1>0, <1>2, <1>3, <1>4, <2>1 DEF AloneInv, HandlingInv, PendingFits, OnSocket
  <2> QED BY <1>5, <2>1, <2>3, <2>4 DEF AloneInv
<1> QED BY <1>6, <1>7, <1>8, <1>9, <1>10 DEF IInv

------------------------------------------------------------------------------
\* What is known of the queue is known of its rest.
LEMMA Shifted ==
    ASSUME IInv, ioQueue # <<>>
    PROVE  /\ Next1 \in Items /\ Fits(Next1.kind, Next1.future) /\ Next1.future \in Futures
           /\ 1 \in 1..Len(ioQueue) /\ ioQueue[1] = Next1
           /\ Rest \in Seq(Items)
           /\ \A i \in 1..Len(Rest) : i + 1 \in 1..Len(ioQueue) /\ Rest[i] = ioQueue[i + 1]
           /\ \A i \in 1..Len(ioQueue) : i = 1 \/ \E j \in 1..Len(Rest) : i = j + 1
           /\ \A i, j \in 1..Len(Rest) : i + 1 = j + 1 => i = j
           /\ \A i \in 1..Len(Rest) : i + 1 # 1
<1>0. TypeOK /\ QueueFits
  BY DEF IInv, HandlingInv
<1>1. /\ Next1 \in Items /\ Next1 = ioQueue[1]
      /\ Rest \in Seq(Items) /\ Len(ioQueue) \in Nat \ {0} /\ Len(Rest) = Len(ioQueue) - 1
      /\ \A i \in 1..Len(Rest) : Rest[i] = ioQueue[i + 1]
  BY <1>0, Dequeued
<1>2. \A i \in 1..Len(ioQueue) : i = 1 \/ (i - 1 \in 1..Len(Rest) /\ i = (i - 1) + 1)
  BY <1>1
<1>3. Fits(Next1.kind, Next1.future) /\ Next1.future \in Futures
  BY <1>0, <1>1 DEF QueueFits, Items
<1>4. \A i \in 1..Len(Rest) : i + 1 \in 1..Len(ioQueue) /\ i + 1 # 1
  BY <1>1
<1> QED BY <1>1, <1>2, <1>3, <1>4

\* close()'s task, run by the io thread from the queue or, when it called itself,
\* right after it stored the state.
LEMMA RunCloseStep ==
    ASSUME IInv, NEW t \in Threads, NEW f \in Futures, NEW queue \in Seq(Items),
           RunClose(f, queue), Fits("closeTask", f),
           \/ /\ queue = ioQueue /\ pc[t] = "store" /\ job[t].future = f /\ Idle(t)
              /\ job[t].target \in {"TransitentFailure", "Shutdown"} /\ connState' = job[t].target
           \/ /\ queue = Rest /\ ioQueue # <<>> /\ UNCHANGED <<connState, thread>>
              /\ Next1.kind = "closeTask" /\ Next1.future = f,
           UNCHANGED <<endpoints, went, record>>
    PROVE  IInv'
<1>0. TypeOK /\ HandlingInv /\ NoLostFuture /\ DestinationInv /\ IsFiniteSet(pending)
  BY DEF IInv, HandlingInv, PendingFits
<1>1. /\ method[f] # "connect" /\ (f # CloseFuture => method[f] = "disconnect")
      /\ 1..calls \subseteq Futures /\ CloseFuture \notin 1..calls
  BY <1>0, SocketAssumption DEF Fits, HandlingInv, ToCome, TypeOK, Futures, CloseFuture
<1>2. /\ ioQueue' \in Seq(Items)
      /\ \A i \in 1..Len(queue) : i \in 1..Len(ioQueue') /\ ioQueue'[i] = queue[i]
      /\ \/ /\ socket # "closed" /\ socket' = "closed" /\ pending' = pending \ OnSocket
            /\ Report(f, "finished") \/ Report(f, "failed")
            /\ UNCHANGED forgotten
            /\ \A i \in 1..Len(ioQueue') :
                  \/ i \in 1..Len(queue) /\ ioQueue'[i] = queue[i]
                  \/ \E o \in OnSocket : /\ ioQueue'[i].kind = o.kind /\ ioQueue'[i].ok = FALSE
                                         /\ ioQueue'[i].future = o.future
            /\ \A o \in OnSocket : \E i \in 1..Len(ioQueue') : ioQueue'[i].future = o.future
            /\ \A i, j \in 1..Len(ioQueue') \ 1..Len(queue) : ioQueue'[i] = ioQueue'[j] => i = j
         \/ /\ forgotten' = forgotten \cup {f} /\ ioQueue' = queue
            /\ UNCHANGED <<socket, pending, future>>
  <2>1. CASE /\ socket # "closed" /\ socket' = "closed" /\ AbortOperations(queue)
             /\ pending' = pending \ OnSocket /\ UNCHANGED forgotten
             /\ Report(f, "finished") \/ Report(f, "failed")
    BY <1>0, <2>1, Aborted
  <2>2. CASE /\ forgotten' = forgotten \cup {f} /\ ioQueue' = queue
             /\ UNCHANGED <<socket, pending, future>>
    BY <2>2
  <2> QED BY <2>1, <2>2 DEF RunClose, reportErrorCode
<1>3. /\ \A i \in 1..Len(queue) : \E j \in 1..Len(ioQueue) : queue[i] = ioQueue[j]
      /\ \A i \in 1..Len(ioQueue) :
            ioQueue[i].future = f \/ \E j \in 1..Len(queue) : queue[j] = ioQueue[i]
  <2>1. CASE queue = ioQueue
    BY <2>1
  <2>2. CASE queue = Rest /\ ioQueue # <<>> /\ Next1.future = f
    BY <2>2, Shifted
  <2> QED BY <2>1, <2>2
<1>4. /\ pc' \in [Threads -> {"idle", "checked", "store", "start"}] /\ job' \in [Threads -> Jobs]
      /\ \A u \in Threads : \/ pc'[u] = pc[u] /\ job'[u] = job[u]
                            \/ pc[u] = "store" /\ job[u].future = f /\ pc'[u] = "idle"
      /\ connState' \in States
  BY <1>0, Idled DEF TypeOK, thread, States
<1>5. /\ future' \in [Futures -> {"unused", "pending", "finished", "failed"}]
      /\ \A g \in Futures : g # f => future'[g] = future[g]
      /\ \A g \in Futures : future[g] = "unused" => future'[g] = "unused"
      /\ future'[f] # "pending" \/ f \in forgotten'
      /\ forgotten \subseteq forgotten' /\ forgotten' \subseteq Futures
  BY <1>0, <1>2, ReportSettles DEF TypeOK
<1>6. TypeOK'
  BY <1>0, <1>2, <1>4, <1>5 DEF TypeOK, record
<1>7. HandlingInv'
  <2>1. pending' \subseteq pending /\ IsFiniteSet(pending')
    BY <1>0, <1>2, FS_Subset
  <2>2. PendingFits'
    BY <1>0, <2>1, SameFits DEF HandlingInv, PendingFits
  <2>3. QueueFits'
    <3>1. \A i \in 1..Len(queue) : Fits(queue[i].kind, queue[i].future)
      BY <1>0, <1>3 DEF HandlingInv, QueueFits
    <3>2. \A o \in OnSocket : Fits(o.kind, o.future)
      BY <1>0 DEF HandlingInv, PendingFits, OnSocket
    <3> QED BY <1>2, <3>1, <3>2, SameFits DEF QueueFits
  <2>4. \A u \in Threads : JobFits(u)'
    BY <1>0, <1>4, SameFits DEF HandlingInv, JobFits
  <2> QED BY <1>0, <1>5, <2>2, <2>3, <2>4 DEF HandlingInv, ToCome, record
<1>8. NoLostFuture'
  <2>1. \A g \in 1..calls : g # f /\ Carried(g) => Carried(g)'
    <3> SUFFICES ASSUME NEW g \in 1..calls, g # f, Carried(g) PROVE Carried(g)'
      OBVIOUS
    <3>1. CASE \E o \in pending : o.future = g
      <4>1. PICK o \in pending : o.future = g
        BY <3>1
      <4> QED BY <4>1, <1>2 DEF Carried
    <3>2. CASE \E i \in 1..Len(ioQueue) : ioQueue[i].future = g
      <4>1. PICK j \in 1..Len(queue) : queue[j].future = g
        BY <3>2, <1>3
      <4> QED BY <4>1, <1>2 DEF Carried
    <3>3. CASE \E u \in Threads : pc[u] # "idle" /\ job[u].future = g
      BY <3>3, <1>4 DEF Carried
    <3> QED BY <3>1, <3>2, <3>3 DEF Carried
  <2> SUFFICES ASSUME NEW g \in 1..calls, future'[g] = "pending"
               PROVE  Carried(g)' \/ (g \in forgotten' /\ method'[g] = "disconnect")
    BY DEF NoLostFuture, record
  <2>2. CASE g = f
    BY <2>2, <1>1, <1>5 DEF record
  <2>3. CASE g # f
    BY <2>1, <2>3, <1>0, <1>1, <1>5 DEF NoLostFuture, record
  <2> QED BY <2>2, <2>3
<1>9. DestinationInv'
  <2>1. ASSUME ~overlapped
        PROVE  OneConnect' /\ ResolveInv'
    <3> DEFINE QC == {i \in 1..Len(queue) : queue[i].kind \in {"connectTask", "resolve", "connect"}}
    <3>1. OneConnect /\ ResolveInv
      BY <1>0, <2>1 DEF DestinationInv
    <3>2. /\ \A i, j \in QC : i = j
          /\ ConnectOps = {} \/ QC = {}
          /\ ConnectThreads = {} \/ QC = {}
          /\ \A i \in QC : UnderWay(queue[i].future)
      <4>1. CASE queue = ioQueue
        BY <3>1, <4>1 DEF OneConnect, ConnectItems
      <4>2. CASE queue = Rest /\ ioQueue # <<>>
        <5>1. \A i \in QC : i + 1 \in ConnectItems /\ queue[i] = ioQueue[i + 1]
          BY <4>2, Shifted DEF ConnectItems
        <5>3. \A i, j \in QC : i = j
          <6>1. \A i, j \in QC : i + 1 = j + 1
            BY <3>1, <5>1 DEF OneConnect
          <6> QED BY <4>2, <6>1, Shifted
        <5> QED BY <3>1, <5>1, <5>3 DEF OneConnect
      <4> QED BY <4>1, <4>2
    <3>3. /\ \A u \in ConnectThreads' : u \in ConnectThreads /\ job'[u] = job[u]
          /\ \A g \in Futures : UnderWay(g) => UnderWay(g)'
      BY <1>1, <1>4, <1>5 DEF ConnectThreads, UnderWay, record
    <3>4. ConnectOps' \subseteq ConnectOps
      BY <1>2 DEF ConnectOps
    <3>5. \A i \in ConnectItems' : /\ i \in 1..Len(ioQueue')
                                   /\ \/ i \in QC /\ ioQueue'[i] = queue[i]
                                      \/ /\ i \notin 1..Len(queue) /\ pending' = pending \ OnSocket
                                         /\ \E o \in ConnectOps \cap OnSocket :
                                               /\ ioQueue'[i].kind = o.kind
                                               /\ ioQueue'[i].ok = FALSE
                                               /\ ioQueue'[i].future = o.future
      <4> SUFFICES ASSUME NEW i \in ConnectItems', i \notin QC
                   PROVE  /\ i \notin 1..Len(queue) /\ pending' = pending \ OnSocket
                          /\ \E o \in ConnectOps \cap OnSocket :
                                              /\ ioQueue'[i].kind = o.kind
                                              /\ ioQueue'[i].ok = FALSE
                                              /\ ioQueue'[i].future = o.future
        BY <1>2 DEF ConnectItems
      <4>1. i \in 1..Len(ioQueue') /\ ioQueue'[i].kind \in {"connectTask", "resolve", "connect"}
        BY DEF ConnectItems
      <4>2. i \notin 1..Len(queue)
        BY <4>1, <1>2
      <4>3. PICK o \in OnSocket : /\ ioQueue'[i].kind = o.kind /\ ioQueue'[i].ok = FALSE
                                  /\ ioQueue'[i].future = o.future
        BY <4>1, <4>2, <1>2
      <4>4. o \in ConnectOps
        BY <4>1, <4>3, <1>0 DEF ConnectOps, OnSocket, HandlingInv, PendingFits
      <4> QED BY <4>1, <4>2, <4>3, <4>4, <1>2
    <3>6. \A i, j \in ConnectItems' : i = j
      <4> SUFFICES ASSUME NEW i \in ConnectItems', NEW j \in ConnectItems' PROVE i = j
        OBVIOUS
      <4>1. CASE i \in QC \/ j \in QC
        BY <3>2, <3>5, <4>1
      <4>2. CASE i \notin QC /\ j \notin QC
        <5>1. /\ ioQueue'[i].kind = ioQueue'[j].kind /\ ioQueue'[i].future = ioQueue'[j].future
              /\ ioQueue'[i].ok = FALSE /\ ioQueue'[j].ok = FALSE
          BY <3>1, <3>5, <4>2 DEF OneConnect
        <5>2. ioQueue'[i] \in Items /\ ioQueue'[j] \in Items
          BY <1>2, <3>5
        <5>3. ioQueue'[i] = ioQueue'[j]
          BY <5>1, <5>2 DEF Items
        <5> QED BY <5>3, <4>2, <3>5, <1>2
      <4> QED BY <4>1, <4>2
    <3>7. (\A i \in ConnectItems : UnderWay(ioQueue[i].future))'
      <4> SUFFICES ASSUME NEW i \in ConnectItems', NEW g \in Futures, g = ioQueue'[i].future
                   PROVE  UnderWay(g)
        <5>1. \A i \in ConnectItems' : ioQueue'[i] \in Items
          BY <1>2, <3>5
        <5> QED BY <3>3, <5>1 DEF Items
      <4> QED BY <3>1, <3>2, <3>5 DEF OneConnect
    <3>8. (\A op \in ConnectOps : UnderWay(op.future))'
      BY <3>1, <3>3, <3>4, <1>0 DEF OneConnect, ConnectOps, TypeOK, Operations
    <3>9. (\A u \in ConnectThreads : UnderWay(job[u].future))'
      BY <3>1, <3>3, InHands DEF OneConnect, ConnectThreads
    <3>10. ConnectOps' = {} \/ ConnectItems' = {}
      <4>1. CASE QC # {}
        BY <4>1, <3>2, <3>4
      <4>2. CASE QC = {}
        <5> SUFFICES ASSUME NEW i \in ConnectItems' PROVE ConnectOps' = {}
          OBVIOUS
        <5>1. pending' = pending \ OnSocket /\ ConnectOps \cap OnSocket # {}
          BY <3>5, <4>2
        <5> QED BY <5>1, <3>1, <3>4 DEF OneConnect, ConnectOps
      <4> QED BY <4>1, <4>2
    <3>11. ConnectThreads' = {} \/ (ConnectOps' = {} /\ ConnectItems' = {})
      BY <3>1, <3>2, <3>3, <3>4, <3>5 DEF OneConnect
    <3>12. \A u, v \in ConnectThreads' : u = v
      BY <3>1, <3>3 DEF OneConnect
    <3>13. OneConnect'
      BY <3>1, <3>4, <3>6, <3>7, <3>8, <3>9, <3>10, <3>11, <3>12 DEF OneConnect
    <3>14. ResolveInv'
      <4>1. \A i \in 1..Len(ioQueue') :
               /\ ioQueue'[i].kind = "resolve" => endpoints = 0
               /\ ioQueue'[i].kind = "connect" /\ ioQueue'[i].ok => socket' # "open"
        <5> SUFFICES ASSUME NEW i \in 1..Len(ioQueue')
                     PROVE  /\ ioQueue'[i].kind = "resolve" => endpoints = 0
                            /\ ioQueue'[i].kind = "connect" /\ ioQueue'[i].ok => socket' # "open"
          OBVIOUS
        <5>1. CASE i \in 1..Len(queue) /\ ioQueue'[i] = queue[i]
          <6>1. socket' = socket \/ socket' = "closed"
            BY <1>2
          <6>2. PICK j \in 1..Len(ioQueue) : ioQueue'[i] = ioQueue[j]
            BY <5>1, <1>3
          <6> QED BY <6>1, <6>2, <3>1 DEF ResolveInv
        <5>2. CASE \E o \in OnSocket : /\ ioQueue'[i].kind = o.kind /\ ioQueue'[i].ok = FALSE
          BY <5>2 DEF OnSocket
        <5> QED BY <5>1, <5>2, <1>2
      <4> QED BY <1>2, <3>1, <4>1 DEF ResolveInv
    <3> QED BY <3>13, <3>14
  <2> QED BY <1>0, <2>1 DEF DestinationInv, OneDestination, record
<1>10. ASSUME alone' PROVE AloneInv'
  <2>1. AloneInv /\ alone
    BY <1>0, <1>10 DEF IInv, record
  <2>2. queue = ioQueue /\ pc[t] = "store" /\ Idle(t) /\ connState' # "Ready"
    <3> SUFFICES ASSUME ioQueue # <<>>, Next1.kind = "closeTask" PROVE FALSE
      OBVIOUS
    <3> QED BY <2>1, Shifted DEF AloneInv
  <2>3. t = Io /\ pc'[Io] = "idle" /\ \A u \in Users : pc'[u] = "idle"
    BY <1>0, <2>1, <2>2, Idled, SocketAssumption DEF AloneInv, Threads
  <2>4. \A i \in 1..Len(ioQueue') : ioQueue'[i].kind \notin {"connectTask", "closeTask"}
    BY <1>0, <1>2, <2>1, <2>2 DEF AloneInv, HandlingInv, PendingFits, OnSocket
  <2> QED BY <2>2, <2>3, <2>4 DEF AloneInv
<1> QED BY <1>6, <1>7, <1>8, <1>9, <1>10 DEF IInv

------------------------------------------------------------------------------
\* A thread reports the future it has in hands: nobody else had a connect of it.
LEMMA AnswerStep ==
    ASSUME IInv, NEW t \in Threads, NEW f \in Futures, NEW outcome \in {"finished", "failed"},
           Report(f, outcome), pc[t] \in {"checked", "store"}, job[t].future = f, Idle(t),
           connState' \in States,
           connState' = "Ready" =>
               connState = "Ready" \/ (pc[t] = "store" /\ job[t].next = "finish"),
           UNCHANGED <<socket, pending, ioQueue, forgotten, went, endpoints, record>>
    PROVE  IInv'
<1>0. TypeOK /\ HandlingInv /\ NoLostFuture /\ DestinationInv /\ 1..calls \subseteq Futures
  BY InHands DEF IInv
<1>1. /\ pc'[t] = "idle" /\ pc' \in [Threads -> {"idle", "checked", "store", "start"}]
      /\ job' \in [Threads -> Jobs]
      /\ \A u \in Threads : u # t => pc'[u] = pc[u] /\ job'[u] = job[u]
  BY <1>0, Idled
<1>2. /\ future' \in [Futures -> {"unused", "pending", "finished", "failed"}]
      /\ future'[f] # "pending"
      /\ \A g \in Futures : g # f => future'[g] = future[g]
      /\ \A g \in Futures : future[g] = "unused" => future'[g] = "unused"
  BY <1>0, ReportSettles
<1>3. TypeOK'
  BY <1>0, <1>1, <1>2 DEF TypeOK, record
<1>4. HandlingInv'
  <2>1. PendingFits' /\ QueueFits'
    BY <1>0, SameFits DEF HandlingInv, PendingFits, QueueFits
  <2>2. \A u \in Threads : JobFits(u)'
    BY <1>0, <1>1, SameFits DEF HandlingInv, JobFits
  <2> QED BY <1>0, <1>2, <2>1, <2>2 DEF HandlingInv, ToCome, record
<1>5. NoLostFuture'
  <2> SUFFICES ASSUME NEW g \in 1..calls, future'[g] = "pending"
               PROVE  Carried(g)' \/ (g \in forgotten' /\ method'[g] = "disconnect")
    BY DEF NoLostFuture, record
  <2>1. g # f /\ future[g] = "pending"
    BY <1>0, <1>2
  <2>2. Carried(g) => Carried(g)'
    BY <1>1, <2>1 DEF Carried
  <2> QED BY <1>0, <2>1, <2>2 DEF NoLostFuture, record
<1>6. DestinationInv'
  <2>1. ASSUME ~overlapped
        PROVE  OneConnect' /\ ResolveInv'
    <3>1. OneConnect /\ ResolveInv
      BY <1>0, <2>1 DEF DestinationInv
    <3>2. /\ ConnectOps' = ConnectOps /\ ConnectItems' = ConnectItems
          /\ \A u \in ConnectThreads' : u \in ConnectThreads /\ u # t /\ job'[u] = job[u]
      BY <1>1 DEF ConnectOps, ConnectItems, ConnectThreads, record
    <3>3. /\ \A op \in ConnectOps : op.future # f
          /\ \A i \in ConnectItems : ioQueue[i].future # f
          /\ \A u \in ConnectThreads : u # t => job[u].future # f
      <4>1. CASE t \in ConnectThreads
        BY <3>1, <4>1 DEF OneConnect
      <4>2. CASE t \notin ConnectThreads
        <5>1. method[f] # "connect"
          BY <1>0, <4>2 DEF ConnectThreads, HandlingInv, JobFits, Fits
        <5> QED BY <3>1, <5>1 DEF OneConnect, UnderWay
      <4> QED BY <4>1, <4>2
    <3>4. \A g \in Futures : g # f /\ UnderWay(g) => UnderWay(g)'
      BY <1>2 DEF UnderWay, record
    <3>5. /\ \A op \in ConnectOps : op.future \in Futures
          /\ \A i \in ConnectItems : ioQueue[i].future \in Futures
          /\ \A u \in ConnectThreads : job[u].future \in Futures
      <4>1. \A op \in ConnectOps : op.future \in Futures
        BY <1>0 DEF ConnectOps, TypeOK, Operations
      <4>2. \A i \in 1..Len(ioQueue) : ioQueue[i] \in Items
        BY <1>0 DEF TypeOK
      <4>3. \A i \in ConnectItems : ioQueue[i].future \in Futures
        BY <4>2 DEF ConnectItems, Items
      <4>4. \A u \in ConnectThreads : job[u].future \in Futures
        BY InHands DEF ConnectThreads
      <4> QED BY <4>1, <4>3, <4>4
    <3>6. OneConnect'
      BY <3>1, <3>2, <3>3, <3>4, <3>5 DEF OneConnect
    <3> QED BY <3>1, <3>6 DEF ResolveInv
  <2> QED BY <1>0, <2>1 DEF DestinationInv, OneDestination, record
<1>7. ASSUME alone' PROVE AloneInv'
  <2>1. AloneInv /\ alone /\ t = Io
    BY <1>7, SocketAssumption DEF IInv, record, AloneInv, Threads
  <2>2. \A u \in Users : u \in Threads /\ u # Io
    BY SocketAssumption DEF Threads
  <2>3. pc'[Io] = "idle" /\ \A u \in Users : pc'[u] = "idle"
    BY <1>1, <2>1, <2>2 DEF AloneInv
  <2>4. connState' = "Ready" => socket # "closed" /\ (~overlapped => socket = "connected")
    BY <2>1 DEF AloneInv
  <2> QED BY <2>1, <2>3, <2>4 DEF AloneInv, record
<1> QED BY <1>3, <1>4, <1>5, <1>6, <1>7 DEF IInv

\* A thread other than the io thread posts a task for the future it has in hands.
LEMMA PostStep ==
    ASSUME IInv, NEW t \in Threads, t # Io, NEW f \in Futures, NEW kind \in {"connectTask", "closeTask"},
           ioQueue' = Append(ioQueue, Item(kind, f, TRUE)),
           pc[t] \in {"checked", "store"}, job[t].future = f, Idle(t), Fits(kind, f),
           connState' \in States,
           UNCHANGED <<socket, pending, future, forgotten, went, endpoints, record>>
    PROVE  IInv'
<1> DEFINE x == Item(kind, f, TRUE)
<1>0. TypeOK /\ HandlingInv /\ NoLostFuture /\ DestinationInv /\ 1..calls \subseteq Futures
  BY InHands DEF IInv
<1>1. /\ pc'[t] = "idle" /\ pc' \in [Threads -> {"idle", "checked", "store", "start"}]
      /\ job' \in [Threads -> Jobs]
      /\ \A u \in Threads : u # t => pc'[u] = pc[u] /\ job'[u] = job[u]
  BY <1>0, Idled
<1>2. x \in Items /\ x.kind = kind /\ x.future = f
  BY DEF Items, Item, Kinds
<1>3. ioQueue' = Append(ioQueue, x)
  OBVIOUS
<1> HIDE DEF x
<1>4. /\ ioQueue' \in Seq(Items)
      /\ \A i \in 1..Len(ioQueue) : i \in 1..Len(ioQueue') /\ ioQueue'[i] = ioQueue[i]
      /\ Len(ioQueue') \in 1..Len(ioQueue') /\ ioQueue'[Len(ioQueue')] = x
      /\ \A i \in 1..Len(ioQueue') : i \in 1..Len(ioQueue) \/ (i = Len(ioQueue') /\ ioQueue'[i] = x)
  BY <1>0, <1>2, <1>3, Appended DEF TypeOK
<1>5. TypeOK'
  BY <1>0, <1>1, <1>4 DEF TypeOK, record
<1>6. HandlingInv'
  <2>1. PendingFits' /\ QueueFits'
    BY <1>0, <1>2, <1>4, SameFits DEF HandlingInv, PendingFits, QueueFits
  <2>2. \A u \in Threads : JobFits(u)'
    BY <1>0, <1>1, SameFits DEF HandlingInv, JobFits
  <2> QED BY <1>0, <2>1, <2>2 DEF HandlingInv, ToCome, record
<1>7. NoLostFuture'
  <2>1. \A g \in 1..calls : Carried(g) => Carried(g)'
    <3>1. Carried(f)'
      BY <1>2, <1>4 DEF Carried
    <3>2. \A g \in 1..calls : g # f /\ Carried(g) => Carried(g)'
      BY <1>1, <1>4 DEF Carried
    <3> QED BY <3>1, <3>2
  <2> QED BY <1>0, <2>1 DEF NoLostFuture, record
<1>8. DestinationInv'
  <2>1. ASSUME ~overlapped
        PROVE  OneConnect' /\ ResolveInv'
    <3>1. OneConnect /\ ResolveInv
      BY <1>0, <2>1 DEF DestinationInv
    <3>2. /\ ConnectOps' = ConnectOps
          /\ \A u \in ConnectThreads' : u \in ConnectThreads /\ u # t /\ job'[u] = job[u]
      BY <1>1 DEF ConnectOps, ConnectThreads, record
    <3>3. \A g : UnderWay(g)' <=> UnderWay(g)
      BY DEF UnderWay, record
    <3>4. ASSUME kind = "connectTask" PROVE OneConnect'
      <4>1. t \in ConnectThreads
        BY <3>4, <1>0 DEF ConnectThreads, Fits
      <4>2. \A i \in ConnectItems' : ioQueue'[i] = x /\ i = Len(ioQueue')
        BY <3>1, <4>1, <1>4 DEF OneConnect, ConnectItems
      <4> QED BY <1>2, <3>1, <3>2, <3>3, <4>1, <4>2 DEF OneConnect
    <3>5. ASSUME kind = "closeTask" PROVE OneConnect'
      <4>1. ConnectItems' = ConnectItems /\ \A i \in ConnectItems : ioQueue'[i] = ioQueue[i]
        BY <3>5, <1>2, <1>4 DEF ConnectItems
      <4> QED BY <3>1, <3>2, <3>3, <4>1 DEF OneConnect
    <3>6. OneConnect'
      BY <3>4, <3>5
    <3>7. ResolveInv'
      BY <1>2, <1>4, <3>1 DEF ResolveInv
    <3> QED BY <3>6, <3>7
  <2> QED BY <1>0, <2>1 DEF DestinationInv, OneDestination, record
<1>9. ~alone'
  BY SocketAssumption DEF IInv, AloneInv, record, Threads
<1> QED BY <1>5, <1>6, <1>7, <1>8, <1>9 DEF IInv

\* connect() between its second test and its task.
LEMMA ConnectCheckedStep ==
    ASSUME IInv, NEW t \in Threads, connectChecked(t)
    PROVE  IInv'
<1>0. PICK f \in Futures : f = job[t].future
  BY InHands
<1>1. /\ TypeOK /\ pc[t] = "checked" /\ Fits("connect", f) /\ connState \in States
      /\ UNCHANGED <<connState, endpoints, forgotten, went, record>>
  BY <1>0 DEF IInv, HandlingInv, JobFits, connectChecked, TypeOK
<1>2. CASE /\ connState = "Ready" /\ reportErrorCode(f) /\ Idle(t)
           /\ UNCHANGED <<socket, pending, ioQueue>>
  BY <1>0, <1>1, <1>2, AnswerStep DEF reportErrorCode
<1>3. CASE connState # "Ready" /\ StartConnect(t, f, ioQueue) /\ UNCHANGED future
  <2>1. ioQueue \in Seq(Items)
    BY <1>1 DEF TypeOK
  <2> QED BY <1>0, <1>1, <1>3, <2>1, StartConnectStep
<1>4. CASE /\ t # Io /\ ioQueue' = Append(ioQueue, Item("connectTask", f, TRUE)) /\ Idle(t)
           /\ UNCHANGED <<socket, pending, future>>
  <2>1. Fits("connectTask", f)
    BY <1>1 DEF Fits
  <2> QED BY <1>0, <1>1, <1>4, <2>1, PostStep
<1> QED BY <1>0, <1>2, <1>3, <1>4 DEF connectChecked

\* The tasks of connect() and close() on the io thread.
LEMMA TaskStep ==
    ASSUME IInv, connectTask \/ closeTask
    PROVE  IInv'
<1>0. ioQueue # <<>> /\ pc[Io] = "idle" /\ Io \in Threads
  BY DEF connectTask, closeTask, Dequeue, Threads
<1>1. Rest \in Seq(Items)
  BY <1>0, Shifted
<1>2. PICK f \in Futures : f = Next1.future /\ Fits(Next1.kind, f)
  BY <1>0, Shifted
<1>3. CASE connectTask
  <2>1. Next1.kind = "connectTask"
    BY <1>3 DEF connectTask, Dequeue, Next1
  <2>2. ~alone
    BY <1>0, <2>1, Shifted DEF IInv, AloneInv
  <2>3. Fits("connect", f)
    BY <1>2, <2>1 DEF Fits
  <2> QED BY <1>0, <1>1, <1>2, <1>3, <2>1, <2>2, <2>3, StartConnectStep DEF connectTask
<1>4. CASE closeTask
  <2>1. Next1.kind = "closeTask"
    BY <1>4 DEF closeTask, Dequeue, Next1
  <2> QED BY <1>0, <1>1, <1>2, <1>4, <2>1, RunCloseStep DEF closeTask
<1> QED BY <1>3, <1>4

------------------------------------------------------------------------------
\* async_connect on a new socket, after the state was stored.
LEMMA AsyncConnectStep ==
    ASSUME IInv, NEW t \in Threads, NEW f \in Futures, pc[t] = "store", job[t].future = f,
           job[t].target = "Connecting", Fits("connect", f),
           AsyncConnect(t), Stored(t), Idle(t), UNCHANGED <<endpoints, record>>
    PROVE  IInv'
<1> DEFINE op == [kind |-> "connect", future |-> f]
<1>0. /\ TypeOK /\ HandlingInv /\ NoLostFuture /\ DestinationInv /\ 1..calls \subseteq Futures
      /\ f \in 1..calls /\ method[f] = "connect" /\ UNCHANGED <<future, forgotten>>
      /\ method' = method /\ calls' = calls /\ overlapped' = overlapped
  BY InHands DEF IInv, Fits, AsyncConnect, record
<1>1. /\ pc'[t] = "idle" /\ pc' \in [Threads -> {"idle", "checked", "store", "start"}]
      /\ job' \in [Threads -> Jobs]
      /\ \A u \in Threads : u # t => pc'[u] = pc[u] /\ job'[u] = job[u]
  BY <1>0, Idled
<1>2. /\ ioQueue' \in Seq(Items)
      /\ \A i \in 1..Len(ioQueue) : i \in 1..Len(ioQueue') /\ ioQueue'[i] = ioQueue[i]
      /\ \A i \in 1..Len(ioQueue') :
            \/ i \in 1..Len(ioQueue) /\ ioQueue'[i] = ioQueue[i]
            \/ \E o \in OnSocket : /\ ioQueue'[i].kind = o.kind /\ ioQueue'[i].ok = FALSE
                                   /\ ioQueue'[i].future = o.future
      /\ \A o \in OnSocket : \E i \in 1..Len(ioQueue') : ioQueue'[i].future = o.future
  BY <1>0, Aborted DEF AsyncConnect, TypeOK, HandlingInv, PendingFits
<1>3. /\ op \in Operations /\ op.kind = "connect" /\ op.future = f
      /\ pending' = (pending \ OnSocket) \cup {op} /\ socket' = "open"
  BY DEF AsyncConnect, Operations, Kinds
<1> HIDE DEF op
<1>4. /\ went' \in [Futures -> Futures] /\ went'[f] = endpoints
      /\ \A g \in Futures : g # f => went'[g] = went[g]
  BY <1>0 DEF AsyncConnect, TypeOK
<1>5. connState' \in States
  BY <1>0 DEF Stored, TypeOK, States
<1>6. TypeOK'
  BY <1>0, <1>1, <1>2, <1>3, <1>4, <1>5 DEF TypeOK, record
<1>7. HandlingInv'
  <2>1. IsFiniteSet(pending')
    BY <1>0, <1>3, FS_Subset, FS_AddElement DEF HandlingInv, PendingFits
  <2>2. PendingFits'
    <3>1. \A o \in pending' : o \in pending \/ o = op
      BY <1>3
    <3> QED BY <1>0, <1>3, <2>1, <3>1, SameFits DEF HandlingInv, PendingFits
  <2>3. QueueFits'
    <3>1. \A o \in OnSocket : Fits(o.kind, o.future)
      BY <1>0 DEF HandlingInv, PendingFits, OnSocket
    <3> QED BY <1>0, <1>2, <3>1, SameFits DEF HandlingInv, QueueFits
  <2>4. \A u \in Threads : JobFits(u)'
    BY <1>0, <1>1, SameFits DEF HandlingInv, JobFits
  <2>5. ToCome'
    <3>1. \A g \in Futures : g > calls => g # f
      BY <1>0 DEF TypeOK
    <3> QED BY <1>0, <1>4, <3>1 DEF HandlingInv, ToCome
  <2> QED BY <2>2, <2>3, <2>4, <2>5 DEF HandlingInv
<1>8. NoLostFuture'
  <2>1. Carried(f)'
    BY <1>3 DEF Carried
  <2>2. \A g \in 1..calls : g # f /\ Carried(g) => Carried(g)'
    <3> SUFFICES ASSUME NEW g \in 1..calls, g # f, Carried(g) PROVE Carried(g)'
      OBVIOUS
    <3>1. CASE \E o \in pending : o.future = g
      <4>1. PICK o \in pending : o.future = g
        BY <3>1
      <4>2. o \in OnSocket \/ o \in pending'
        BY <1>3
      <4> QED BY <4>1, <4>2, <1>2 DEF Carried
    <3>2. CASE \E i \in 1..Len(ioQueue) : ioQueue[i].future = g
      BY <3>2, <1>2 DEF Carried
    <3>3. CASE \E u \in Threads : pc[u] # "idle" /\ job[u].future = g
      BY <3>3, <1>1 DEF Carried
    <3> QED BY <3>1, <3>2, <3>3 DEF Carried
  <2> QED BY <1>0, <2>1, <2>2 DEF NoLostFuture
<1>9. DestinationInv'
  <2>1. ASSUME ~overlapped
        PROVE  OneConnect' /\ ResolveInv' /\ UnderWay(f)
    <3>1. OneConnect /\ ResolveInv
      BY <1>0, <2>1 DEF DestinationInv
    <3>2. t \in ConnectThreads
      BY <1>0 DEF ConnectThreads
    <3>3. /\ ConnectOps = {} /\ ConnectItems = {} /\ \A u \in ConnectThreads : u = t
          /\ UnderWay(f)
      BY <3>1, <3>2 DEF OneConnect
    <3>4. ConnectThreads' = {}
      BY <1>0, <1>1, <3>3 DEF ConnectThreads
    <3>5. ConnectOps' = {op}
      BY <1>3, <3>3 DEF ConnectOps
    <3>6. \A o \in OnSocket : o.kind \notin {"connectTask", "resolve", "connect"}
      BY <1>0, <3>3 DEF ConnectOps, OnSocket, HandlingInv, PendingFits
    <3>7. ConnectItems' = {}
      BY <1>2, <3>3, <3>6 DEF ConnectItems
    <3>8. UnderWay(f)'
      BY <1>0, <3>3 DEF UnderWay
    <3>9. OneConnect'
      BY <1>3, <3>4, <3>5, <3>7, <3>8 DEF OneConnect
    <3>10. ResolveInv'
      <4>1. \A o \in pending' : o.kind # "resolve"
        BY <1>3, <3>3 DEF ConnectOps
      <4>2. \A i \in 1..Len(ioQueue') : ioQueue'[i].kind \notin {"resolve", "connect"}
        BY <3>7 DEF ConnectItems
      <4> QED BY <4>1, <4>2 DEF ResolveInv
    <3> QED BY <3>3, <3>9, <3>10
  <2>2. OneDestination'
    BY <1>0, <1>4, <2>1 DEF DestinationInv, OneDestination, UnderWay
  <2> QED BY <1>0, <2>1, <2>2 DEF DestinationInv
<1>10. ASSUME alone' PROVE AloneInv'
  <2>1. AloneInv /\ alone /\ t = Io
    BY <1>10, SocketAssumption DEF IInv, record, AloneInv, Threads
  <2>2. \A u \in Users : u \in Threads /\ u # Io
    BY SocketAssumption DEF Threads
  <2>3. pc'[Io] = "idle" /\ \A u \in Users : pc'[u] = "idle"
    BY <1>1, <2>1, <2>2 DEF AloneInv
  <2>4. connState' # "Ready"
    BY <2>1 DEF Stored, AloneInv
  <2>5. \A i \in 1..Len(ioQueue') : ioQueue'[i].kind \notin {"connectTask", "closeTask"}
    BY <1>0, <1>2, <2>1 DEF AloneInv, HandlingInv, PendingFits, OnSocket
  <2> QED BY <2>3, <2>4, <2>5 DEF AloneInv
<1> QED BY <1>6, <1>7, <1>8, <1>9, <1>10 DEF IInv

\* The store of setConnectivityState and what follows it.
LEMMA StoreStep ==
    ASSUME IInv, NEW t \in Threads, Store(t)
    PROVE  IInv'
<1>0. PICK f \in Futures : f = job[t].future
  BY InHands
<1>1. /\ TypeOK /\ pc[t] = "store" /\ JobFits(t) /\ Stored(t) /\ Idle(t)
      /\ connState \in States /\ job[t].target \in States /\ job[t].store \in BOOLEAN
      /\ UNCHANGED <<endpoints, record>>
  <2>1. job[t] \in Jobs
    BY DEF IInv, TypeOK
  <2> QED BY <2>1 DEF IInv, HandlingInv, Store, TypeOK, Jobs
<1>2. connState' \in States /\ (connState' = connState \/ connState' = job[t].target)
  BY <1>1 DEF Stored
<1>3. CASE AsyncConnect(t)
  <2>1. job[t].target = "Connecting" /\ Fits("connect", f)
    BY <1>0, <1>1, <1>3 DEF AsyncConnect, JobFits
  <2> QED BY <1>0, <1>1, <1>3, <2>1, AsyncConnectStep
<1>4. CASE ReportOutcome(t)
  <2>1. connState' = "Ready" => connState = "Ready" \/ (pc[t] = "store" /\ job[t].next = "finish")
    BY <1>1, <1>2, <1>4 DEF ReportOutcome, JobFits
  <2>2. Report(f, "finished") \/ Report(f, "failed")
    BY <1>0, <1>4 DEF ReportOutcome, reportErrorCode
  <2> QED BY <1>0, <1>1, <1>2, <1>4, <2>1, <2>2, AnswerStep DEF ReportOutcome
<1>5. CASE job[t].next = "postClose"
  <2>1. /\ job[t].target \in {"TransitentFailure", "Shutdown"} /\ Fits("closeTask", f)
        /\ connState' = "Ready" => connState = "Ready"
    BY <1>0, <1>1, <1>2, <1>5 DEF JobFits
  <2>2. CASE CloseNow(t)
    <3>1. connState' = job[t].target
      BY <1>1, <2>2 DEF CloseNow, SetReturned, Stored
    <3>2. RunClose(f, ioQueue) /\ UNCHANGED went /\ ioQueue \in Seq(Items)
      BY <1>0, <1>1, <2>2 DEF CloseNow, TypeOK
    <3> QED BY <1>0, <1>1, <2>1, <3>1, <3>2, RunCloseStep
  <2>3. CASE CloseLater(t)
    BY <1>0, <1>1, <1>2, <2>1, <2>3, PostStep DEF CloseLater
  <2>4. CASE CloseRefused(t)
    BY <1>0, <1>1, <1>2, <2>1, <2>4, AnswerStep DEF CloseRefused, reportErrorCode
  <2> QED BY <1>3, <1>4, <2>2, <2>3, <2>4 DEF Store
<1> QED BY <1>3, <1>4, <1>5 DEF Store, CloseNow, CloseLater, CloseRefused

------------------------------------------------------------------------------
\* The io thread takes a completion and loads the state.
LEMMA TakeStep ==
    ASSUME IInv, pc[Io] = "idle", ioQueue # <<>>, ioQueue' = Rest,
           NEW f \in Futures, f = Next1.future,
           NEW target \in States, NEW next \in {"asyncConnect", "finish", "fail"},
           setConnectivityState(Io, target, next, f),
           \/ /\ next = "asyncConnect" /\ target = "Connecting" /\ endpoints' = f
              /\ Next1.kind = "resolve"
           \/ /\ next = "finish" /\ target = "Ready" /\ endpoints' = endpoints
              /\ Next1.kind = "connect" /\ Next1.ok /\ socket # "closed"
           \/ /\ next = "fail" /\ target = "TransitentFailure" /\ endpoints' = endpoints
              /\ Next1.kind \in {"connect", "read", "write"},
           UNCHANGED <<connState, socket, pending, future, forgotten, went, record>>
    PROVE  IInv'
<1>0. /\ TypeOK /\ HandlingInv /\ NoLostFuture /\ DestinationInv /\ Io \in Threads
      /\ f \in 1..calls /\ Fits(Next1.kind, f) /\ f # 0 /\ 1..calls \subseteq Futures
      /\ method' = method /\ calls' = calls /\ overlapped' = overlapped
      /\ calls \in Nat
  BY Shifted, InHands DEF IInv, Threads, Fits, record, TypeOK
<1>1. /\ pc'[Io] = "store" /\ job'[Io].future = f
      /\ job'[Io].target = target /\ job'[Io].next = next
      /\ job'[Io].store <=> connState # "Shutdown"
      /\ pc' \in [Threads -> {"idle", "checked", "store", "start"}]
      /\ job' \in [Threads -> Jobs]
      /\ \A u \in Threads : u # Io => pc'[u] = pc[u] /\ job'[u] = job[u]
  BY <1>0, Loaded
<1>2. /\ ioQueue' \in Seq(Items)
      /\ \A i \in 1..Len(ioQueue') : i + 1 \in 1..Len(ioQueue) /\ ioQueue'[i] = ioQueue[i + 1]
      /\ \A i \in 1..Len(ioQueue) : i = 1 \/ \E j \in 1..Len(ioQueue') : i = j + 1
      /\ \A i, j \in 1..Len(ioQueue') : i + 1 = j + 1 => i = j
      /\ \A i \in 1..Len(ioQueue') : i + 1 # 1
      /\ 1 \in 1..Len(ioQueue) /\ ioQueue[1] = Next1
  BY Shifted
<1>3. endpoints' \in Futures /\ endpoints' <= calls
  BY <1>0 DEF TypeOK, DestinationInv
<1>4. TypeOK'
  BY <1>0, <1>1, <1>2, <1>3 DEF TypeOK, record
<1>5. HandlingInv'
  <2>1. PendingFits' /\ QueueFits'
    BY <1>0, <1>2, SameFits DEF HandlingInv, PendingFits, QueueFits
  <2>2. JobFits(Io)'
    <3>1. /\ next \in {"asyncConnect", "finish"} => Fits("connect", f)
          /\ next = "fail" => \E kind \in {"connect", "read", "write"} : Fits(kind, f)
      BY <1>0 DEF Fits
    <3> QED BY <1>1, <3>1, SameFits DEF JobFits
  <2>3. \A u \in Threads : u # Io => JobFits(u)'
    BY <1>0, <1>1, SameFits DEF HandlingInv, JobFits
  <2> QED BY <1>0, <2>1, <2>2, <2>3 DEF HandlingInv, ToCome
<1>6. NoLostFuture'
  <2>1. Io \in Threads /\ pc'[Io] # "idle" /\ job'[Io].future = f
    BY <1>0, <1>1
  <2>2. \A g \in 1..calls : g # f /\ Carried(g) => Carried(g)'
    <3> SUFFICES ASSUME NEW g \in 1..calls, g # f, Carried(g) PROVE Carried(g)'
      OBVIOUS
    <3>1. CASE \E o \in pending : o.future = g
      BY <3>1 DEF Carried
    <3>2. CASE \E i \in 1..Len(ioQueue) : ioQueue[i].future = g
      <4>1. PICK i \in 1..Len(ioQueue) : ioQueue[i].future = g
        BY <3>2
      <4>2. PICK j \in 1..Len(ioQueue') : i = j + 1
        BY <4>1, <1>2
      <4> QED BY <4>1, <4>2, <1>2 DEF Carried
    <3>3. CASE \E u \in Threads : pc[u] # "idle" /\ job[u].future = g
      BY <3>3, <1>1 DEF Carried
    <3> QED BY <3>1, <3>2, <3>3 DEF Carried
  <2>3. Carried(f)'
    BY <2>1 DEF Carried
  <2> QED BY <1>0, <2>2, <2>3 DEF NoLostFuture
<1>7. ASSUME ~overlapped
      PROVE  OneConnect' /\ ResolveInv' /\ (Next1.kind = "resolve" => endpoints = 0)
             /\ (Next1.kind = "connect" /\ Next1.ok => socket # "open")
  <2>1. OneConnect /\ ResolveInv
    BY <1>0, <1>7 DEF DestinationInv
  <2>2. /\ Next1.kind = "resolve" => endpoints = 0
        /\ Next1.kind = "connect" /\ Next1.ok => socket # "open"
    BY <1>2, <2>1 DEF ResolveInv
  <2>3. \A i \in ConnectItems' : i + 1 \in ConnectItems /\ ioQueue'[i] = ioQueue[i + 1]
    BY <1>2 DEF ConnectItems
  <2>4. ConnectOps' = ConnectOps
    BY DEF ConnectOps
  <2>5. \A u \in ConnectThreads' : u # Io => u \in ConnectThreads /\ job'[u] = job[u]
    BY <1>0, <1>1 DEF ConnectThreads
  <2>6. CASE Next1.kind \in {"resolve", "connect"}
    <3>1. 1 \in ConnectItems
      BY <1>2, <2>6 DEF ConnectItems
    <3>2. ConnectOps = {} /\ ConnectThreads = {} /\ UnderWay(f)
      BY <2>1, <3>1, <1>2 DEF OneConnect
    <3>3. ConnectItems' = {}
      BY <1>2, <2>1, <2>3, <3>1 DEF OneConnect, ConnectItems
    <3>4. ConnectThreads' \subseteq {Io}
      BY <2>5, <3>2 DEF ConnectThreads
    <3>5. UnderWay(f)'
      BY <1>0, <3>2 DEF UnderWay, TypeOK
    <3>6. OneConnect'
      BY <1>1, <2>4, <3>2, <3>3, <3>4, <3>5 DEF OneConnect
    <3>7. \A o \in pending' : o.kind # "resolve"
      BY <3>2 DEF ConnectOps
    <3>8. \A i \in 1..Len(ioQueue') : ioQueue'[i].kind \notin {"resolve", "connect"}
      BY <3>3 DEF ConnectItems
    <3>9. ResolveInv'
      BY <3>7, <3>8 DEF ResolveInv
    <3> QED BY <2>2, <3>6, <3>9
  <2>7. CASE Next1.kind \in {"read", "write"}
    <3>1. method[f] # "connect" /\ endpoints' = endpoints
      BY <1>0, <2>7 DEF Fits
    <3>2. Io \notin ConnectThreads'
      BY <1>0, <1>1, <3>1 DEF ConnectThreads
    <3>3. \A g : UnderWay(g)' <=> UnderWay(g)
      BY <1>0, <3>1 DEF UnderWay
    <3>4. \A i, j \in ConnectItems' : i = j
      <4>1. \A i, j \in ConnectItems' : i + 1 = j + 1 /\ i \in 1..Len(ioQueue') /\ j \in 1..Len(ioQueue')
        BY <2>1, <2>3 DEF OneConnect, ConnectItems
      <4> QED BY <4>1, <1>2
    <3>5. OneConnect'
      BY <2>1, <2>3, <2>4, <2>5, <3>2, <3>3, <3>4 DEF OneConnect
    <3>6. ResolveInv'
      BY <1>2, <2>1, <3>1 DEF ResolveInv
    <3> QED BY <2>2, <3>5, <3>6
  <2> QED BY <2>6, <2>7
<1>8. DestinationInv'
  <2>1. OneDestination'
    <3> SUFFICES ASSUME NEW g \in 1..calls, ~overlapped, went[g] # 0
                 PROVE  went[g] = endpoints' /\ endpoints' <= g
      BY <1>0 DEF OneDestination
    <3>1. went[g] = endpoints /\ endpoints <= g
      BY <1>0 DEF DestinationInv, OneDestination
    <3> QED BY <1>7, <3>1
  <2> QED BY <1>0, <1>3, <1>7, <2>1 DEF DestinationInv
<1>9. ASSUME alone' PROVE AloneInv'
  <2>1. AloneInv /\ alone
    BY <1>9 DEF IInv, record
  <2>2. \A u \in Users : u \in Threads /\ u # Io
    BY SocketAssumption DEF Threads
  <2>3. \A u \in Users : pc'[u] = "idle"
    BY <1>1, <2>1, <2>2 DEF AloneInv
  <2>4. socket = "closed" \/ socket = "open" \/ socket = "connected"
    BY <1>0 DEF TypeOK
  <2>5. next = "finish" => socket # "closed" /\ (~overlapped => socket = "connected")
    BY <1>7, <2>4
  <2>6. \A i \in 1..Len(ioQueue') : ioQueue'[i].kind \notin {"connectTask", "closeTask"}
    BY <1>2, <2>1 DEF AloneInv
  <2>7. connState = "Ready" => socket # "closed" /\ (~overlapped => socket = "connected")
    BY <2>1 DEF AloneInv
  <2> QED BY <1>0, <1>1, <2>3, <2>5, <2>6, <2>7 DEF AloneInv
<1> QED BY <1>4, <1>5, <1>6, <1>8, <1>9 DEF IInv

\* The io thread takes a completion and reports it.
LEMMA ReportStep ==
    ASSUME IInv, ioQueue # <<>>, ioQueue' = Rest, NEW f \in Futures, f = Next1.future,
           NEW outcome \in {"finished", "failed"}, Report(f, outcome),
           Next1.kind \in {"resolve", "read", "write"},
           UNCHANGED <<connState, socket, endpoints, pending, thread, forgotten, went, record>>
    PROVE  IInv'
<1>0. /\ TypeOK /\ HandlingInv /\ NoLostFuture /\ DestinationInv
      /\ f \in 1..calls /\ Fits(Next1.kind, f) /\ 1..calls \subseteq Futures
      /\ method' = method /\ calls' = calls /\ overlapped' = overlapped
      /\ pc' = pc /\ job' = job
  <2>1. 1..calls \subseteq Futures
    BY SocketAssumption DEF IInv, TypeOK, Futures
  <2>2. Fits(Next1.kind, f)
    BY Shifted
  <2> QED BY <2>1, <2>2 DEF IInv, Fits, record, thread
<1>1. /\ future' \in [Futures -> {"unused", "pending", "finished", "failed"}]
      /\ future'[f] # "pending"
      /\ \A g \in Futures : g # f => future'[g] = future[g]
      /\ \A g \in Futures : future[g] = "unused" => future'[g] = "unused"
  BY <1>0, ReportSettles
<1>2. /\ ioQueue' \in Seq(Items)
      /\ \A i \in 1..Len(ioQueue') : i + 1 \in 1..Len(ioQueue) /\ ioQueue'[i] = ioQueue[i + 1]
      /\ \A i \in 1..Len(ioQueue) : i = 1 \/ \E j \in 1..Len(ioQueue') : i = j + 1
      /\ \A i, j \in 1..Len(ioQueue') : i + 1 = j + 1 => i = j
      /\ \A i \in 1..Len(ioQueue') : i + 1 # 1
      /\ 1 \in 1..Len(ioQueue) /\ ioQueue[1] = Next1
  BY Shifted
<1>3. TypeOK'
  BY <1>0, <1>1, <1>2 DEF TypeOK, record
<1>4. HandlingInv'
  <2>1. PendingFits' /\ QueueFits'
    BY <1>0, <1>2, SameFits DEF HandlingInv, PendingFits, QueueFits
  <2>2. \A u \in Threads : JobFits(u)'
    BY <1>0, SameFits DEF HandlingInv, JobFits
  <2> QED BY <1>0, <1>1, <2>1, <2>2 DEF HandlingInv, ToCome
<1>5. NoLostFuture'
  <2> SUFFICES ASSUME NEW g \in 1..calls, future'[g] = "pending"
               PROVE  Carried(g)' \/ (g \in forgotten' /\ method'[g] = "disconnect")
    BY <1>0 DEF NoLostFuture
  <2>1. g # f /\ future[g] = "pending"
    BY <1>0, <1>1
  <2>2. ASSUME Carried(g) PROVE Carried(g)'
    <3>1. CASE \E o \in pending : o.future = g
      BY <3>1 DEF Carried
    <3>2. CASE \E i \in 1..Len(ioQueue) : ioQueue[i].future = g
      <4>1. PICK i \in 1..Len(ioQueue) : ioQueue[i].future = g
        BY <3>2
      <4>2. PICK j \in 1..Len(ioQueue') : i = j + 1
        BY <4>1, <1>2, <2>1
      <4> QED BY <4>1, <4>2, <1>2 DEF Carried
    <3>3. CASE \E u \in Threads : pc[u] # "idle" /\ job[u].future = g
      BY <3>3, <1>0 DEF Carried
    <3> QED BY <2>2, <3>1, <3>2, <3>3 DEF Carried
  <2> QED BY <1>0, <2>1, <2>2 DEF NoLostFuture
<1>6. DestinationInv'
  <2>1. ASSUME ~overlapped
        PROVE  OneConnect' /\ ResolveInv'
    <3>1. OneConnect /\ ResolveInv
      BY <1>0, <2>1 DEF DestinationInv
    <3>2. ConnectOps' = ConnectOps /\ ConnectThreads' = ConnectThreads
      BY <1>0 DEF ConnectOps, ConnectThreads
    <3>3. \A i \in ConnectItems' : i + 1 \in ConnectItems /\ ioQueue'[i] = ioQueue[i + 1]
      BY <1>2 DEF ConnectItems
    <3>4. CASE Next1.kind = "resolve"
      <4>1. 1 \in ConnectItems
        BY <1>2, <3>4 DEF ConnectItems
      <4>2. ConnectOps = {} /\ ConnectThreads = {}
        BY <3>1, <4>1 DEF OneConnect
      <4>3. ConnectItems' = {}
        BY <1>2, <3>1, <3>3, <4>1 DEF OneConnect, ConnectItems
      <4>4. OneConnect'
        BY <3>2, <4>2, <4>3 DEF OneConnect
      <4> QED BY <1>2, <3>1, <4>4 DEF ResolveInv
    <3>5. CASE Next1.kind \in {"read", "write"}
      <4>1. method[f] # "connect"
        BY <1>0, <3>5 DEF Fits
      <4>2. \A g \in Futures : UnderWay(g) => UnderWay(g)'
        BY <1>0, <1>1, <4>1 DEF UnderWay
      <4>3. /\ \A op \in ConnectOps : op.future \in Futures
            /\ \A u \in ConnectThreads : job[u].future \in Futures
        BY <1>0, InHands DEF ConnectOps, ConnectThreads, TypeOK, Operations
      <4>4. \A i \in 1..Len(ioQueue') : ioQueue'[i].future \in Futures
        <5>1. \A i \in 1..Len(ioQueue') : ioQueue'[i] \in Items
          BY <1>2
        <5> QED BY <5>1 DEF Items
      <4>5. \A i, j \in ConnectItems' : i = j
        <5>1. \A i, j \in ConnectItems' : i + 1 = j + 1 /\ i \in 1..Len(ioQueue') /\ j \in 1..Len(ioQueue')
          BY <3>1, <3>3 DEF OneConnect, ConnectItems
        <5> QED BY <5>1, <1>2
      <4>6. (\A i \in ConnectItems : UnderWay(ioQueue[i].future))'
        BY <3>1, <3>3, <4>2, <4>4 DEF OneConnect, ConnectItems
      <4>7. ConnectItems' # {} => ConnectItems # {}
        BY <3>3
      <4>8. OneConnect'
        BY <1>0, <3>1, <3>2, <4>2, <4>3, <4>5, <4>6, <4>7 DEF OneConnect
      <4> QED BY <1>2, <3>1, <4>8 DEF ResolveInv
    <3> QED BY <3>4, <3>5
  <2> QED BY <1>0, <2>1 DEF DestinationInv, OneDestination
<1>7. ASSUME alone' PROVE AloneInv'
  <2>1. AloneInv /\ alone
    BY <1>7 DEF IInv, record
  <2> QED BY <1>0, <1>2, <2>1 DEF AloneInv
<1> QED BY <1>3, <1>4, <1>5, <1>6, <1>7 DEF IInv

\* The handlers of asio's completions.
LEMMA HandlerStep ==
    ASSUME IInv, addressResolved \/ connected \/ transferred
    PROVE  IInv'
<1>0. ioQueue # <<>> /\ pc[Io] = "idle" /\ ioQueue' = Rest
  BY DEF addressResolved, connected, transferred, Dequeue
<1>1. PICK f \in Futures : f = Next1.future
  BY <1>0, Shifted
<1>2. \A target \in {"Connecting", "Ready", "TransitentFailure"} : target \in States
  BY DEF States
<1>3. CASE addressResolved
  <2>1. Next1.kind = "resolve"
    BY <1>3 DEF addressResolved, Dequeue, Next1
  <2> QED BY <1>0, <1>1, <1>2, <1>3, <2>1, TakeStep, ReportStep DEF addressResolved, reportErrorCode
<1>4. CASE connected
  <2>1. Next1.kind = "connect" /\ UNCHANGED endpoints
    BY <1>4 DEF connected, Dequeue, Next1
  <2> QED BY <1>0, <1>1, <1>2, <1>4, <2>1, TakeStep DEF connected, Success
<1>5. CASE transferred
  <2>1. Next1.kind \in {"read", "write"} /\ UNCHANGED endpoints
    BY <1>5 DEF transferred, Dequeue, Next1
  <2> QED BY <1>0, <1>1, <1>2, <1>5, <2>1, TakeStep, ReportStep DEF transferred
<1> QED BY <1>3, <1>4, <1>5

\* The network ends an operation.
LEMMA CompleteStep ==
    ASSUME IInv, NEW op \in pending, NEW ok \in BOOLEAN, Complete(op, ok)
    PROVE  IInv'
<1> DEFINE x == Item(op.kind, op.future, ok)
<1>0. /\ TypeOK /\ HandlingInv /\ NoLostFuture /\ DestinationInv
      /\ op \in Operations /\ op.kind \notin {"connectTask", "closeTask"} /\ Fits(op.kind, op.future)
      /\ UNCHANGED <<connState, endpoints, future, thread, forgotten, went, record>>
      /\ pending' = pending \ {op}
      /\ method' = method /\ calls' = calls /\ overlapped' = overlapped
      /\ pc' = pc /\ job' = job
  BY DEF IInv, TypeOK, HandlingInv, PendingFits, Complete, record, thread
<1>1. /\ x \in Items /\ x.kind = op.kind /\ x.future = op.future
      /\ x.ok = ok
      /\ ioQueue' = Append(ioQueue, x)
  BY <1>0 DEF Complete, Item, Items, Operations
<1>2. /\ socket' = socket \/ (socket' = "connected" /\ op.kind = "connect" /\ ok)
      /\ op.kind = "connect" /\ ok => socket' = "connected"
  BY DEF Complete
<1> HIDE DEF x
<1>3. /\ ioQueue' \in Seq(Items)
      /\ \A i \in 1..Len(ioQueue) : i \in 1..Len(ioQueue') /\ ioQueue'[i] = ioQueue[i]
      /\ Len(ioQueue') \in 1..Len(ioQueue') /\ ioQueue'[Len(ioQueue')] = x
      /\ \A i \in 1..Len(ioQueue') : i \in 1..Len(ioQueue) \/ (i = Len(ioQueue') /\ ioQueue'[i] = x)
  BY <1>0, <1>1, Appended DEF TypeOK
<1>4. TypeOK'
  BY <1>0, <1>2, <1>3 DEF TypeOK, record
<1>5. HandlingInv'
  <2>1. IsFiniteSet(pending')
    BY <1>0, FS_Subset DEF HandlingInv, PendingFits
  <2>2. PendingFits' /\ QueueFits'
    BY <1>0, <1>1, <1>3, <2>1, SameFits DEF HandlingInv, PendingFits, QueueFits
  <2>3. \A u \in Threads : JobFits(u)'
    BY <1>0, SameFits DEF HandlingInv, JobFits
  <2> QED BY <1>0, <2>2, <2>3 DEF HandlingInv, ToCome
<1>6. NoLostFuture'
  <2>1. \A g \in 1..calls : Carried(g) => Carried(g)'
    <3> SUFFICES ASSUME NEW g \in 1..calls, Carried(g) PROVE Carried(g)'
      OBVIOUS
    <3>1. CASE op.future = g
      BY <3>1, <1>1, <1>3 DEF Carried
    <3>2. CASE op.future # g
      BY <3>2, <1>0, <1>3 DEF Carried
    <3> QED BY <3>1, <3>2
  <2> QED BY <1>0, <2>1 DEF NoLostFuture
<1>7. DestinationInv'
  <2>1. ASSUME ~overlapped
        PROVE  OneConnect' /\ ResolveInv'
    <3>1. OneConnect /\ ResolveInv
      BY <1>0, <2>1 DEF DestinationInv
    <3>2. ConnectThreads' = ConnectThreads /\ ConnectOps' = ConnectOps \ {op}
      BY <1>0 DEF ConnectThreads, ConnectOps
    <3>3. \A g : UnderWay(g)' <=> UnderWay(g)
      BY <1>0 DEF UnderWay
    <3>4. ASSUME op.kind \in {"resolve", "connect"} PROVE OneConnect'
      <4>1. op \in ConnectOps
        BY <3>4 DEF ConnectOps
      <4>2. \A i \in ConnectItems' : i = Len(ioQueue') /\ ioQueue'[i] = x
        BY <1>3, <3>1, <4>1 DEF OneConnect, ConnectItems
      <4>3. ConnectOps' = {} /\ ConnectThreads' = {}
        BY <3>1, <3>2, <4>1 DEF OneConnect
      <4>4. UnderWay(op.future)
        BY <3>1, <4>1 DEF OneConnect
      <4>5. (\A i \in ConnectItems : UnderWay(ioQueue[i].future))'
        BY <1>1, <3>3, <4>2, <4>4
      <4> QED BY <4>2, <4>3, <4>5 DEF OneConnect
    <3>5. ASSUME op.kind \notin {"resolve", "connect"} PROVE OneConnect'
      <4>1. ConnectItems' = ConnectItems /\ \A i \in ConnectItems : ioQueue'[i] = ioQueue[i]
        BY <3>5, <1>0, <1>1, <1>3 DEF ConnectItems
      <4>2. ConnectOps' = ConnectOps
        BY <3>2, <3>5 DEF ConnectOps
      <4> QED BY <1>0, <3>1, <3>2, <3>3, <4>1, <4>2 DEF OneConnect
    <3>6. ResolveInv'
      <4>1. \A o \in pending' : o.kind = "resolve" => endpoints' = 0
        BY <1>0, <3>1 DEF ResolveInv
      <4>2. ASSUME NEW i \in 1..Len(ioQueue')
            PROVE  /\ ioQueue'[i].kind = "resolve" => endpoints' = 0
                   /\ ioQueue'[i].kind = "connect" /\ ioQueue'[i].ok => socket' # "open"
        <5>1. CASE i \in 1..Len(ioQueue)
          BY <5>1, <1>0, <1>2, <1>3, <3>1 DEF ResolveInv
        <5>2. CASE ioQueue'[i] = x
          BY <5>2, <1>0, <1>1, <1>2, <3>1 DEF ResolveInv
        <5> QED BY <5>1, <5>2, <1>3
      <4> QED BY <4>1, <4>2 DEF ResolveInv
    <3> QED BY <3>4, <3>5, <3>6
  <2> QED BY <1>0, <2>1 DEF DestinationInv, OneDestination
<1>8. ASSUME alone' PROVE AloneInv'
  <2>1. AloneInv /\ alone
    BY <1>0, <1>8 DEF IInv, record
  <2>2. \A i \in 1..Len(ioQueue') : ioQueue'[i].kind \notin {"connectTask", "closeTask"}
    BY <1>0, <1>1, <1>3, <2>1 DEF AloneInv
  <2>3. socket # "closed" /\ (~overlapped => socket = "connected")
           => socket' # "closed" /\ (~overlapped => socket' = "connected")
    BY <1>2
  <2> QED BY <1>0, <2>1, <2>2, <2>3 DEF AloneInv
<1> QED BY <1>4, <1>5, <1>6, <1>7, <1>8 DEF IInv

------------------------------------------------------------------------------
LEMMA Inductive == IInv /\ [Next]_vars => IInv'
<1> SUFFICES ASSUME IInv, [Next]_vars PROVE IInv'
  OBVIOUS
<1>1. ASSUME NEW t \in Threads, Call(t)
      PROVE  IInv'
  BY <1>1, ConnectStep, CloseStep, TransferStep DEF Call, read, write
<1>2. ASSUME NEW t \in Threads, GoOn(t)
      PROVE  IInv'
  BY <1>2, ConnectCheckedStep, StartStep, StoreStep DEF GoOn
<1>3. CASE Handler
  BY <1>3, TaskStep, HandlerStep DEF Handler
<1>4. ASSUME NEW op \in pending, NEW ok \in BOOLEAN, Complete(op, ok)
      PROVE  IInv'
  BY <1>4, CompleteStep
<1>5. CASE UNCHANGED vars
  <2>1. \A f : Carried(f)' <=> Carried(f)
    BY <1>5 DEF vars, thread, Carried
  <2>2. HandlingInv'
    BY <1>5 DEF vars, thread, record, IInv, HandlingInv, PendingFits, QueueFits, JobFits, Fits, ToCome
  <2>3. NoLostFuture' /\ TypeOK'
    BY <1>5, <2>1 DEF vars, thread, record, IInv, NoLostFuture, TypeOK
  <2>4. DestinationInv'
    BY <1>5 DEF vars, thread, record, IInv, DestinationInv, OneDestination, OneConnect, ResolveInv,
                ConnectOps, ConnectItems, ConnectThreads, UnderWay
  <2>5. alone' => AloneInv'
    BY <1>5 DEF vars, thread, record, IInv, AloneInv
  <2> QED BY <2>2, <2>3, <2>4, <2>5 DEF IInv
<1> QED BY <1>1, <1>2, <1>3, <1>4, <1>5 DEF Next

LEMMA InductiveInvariant == Spec => []IInv
<1> QED BY Initially, Inductive, PTL DEF Spec

\* Whatever the threads call and whatever the network does, a future that is not
\* answered is in an operation, in the queue or in the hands of a thread, except
\* that of a disconnect whose task found the socket closed.
THEOREM NothingLost == Spec => []SocketInv
<1>1. IInv => SocketInv
  BY DEF IInv, SocketInv
<1> QED BY <1>1, InductiveInvariant, PTL

\* A handler used from its own thread is Ready only with an open socket, and with a
\* connected one unless connects overlapped, although the state and the socket are
\* changed in different steps.
THEOREM ReadyIsOpen == Spec => []ReadyMeansOpen
<1>1. IInv => ReadyMeansOpen
  BY DEF IInv, AloneInv, ReadyMeansOpen
<1> QED BY <1>1, InductiveInvariant, PTL

\* Connects that do not overlap all go where the first resolve said: resolverAddress
\* runs for want of a list only, and nothing empties the list.
THEOREM SameDestination == Spec => []OneDestination
<1>1. IInv => OneDestination
  BY DEF IInv, DestinationInv
<1> QED BY <1>1, InductiveInvariant, PTL

\* A handler used from its own thread never leaves Shutdown: what it loaded before a
\* store is still the state when it stores.
THEOREM StaysShutdown == Spec => ShutdownIsFinal
<1>1. IInv /\ [Next]_vars => [alone /\ connState = "Shutdown" => connState' = "Shutdown"]_vars
  <2> SUFFICES ASSUME IInv, Next, alone, connState = "Shutdown" PROVE connState' = "Shutdown"
    OBVIOUS
  <2>1. ASSUME NEW t \in Threads, Store(t)
        PROVE  connState' = connState
    <3>1. AloneInv /\ pc[t] = "store"
      BY <2>1 DEF IInv, Store
    <3>2. t = Io
      BY <3>1 DEF AloneInv, Threads
    <3> QED BY <2>1, <3>1, <3>2 DEF AloneInv, Store, Stored
  <2> QED BY <2>1 DEF Next, Call, GoOn, Handler, connect, disconnect, close, read, write, readOrWrite,
                      NewCall, connectChecked, StartOperation, connectTask, closeTask,
                      addressResolved, connected, transferred, Complete
<1> QED BY <1>1, InductiveInvariant, PTL DEF Spec, ShutdownIsFinal

------------------------------------------------------------------------------
\* A future is carried by one operation, one item of the queue or one thread, as
\* long as it is not settled, and by none afterwards.
InOps(ops, f) == \E op \in ops : op.future = f
InQueue(queue, f) == \E i \in 1..Len(queue) : queue[i].future = f
InJob(t, f) == pc[t] # "idle" /\ job[t].future = f

OnceQueued(ops, queue, f) ==
    /\ \A op1, op2 \in ops : op1.future = f /\ op2.future = f => op1 = op2
    /\ \A i, j \in 1..Len(queue) : queue[i].future = f /\ queue[j].future = f => i = j
    /\ ~(InOps(ops, f) /\ InQueue(queue, f))

CarriedOnce(f) ==
    /\ OnceQueued(pending, ioQueue, f)
    /\ \A t \in Threads : InJob(t, f) =>
          /\ ~InOps(pending, f) /\ ~InQueue(ioQueue, f)
          /\ \A u \in Threads : InJob(u, f) => u = t
    /\ Carried(f) => future[f] = "pending"

OnceInv == \A f \in 1..calls : CarriedOnce(f)

LEMMA CarriedIs ==
    ASSUME NEW f
    PROVE  Carried(f) <=> InOps(pending, f) \/ InQueue(ioQueue, f) \/ \E t \in Threads : InJob(t, f)
BY DEF Carried, InOps, InQueue, InJob

\* What is taken from the queue is in it no more.
LEMMA TakenOnce ==
    ASSUME IInv, ioQueue # <<>>, NEW f, OnceQueued(pending, ioQueue, f)
    PROVE  /\ OnceQueued(pending, Rest, f)
           /\ InQueue(Rest, f) => InQueue(ioQueue, f)
           /\ Next1.future = f => InQueue(ioQueue, f) /\ ~InQueue(Rest, f) /\ ~InOps(pending, f)
<1>1. /\ 1 \in 1..Len(ioQueue) /\ ioQueue[1] = Next1
      /\ \A i \in 1..Len(Rest) : i + 1 \in 1..Len(ioQueue) /\ Rest[i] = ioQueue[i + 1]
      /\ \A i, j \in 1..Len(Rest) : i + 1 = j + 1 => i = j
      /\ \A i \in 1..Len(Rest) : i + 1 # 1
  BY Shifted
<1>2. InQueue(Rest, f) => InQueue(ioQueue, f)
  BY <1>1 DEF InQueue
<1>3. \A i, j \in 1..Len(Rest) : Rest[i].future = f /\ Rest[j].future = f => i = j
  <2> TAKE i, j \in 1..Len(Rest)
  <2> HAVE Rest[i].future = f /\ Rest[j].future = f
  <2>1. i + 1 = j + 1
    BY <1>1 DEF OnceQueued
  <2> QED BY <2>1, <1>1
<1>4. Next1.future = f => InQueue(ioQueue, f) /\ ~InQueue(Rest, f) /\ ~InOps(pending, f)
  <2> HAVE Next1.future = f
  <2>1. InQueue(ioQueue, f)
    BY <1>1 DEF InQueue
  <2>2. \A i \in 1..Len(Rest) : Rest[i].future # f
    BY <1>1 DEF OnceQueued
  <2> QED BY <2>1, <2>2 DEF InQueue, OnceQueued
<1> QED BY <1>2, <1>3, <1>4 DEF OnceQueued

\* What nobody queued yet can be put behind the queue.
LEMMA AppendedOnce ==
    ASSUME NEW queue \in Seq(Items), NEW x \in Items, ioQueue' = Append(queue, x), NEW f,
           NEW ops, OnceQueued(ops, queue, f),
           x.future = f => ~InOps(ops, f) /\ ~InQueue(queue, f)
    PROVE  /\ OnceQueued(ops, ioQueue', f)
           /\ InQueue(ioQueue', f) => InQueue(queue, f) \/ x.future = f
<1>1. /\ \A i \in 1..Len(queue) : i \in 1..Len(ioQueue') /\ ioQueue'[i] = queue[i]
      /\ Len(ioQueue') \in 1..Len(ioQueue') /\ ioQueue'[Len(ioQueue')] = x
      /\ \A i \in 1..Len(ioQueue') : i \in 1..Len(queue) \/ i = Len(ioQueue')
  BY Appended
<1>2. InQueue(ioQueue', f) => InQueue(queue, f) \/ x.future = f
  BY <1>1 DEF InQueue
<1>3. \A i, j \in 1..Len(ioQueue') : ioQueue'[i].future = f /\ ioQueue'[j].future = f => i = j
  <2>1. CASE x.future = f
    <3>1. \A i \in 1..Len(queue) : queue[i].future # f
      BY <2>1 DEF InQueue
    <3> QED BY <1>1, <3>1
  <2>2. CASE x.future # f
    <3>1. \A i \in 1..Len(ioQueue') : ioQueue'[i].future = f => i \in 1..Len(queue)
      BY <1>1, <2>2
    <3> QED BY <1>1, <3>1 DEF OnceQueued
  <2> QED BY <2>1, <2>2
<1> QED BY <1>2, <1>3 DEF OnceQueued, InQueue

\* The operations that are aborted go to the queue, once each.
LEMMA AbortedOnce ==
    ASSUME IInv, NEW queue \in Seq(Items), AbortOperations(queue), NEW f,
           OnceQueued(pending, queue, f)
    PROVE  /\ OnceQueued(pending \ OnSocket, ioQueue', f)
           /\ InQueue(ioQueue', f) => InQueue(queue, f) \/ InOps(pending, f)
<1> DEFINE q == ioQueue'
<1>0. TypeOK /\ IsFiniteSet(pending)
  BY DEF IInv, HandlingInv, PendingFits
<1>1. /\ q \in Seq(Items)
      /\ \A i \in 1..Len(q) :
            \/ i \in 1..Len(queue) /\ q[i] = queue[i]
            \/ \E op \in OnSocket : /\ q[i].kind = op.kind /\ q[i].ok = FALSE
                                    /\ q[i].future = op.future
      /\ \A i, j \in 1..Len(q) \ 1..Len(queue) : q[i] = q[j] => i = j
      /\ \A i \in 1..Len(queue) : i \in 1..Len(q) /\ q[i] = queue[i]
  BY <1>0, Aborted
<1> HIDE DEF q
<1>2. OnSocket \subseteq pending
  BY DEF OnSocket
<1>3. InQueue(q, f) => InQueue(queue, f) \/ InOps(pending, f)
  BY <1>1, <1>2 DEF InQueue, InOps
<1>4. \A i \in 1..Len(q) : q[i] \in Items
  BY <1>1
<1>5. \A i, j \in 1..Len(q) : q[i].future = f /\ q[j].future = f => i = j
  <2> SUFFICES ASSUME NEW i \in 1..Len(q), NEW j \in 1..Len(q), q[i].future = f, q[j].future = f
               PROVE  i = j
    OBVIOUS
  <2>1. CASE InQueue(queue, f)
    <3>1. \A op \in OnSocket : op.future # f
      BY <2>1, <1>2 DEF OnceQueued, InOps
    <3>2. i \in 1..Len(queue) /\ j \in 1..Len(queue) /\ q[i] = queue[i] /\ q[j] = queue[j]
      BY <1>1, <3>1
    <3> QED BY <3>2 DEF OnceQueued
  <2>2. CASE ~InQueue(queue, f)
    <3>1. i \notin 1..Len(queue) /\ j \notin 1..Len(queue)
      BY <1>1, <2>2 DEF InQueue
    <3>2. PICK op1 \in OnSocket, op2 \in OnSocket :
             /\ q[i].kind = op1.kind /\ q[i].ok = FALSE /\ q[i].future = op1.future
             /\ q[j].kind = op2.kind /\ q[j].ok = FALSE /\ q[j].future = op2.future
      BY <1>1, <3>1
    <3>3. op1 = op2
      BY <1>2, <3>2 DEF OnceQueued
    <3>4. q[i] = q[j]
      BY <1>4, <3>2, <3>3 DEF Items
    <3> QED BY <1>1, <3>1, <3>4
  <2> QED BY <2>1, <2>2
<1>6. ~(InOps(pending \ OnSocket, f) /\ InQueue(q, f))
  <2> SUFFICES ASSUME NEW op \in pending \ OnSocket, op.future = f, InQueue(q, f) PROVE FALSE
    BY DEF InOps
  <2>1. ~InQueue(queue, f)
    BY DEF OnceQueued, InOps
  <2>2. PICK o \in OnSocket : o.future = f
    BY <1>1, <2>1 DEF InQueue
  <2>3. o = op
    BY <1>2, <2>2 DEF OnceQueued
  <2> QED BY <2>2, <2>3
<1>7. OnceQueued(pending \ OnSocket, q, f)
  BY <1>5, <1>6 DEF OnceQueued
<1> QED BY <1>3, <1>7 DEF q

\* A new operation.
LEMMA StartedOnce ==
    ASSUME NEW ops, NEW queue, NEW op, NEW f, OnceQueued(ops, queue, f),
           op.future = f => ~InOps(ops, f) /\ ~InQueue(queue, f)
    PROVE  /\ OnceQueued(ops \cup {op}, queue, f)
           /\ InOps(ops \cup {op}, f) => InOps(ops, f) \/ op.future = f
BY DEF OnceQueued, InOps

\* A step of a thread that has future g in hands, from before or from the queue: it
\* hands g on, to one place, or settles it.
LEMMA OnceStep ==
    ASSUME IInv, OnceInv, NEW t \in Threads, NEW g, UNCHANGED record,
           g \in 1..calls => future[g] = "pending" /\ \A u \in Threads : u # t => ~InJob(u, g),
           \A u \in Threads : u # t => pc'[u] = pc[u] /\ job'[u] = job[u],
           pc'[t] = "idle" \/ job'[t].future = g,
           \A f \in 1..calls :
              /\ OnceQueued(pending', ioQueue', f)
              /\ f # g => /\ future'[f] = future[f]
                          /\ InOps(pending', f) \/ InQueue(ioQueue', f)
                                => InOps(pending, f) \/ InQueue(ioQueue, f),
           g \in 1..calls =>
              /\ pc'[t] # "idle" => ~InOps(pending', g) /\ ~InQueue(ioQueue', g)
              /\ \/ future'[g] = future[g]
                 \/ pc'[t] = "idle" /\ ~InOps(pending', g) /\ ~InQueue(ioQueue', g)
    PROVE  OnceInv'
<1>0. calls' = calls
  BY DEF record
<1>1. \A f : \A u \in Threads : InJob(u, f)' => (u # t /\ InJob(u, f)) \/ (u = t /\ f = g /\ pc'[t] # "idle")
  BY DEF InJob
<1> SUFFICES ASSUME NEW f \in 1..calls PROVE CarriedOnce(f)'
  BY <1>0 DEF OnceInv
<1>2. CarriedOnce(f)
  BY DEF OnceInv
<1>3. CASE f = g
  <2>1. \A u \in Threads : InJob(u, f)' => u = t /\ pc'[t] # "idle"
    BY <1>1, <1>3
  <2>2. ASSUME NEW u \in Threads, InJob(u, f)'
        PROVE  /\ ~InOps(pending, f)' /\ ~InQueue(ioQueue, f)'
               /\ \A v \in Threads : InJob(v, f)' => v = u
    BY <2>1, <2>2, <1>3
  <2>3. Carried(f)' => future'[f] = "pending"
    <3>1. Carried(f)' => InOps(pending', f) \/ InQueue(ioQueue', f) \/ \E u \in Threads : InJob(u, f)'
      BY CarriedIs DEF Carried, InOps, InQueue, InJob
    <3> QED BY <3>1, <2>1, <1>3
  <2> QED BY <2>2, <2>3 DEF CarriedOnce
<1>4. CASE f # g
  <2>1. \A u \in Threads : InJob(u, f)' => u # t /\ InJob(u, f)
    BY <1>1, <1>4
  <2>2. ASSUME NEW u \in Threads, InJob(u, f)'
        PROVE  /\ ~InOps(pending, f)' /\ ~InQueue(ioQueue, f)'
               /\ \A v \in Threads : InJob(v, f)' => v = u
    BY <1>2, <1>4, <2>1, <2>2 DEF CarriedOnce
  <2>3. Carried(f)' => future'[f] = "pending"
    <3>1. Carried(f)' => InOps(pending', f) \/ InQueue(ioQueue', f) \/ \E u \in Threads : InJob(u, f)'
      BY DEF Carried, InOps, InQueue, InJob
    <3>2. Carried(f)' => Carried(f)
      BY <3>1, <2>1, <1>4, CarriedIs
    <3> QED BY <3>2, <1>2, <1>4 DEF CarriedOnce
  <2> QED BY <2>2, <2>3 DEF CarriedOnce
<1> QED BY <1>3, <1>4

\* What is known of the future that a thread has in hands.
LEMMA JobOnce ==
    ASSUME IInv, OnceInv, NEW t \in Threads, NEW g, InJob(t, g), g \in 1..calls
    PROVE  /\ future[g] = "pending" /\ ~InOps(pending, g) /\ ~InQueue(ioQueue, g)
           /\ \A u \in Threads : u # t => ~InJob(u, g)
<1>1. CarriedOnce(g)
  BY DEF OnceInv
<1> QED BY <1>1, CarriedIs DEF CarriedOnce

LEMMA QueueOnce ==
    ASSUME IInv, OnceInv, ioQueue # <<>>, NEW g, g = Next1.future, g \in 1..calls
    PROVE  /\ future[g] = "pending" /\ ~InOps(pending, g) /\ ~InQueue(Rest, g)
           /\ \A u \in Threads : ~InJob(u, g)
<1>1. CarriedOnce(g)
  BY DEF OnceInv
<1>2. InQueue(ioQueue, g) /\ ~InQueue(Rest, g) /\ ~InOps(pending, g)
  BY <1>1, TakenOnce DEF CarriedOnce
<1> QED BY <1>1, <1>2, CarriedIs DEF CarriedOnce

\* What a step starts from: the queue as it is, or what is left of it.
Source(t, queue, g) ==
    \/ queue = ioQueue /\ InJob(t, g)
    \/ queue = Rest /\ ioQueue # <<>> /\ g = Next1.future

LEMMA SourceOnce ==
    ASSUME IInv, OnceInv, NEW t \in Threads, NEW queue, NEW g, Source(t, queue, g)
    PROVE  /\ queue \in Seq(Items)
           /\ g \in 1..calls =>
                 /\ future[g] = "pending" /\ ~InOps(pending, g) /\ ~InQueue(queue, g)
                 /\ \A u \in Threads : u # t => ~InJob(u, g)
           /\ \A f \in 1..calls : /\ OnceQueued(pending, queue, f)
                                  /\ InQueue(queue, f) => InQueue(ioQueue, f)
<1>0. ioQueue \in Seq(Items)
  BY DEF IInv, TypeOK
<1>1. \A f \in 1..calls : OnceQueued(pending, ioQueue, f)
  BY DEF OnceInv, CarriedOnce
<1>2. CASE queue = ioQueue /\ InJob(t, g)
  BY <1>0, <1>1, <1>2, JobOnce
<1>3. CASE queue = Rest /\ ioQueue # <<>> /\ g = Next1.future
  <2>1. Rest \in Seq(Items)
    BY <1>3, Shifted
  <2>2. \A f \in 1..calls : OnceQueued(pending, Rest, f) /\ (InQueue(Rest, f) => InQueue(ioQueue, f))
    BY <1>1, <1>3, TakenOnce
  <2> QED BY <1>3, <2>1, <2>2, QueueOnce
<1> QED BY <1>2, <1>3 DEF Source

\* The future is settled, or handed to the thread.
LEMMA SettledOnce ==
    ASSUME IInv, OnceInv, NEW t \in Threads, NEW queue, NEW g, Source(t, queue, g),
           UNCHANGED record, \A u \in Threads : u # t => pc'[u] = pc[u] /\ job'[u] = job[u],
           pc'[t] = "idle" \/ job'[t].future = g,
           pending' = pending, ioQueue' = queue,
           pc'[t] = "idle" \/ future' = future, \A f \in 1..calls : f # g => future'[f] = future[f]
    PROVE  OnceInv'
<1> USE DEF Source
<1>1. /\ g \in 1..calls =>
                 /\ future[g] = "pending" /\ ~InOps(pending, g) /\ ~InQueue(queue, g)
                 /\ \A u \in Threads : u # t => ~InJob(u, g)
      /\ \A f \in 1..calls : /\ OnceQueued(pending, queue, f)
                             /\ InQueue(queue, f) => InQueue(ioQueue, f)
  BY SourceOnce
<1> QED BY <1>1, OnceStep

\* The future is queued.
LEMMA QueuedOnce ==
    ASSUME IInv, OnceInv, NEW t \in Threads, NEW g, InJob(t, g),
           UNCHANGED record, \A u \in Threads : u # t => pc'[u] = pc[u] /\ job'[u] = job[u],
           pc'[t] = "idle", NEW x \in Items, x.future = g,
           pending' = pending, ioQueue' = Append(ioQueue, x), future' = future
    PROVE  OnceInv'
<1>1. /\ ioQueue \in Seq(Items)
      /\ g \in 1..calls =>
                 /\ future[g] = "pending" /\ ~InOps(pending, g) /\ ~InQueue(ioQueue, g)
                 /\ \A u \in Threads : u # t => ~InJob(u, g)
      /\ \A f \in 1..calls : OnceQueued(pending, ioQueue, f)
  BY SourceOnce DEF Source
<1>2. ASSUME NEW f \in 1..calls
      PROVE  /\ OnceQueued(pending', ioQueue', f)
             /\ f # g => (InQueue(ioQueue', f) => InQueue(ioQueue, f))
  BY <1>1, AppendedOnce
<1> QED BY <1>1, <1>2, OnceStep

\* The future is that of a new operation.
LEMMA OperatedOnce ==
    ASSUME IInv, OnceInv, NEW t \in Threads, NEW g, InJob(t, g),
           UNCHANGED record, \A u \in Threads : u # t => pc'[u] = pc[u] /\ job'[u] = job[u],
           pc'[t] = "idle", NEW op, op.future = g,
           pending' = pending \cup {op}, ioQueue' = ioQueue, future' = future
    PROVE  OnceInv'
<1>1. /\ g \in 1..calls =>
                 /\ future[g] = "pending" /\ ~InOps(pending, g) /\ ~InQueue(ioQueue, g)
                 /\ \A u \in Threads : u # t => ~InJob(u, g)
      /\ \A f \in 1..calls : OnceQueued(pending, ioQueue, f)
  BY SourceOnce DEF Source
<1>2. ASSUME NEW f \in 1..calls
      PROVE  /\ OnceQueued(pending', ioQueue', f)
             /\ f # g => (InOps(pending', f) => InOps(pending, f))
  BY <1>1, StartedOnce
<1> QED BY <1>1, <1>2, OnceStep

\* The operations on the socket are aborted, and the future is settled, handed to the
\* thread, or that of a new operation.
LEMMA AbortStep ==
    ASSUME IInv, OnceInv, NEW t \in Threads, NEW queue, NEW g, Source(t, queue, g),
           UNCHANGED record, \A u \in Threads : u # t => pc'[u] = pc[u] /\ job'[u] = job[u],
           pc'[t] = "idle" \/ (job'[t].future = g /\ pending' = pending \ OnSocket),
           AbortOperations(queue),
           \/ pending' = pending \ OnSocket
           \/ future' = future /\ \E op : op.future = g /\ pending' = (pending \ OnSocket) \cup {op},
           pc'[t] = "idle" \/ future' = future, \A f \in 1..calls : f # g => future'[f] = future[f]
    PROVE  OnceInv'
<1>1. /\ queue \in Seq(Items)
      /\ g \in 1..calls =>
                 /\ future[g] = "pending" /\ ~InOps(pending, g) /\ ~InQueue(queue, g)
                 /\ \A u \in Threads : u # t => ~InJob(u, g)
      /\ \A f \in 1..calls : /\ OnceQueued(pending, queue, f)
                             /\ InQueue(queue, f) => InQueue(ioQueue, f)
  BY SourceOnce
<1> DEFINE ops == pending \ OnSocket
<1>2. ASSUME NEW f \in 1..calls
      PROVE  /\ OnceQueued(ops, ioQueue', f)
             /\ InOps(ops, f) => InOps(pending, f)
             /\ InQueue(ioQueue', f) => InQueue(queue, f) \/ InOps(pending, f)
  BY <1>1, AbortedOnce DEF InOps
<1> HIDE DEF ops
<1>3. g \in 1..calls => ~InOps(ops, g) /\ ~InQueue(ioQueue', g)
  BY <1>1, <1>2
<1>4. CASE pending' = ops
  BY <1>1, <1>2, <1>3, <1>4, OnceStep
<1>5. CASE future' = future /\ \E op : op.future = g /\ pending' = ops \cup {op}
  <2>1. PICK op : op.future = g /\ pending' = ops \cup {op}
    BY <1>5
  <2>2. ASSUME NEW f \in 1..calls
        PROVE  /\ OnceQueued(pending', ioQueue', f)
               /\ f # g => (InOps(pending', f) => InOps(ops, f))
    BY <1>2, <1>3, <2>1, StartedOnce
  <2>3. CASE pc'[t] = "idle"
    BY <1>1, <1>2, <1>3, <1>5, <2>2, <2>3, OnceStep
  <2>4. CASE pending' = ops
    BY <2>4, <1>4
  <2> QED BY <2>3, <2>4 DEF ops
<1> QED BY <1>4, <1>5 DEF ops

LEMMA CallOnce ==
    ASSUME IInv, OnceInv, NEW t \in Threads, Call(t)
    PROVE  OnceInv'
<1>1. PICK m \in Methods : NewCall(t, m)
  BY DEF Call, connect, disconnect, close, read, write, readOrWrite, Methods
<1>2. /\ calls' = calls + 1 /\ 1..calls' = 1..calls \cup {calls + 1} /\ calls + 1 # CloseFuture
      /\ calls + 1 \notin 1..calls /\ calls + 1 \in Futures /\ 1..calls \subseteq Futures
  BY <1>1, Numbered
<1>3. pc[t] = "idle" /\ pending' = pending /\ ioQueue' = ioQueue
  BY <1>1 DEF NewCall
<1>4. \A u \in Threads : u # t => pc'[u] = pc[u] /\ job'[u] = job[u]
  BY DEF Call, connect, disconnect, close, read, write, readOrWrite, Refuse, Accept, IInv, TypeOK,
         closeSocketWithState, setConnectivityState, thread
<1>5. \A f \in 1..calls : future'[f] = future[f]
  BY <1>2 DEF Call, connect, disconnect, close, read, write, readOrWrite, Refuse, Accept, IInv, TypeOK
<1>6. \/ pc'[t] = "idle"
      \/ job'[t].future = calls + 1 /\ future'[calls + 1] = "pending"
      \/ job'[t].future = CloseFuture
  <2>1. CASE connect(t)
    <3>1. \/ Refuse(calls + 1)
          \/ Accept(t, calls + 1, "checked", NoJob)
      BY <2>1 DEF connect
    <3> QED BY <3>1, <1>2, <1>3 DEF Refuse, Accept, thread, NoJob, IInv, TypeOK
  <2>2. CASE disconnect(t)
    <3>1. setConnectivityState(t, "TransitentFailure", "postClose", calls + 1)
          /\ future' = [future EXCEPT ![calls + 1] = "pending"]
      BY <2>2 DEF disconnect, closeSocketWithState
    <3> QED BY <3>1, <1>2 DEF setConnectivityState, IInv, TypeOK
  <2>3. CASE close(t)
    <3>1. setConnectivityState(t, "Shutdown", "postClose", CloseFuture)
      BY <2>3 DEF close, closeSocketWithState
    <3> QED BY <3>1 DEF setConnectivityState, IInv, TypeOK
  <2>4. ASSUME NEW k \in {"read", "write"}, readOrWrite(t, k)
        PROVE  \/ pc'[t] = "idle"
               \/ job'[t].future = calls + 1 /\ future'[calls + 1] = "pending"
    <3>1. \/ Refuse(calls + 1)
          \/ Accept(t, calls + 1, "start", [NoJob EXCEPT !.next = "start", !.kind = k])
      BY <2>4 DEF readOrWrite
    <3>2. CASE Refuse(calls + 1)
      BY <3>2, <1>3 DEF Refuse, thread
    <3>3. CASE Accept(t, calls + 1, "start", [NoJob EXCEPT !.next = "start", !.kind = k])
      <4> DEFINE do == [NoJob EXCEPT !.next = "start", !.kind = k]
      <4>1. "future" \in DOMAIN do
        BY DEF NoJob
      <4> HIDE DEF do
      <4>2. [do EXCEPT !.future = calls + 1].future = calls + 1
        BY <4>1
      <4>3. Accept(t, calls + 1, "start", do)
        BY <3>3 DEF do
      <4> QED BY <4>2, <4>3, <1>2 DEF Accept, IInv, TypeOK
    <3> QED BY <3>1, <3>2, <3>3
  <2> QED BY <2>1, <2>2, <2>3, <2>4 DEF Call, read, write
<1> DEFINE g == calls + 1
<1>7. /\ ~InOps(pending, g) /\ ~InQueue(ioQueue, g) /\ \A u \in Threads : ~InJob(u, g)
  <2>1. \A kind, f : Fits(kind, f) => f # g
    BY <1>2 DEF Fits
  <2>2. ~InOps(pending, g) /\ ~InQueue(ioQueue, g)
    BY <2>1 DEF IInv, HandlingInv, PendingFits, QueueFits, InOps, InQueue
  <2>3. \A u \in Threads : ~InJob(u, g)
    BY <1>2, InHands DEF InJob, IInv, TypeOK
  <2> QED BY <2>2, <2>3
<1>8. \A u \in Threads, f \in 1..calls' : InJob(u, f)' <=>
         \/ u # t /\ InJob(u, f)
         \/ u = t /\ f = g /\ pc'[t] # "idle" /\ job'[t].future = g
  BY <1>2, <1>4, <1>6, SocketAssumption DEF InJob, CloseFuture
<1>9. ~InJob(t, g) /\ \A f : ~InJob(t, f)
  BY <1>3 DEF InJob
<1> SUFFICES ASSUME NEW f \in 1..calls' PROVE CarriedOnce(f)'
  BY DEF OnceInv
<1>10. Carried(f)' => InOps(pending, f) \/ InQueue(ioQueue, f) \/ \E u \in Threads : InJob(u, f)'
  BY <1>3 DEF Carried, InOps, InQueue, InJob
<1>11. CASE f = g
  <2>1. OnceQueued(pending', ioQueue', f)
    BY <1>3, <1>7, <1>11 DEF OnceQueued, InOps, InQueue
  <2>2. \A u \in Threads : InJob(u, f)' => u = t /\ future'[f] = "pending"
    BY <1>6, <1>7, <1>8, <1>11, <1>2
  <2> QED BY <1>3, <1>7, <1>10, <1>11, <2>1, <2>2 DEF CarriedOnce
<1>12. CASE f \in 1..calls
  <2>1. CarriedOnce(f) /\ f # g
    BY <1>2, <1>12 DEF OnceInv
  <2>2. \A u \in Threads : InJob(u, f)' => InJob(u, f)
    BY <1>8, <2>1
  <2>3. Carried(f)' => future'[f] = "pending"
    BY <1>5, <1>10, <1>12, <2>1, <2>2, CarriedIs DEF CarriedOnce
  <2> QED BY <1>3, <2>1, <2>2, <2>3 DEF CarriedOnce
<1> QED BY <1>2, <1>11, <1>12

\* What a report leaves alone.
LEMMA ReportsOne ==
    ASSUME IInv, NEW f, NEW outcome, Report(f, outcome)
    PROVE  \A g \in 1..calls : g # f => future'[g] = future[g]
<1>1. 1..calls \subseteq Futures
  BY SocketAssumption DEF IInv, TypeOK, Futures
<1> QED BY <1>1 DEF Report, IInv, TypeOK

LEMMA StartConnectOnce ==
    ASSUME IInv, OnceInv, NEW t \in Threads, NEW queue, NEW f \in Futures, Source(t, queue, f),
           StartConnect(t, f, queue), UNCHANGED record, future' = future
    PROVE  OnceInv'
<1>1. AbortOperations(queue) /\ TypeOK
  BY DEF StartConnect, resetSocket, IInv
<1>2. CASE pending' = (pending \ OnSocket) \cup {[kind |-> "resolve", future |-> f]} /\ Idle(t)
  <2>1. pc'[t] = "idle" /\ \A u \in Threads : u # t => pc'[u] = pc[u] /\ job'[u] = job[u]
    BY <1>1, <1>2, Idled
  <2>2. \E op : op.future = f /\ pending' = (pending \ OnSocket) \cup {op}
    BY <1>2
  <2> QED BY <1>1, <2>1, <2>2, AbortStep
<1>3. CASE /\ pending' = pending \ OnSocket
           /\ setConnectivityState(t, "Connecting", "asyncConnect", f)
  <2>1. job'[t].future = f /\ \A u \in Threads : u # t => pc'[u] = pc[u] /\ job'[u] = job[u]
    BY <1>1, <1>3, Loaded DEF States
  <2> QED BY <1>1, <1>3, <2>1, AbortStep
<1> QED BY <1>2, <1>3 DEF StartConnect

LEMMA RunCloseOnce ==
    ASSUME IInv, OnceInv, NEW t \in Threads, NEW queue, NEW f \in Futures, Source(t, queue, f),
           RunClose(f, queue), UNCHANGED record, Idle(t) \/ (UNCHANGED thread /\ pc[t] = "idle")
    PROVE  OnceInv'
<1>1. pc'[t] = "idle" /\ \A u \in Threads : u # t => pc'[u] = pc[u] /\ job'[u] = job[u]
  BY Idled DEF thread, IInv
<1>2. CASE /\ AbortOperations(queue) /\ pending' = pending \ OnSocket
           /\ Report(f, "finished") \/ Report(f, "failed")
  BY <1>1, <1>2, ReportsOne, AbortStep
<1>3. CASE ioQueue' = queue /\ UNCHANGED <<pending, future>>
  BY <1>1, <1>3, SettledOnce
<1> QED BY <1>2, <1>3 DEF RunClose, reportErrorCode

LEMMA GoOnOnce ==
    ASSUME IInv, OnceInv, NEW t \in Threads, GoOn(t)
    PROVE  OnceInv'
<1> DEFINE g == job[t].future
<1>0. /\ TypeOK /\ UNCHANGED record /\ g \in Futures /\ InJob(t, g) /\ Source(t, ioQueue, g)
  BY InHands DEF IInv, GoOn, connectChecked, StartOperation, Store, InJob, Source
<1>i. Idle(t) => pc'[t] = "idle" /\ \A u \in Threads : u # t => pc'[u] = pc[u] /\ job'[u] = job[u]
  BY <1>0, Idled
<1>1. CASE connectChecked(t)
  <2>1. CASE reportErrorCode(g) /\ Idle(t) /\ UNCHANGED <<socket, pending, ioQueue>>
    BY <2>1, <1>0, <1>i, ReportsOne, SettledOnce DEF reportErrorCode
  <2>2. CASE StartConnect(t, g, ioQueue) /\ UNCHANGED future
    BY <2>2, <1>0, StartConnectOnce
  <2>3. CASE /\ ioQueue' = Append(ioQueue, Item("connectTask", g, TRUE)) /\ Idle(t)
             /\ UNCHANGED <<socket, pending, future>>
    <3>1. /\ Item("connectTask", g, TRUE) \in Items /\ Item("connectTask", g, TRUE).future = g
      BY <1>0 DEF Item, Items, Kinds
    <3> QED BY <2>3, <3>1, <1>0, <1>i, QueuedOnce
  <2> QED BY <1>1, <2>1, <2>2, <2>3 DEF connectChecked
<1>2. CASE StartOperation(t)
  <2>1. /\ Idle(t) /\ future' = future /\ job[t].kind \in {"read", "write"}
    BY <1>2 DEF StartOperation, IInv, HandlingInv, JobFits
  <2>2. CASE /\ pending' = pending \cup {[kind |-> job[t].kind, future |-> g]}
             /\ UNCHANGED ioQueue
    BY <2>1, <2>2, <1>0, <1>i, OperatedOnce
  <2>3. CASE ioQueue' = Append(ioQueue, Item(job[t].kind, g, FALSE)) /\ UNCHANGED pending
    <3>1. /\ Item(job[t].kind, g, FALSE) \in Items /\ Item(job[t].kind, g, FALSE).future = g
      BY <1>0, <2>1 DEF Item, Items, Kinds
    <3> QED BY <2>1, <2>3, <3>1, <1>0, <1>i, QueuedOnce
  <2> QED BY <1>2, <2>2, <2>3 DEF StartOperation
<1>3. CASE Store(t)
  <2>0. Idle(t)
    BY <1>3 DEF Store
  <2>1. CASE AsyncConnect(t)
    <3>1. \E op : op.future = g /\ pending' = (pending \ OnSocket) \cup {op}
      BY <2>1 DEF AsyncConnect
    <3> QED BY <2>0, <2>1, <3>1, <1>0, <1>i, AbortStep DEF AsyncConnect
  <2>2. CASE ReportOutcome(t)
    <3>1. \E outcome : Report(g, outcome)
      BY <2>2 DEF ReportOutcome, reportErrorCode
    <3> QED BY <2>0, <2>2, <3>1, <1>0, <1>i, ReportsOne, SettledOnce DEF ReportOutcome
  <2>3. CASE CloseNow(t)
    BY <2>0, <2>3, <1>0, RunCloseOnce DEF CloseNow
  <2>4. CASE CloseLater(t)
    <3>1. /\ Item("closeTask", g, TRUE) \in Items /\ Item("closeTask", g, TRUE).future = g
      BY <1>0 DEF Item, Items, Kinds
    <3> QED BY <2>0, <2>4, <3>1, <1>0, <1>i, QueuedOnce DEF CloseLater
  <2>5. CASE CloseRefused(t)
    BY <2>0, <2>5, <1>0, <1>i, ReportsOne, SettledOnce DEF CloseRefused, reportErrorCode
  <2> QED BY <1>3, <2>1, <2>2, <2>3, <2>4, <2>5 DEF Store
<1> QED BY <1>1, <1>2, <1>3 DEF GoOn

LEMMA HandlerOnce ==
    ASSUME IInv, OnceInv, Handler
    PROVE  OnceInv'
<1> DEFINE g == Next1.future
<1>0. /\ TypeOK /\ UNCHANGED record /\ ioQueue # <<>> /\ pc[Io] = "idle" /\ Io \in Threads
  BY DEF IInv, Handler, Dequeue, connectTask, closeTask, addressResolved, connected, transferred, Threads
<1>1. g \in Futures /\ Source(Io, Rest, g)
  BY <1>0, Shifted DEF Source
<1>2. ASSUME NEW target \in States, NEW next \in {"asyncConnect", "finish", "fail", "postClose"},
             setConnectivityState(Io, target, next, g)
      PROVE  /\ job'[Io].future = g
             /\ \A u \in Threads : u # Io => pc'[u] = pc[u] /\ job'[u] = job[u]
  BY <1>0, <1>1, <1>2, Loaded
<1>3. UNCHANGED thread => pc'[Io] = "idle" /\ \A u \in Threads : u # Io => pc'[u] = pc[u] /\ job'[u] = job[u]
  BY <1>0 DEF thread
<1>4. CASE connectTask
  BY <1>0, <1>1, <1>4, StartConnectOnce DEF connectTask
<1>5. CASE closeTask
  BY <1>0, <1>1, <1>5, RunCloseOnce DEF closeTask
<1>6. CASE addressResolved
  <2>1. ioQueue' = Rest /\ pending' = pending
    BY <1>6 DEF addressResolved
  <2>2. CASE setConnectivityState(Io, "Connecting", "asyncConnect", g) /\ UNCHANGED future
    BY <2>1, <2>2, <1>0, <1>1, <1>2, SettledOnce DEF States
  <2>3. CASE reportErrorCode(g) /\ UNCHANGED thread
    BY <2>1, <2>3, <1>0, <1>1, <1>3, ReportsOne, SettledOnce DEF reportErrorCode
  <2> QED BY <1>6, <2>2, <2>3 DEF addressResolved
<1>7. CASE connected
  <2>1. /\ ioQueue' = Rest /\ pending' = pending /\ future' = future
        /\ \/ setConnectivityState(Io, "Ready", "finish", g)
           \/ setConnectivityState(Io, "TransitentFailure", "fail", g)
    BY <1>7 DEF connected
  <2>2. /\ job'[Io].future = g
        /\ \A u \in Threads : u # Io => pc'[u] = pc[u] /\ job'[u] = job[u]
    BY <2>1, <1>2 DEF States
  <2> QED BY <2>1, <2>2, <1>0, <1>1, SettledOnce
<1>8. CASE transferred
  <2>1. ioQueue' = Rest /\ pending' = pending
    BY <1>8 DEF transferred
  <2>2. CASE Report(g, "finished") /\ UNCHANGED thread
    BY <2>1, <2>2, <1>0, <1>1, <1>3, ReportsOne, SettledOnce
  <2>3. CASE setConnectivityState(Io, "TransitentFailure", "fail", g) /\ UNCHANGED future
    BY <2>1, <2>3, <1>0, <1>1, <1>2, SettledOnce DEF States
  <2> QED BY <1>8, <2>2, <2>3 DEF transferred
<1> QED BY <1>4, <1>5, <1>6, <1>7, <1>8 DEF Handler

LEMMA CompleteOnce ==
    ASSUME IInv, OnceInv, NEW op \in pending, NEW ok \in BOOLEAN, Complete(op, ok)
    PROVE  OnceInv'
<1> DEFINE x == Item(op.kind, op.future, ok)
<1>0. /\ TypeOK /\ pending' = pending \ {op} /\ ioQueue' = Append(ioQueue, x)
      /\ op \in Operations /\ ioQueue \in Seq(Items)
      /\ future' = future /\ UNCHANGED <<record, thread>>
  BY DEF Complete, IInv, TypeOK
<1>1. x \in Items /\ x.future = op.future
  BY <1>0 DEF Item, Items, Operations
<1> HIDE DEF x
<1>2. calls' = calls /\ \A f : \A t \in Threads : InJob(t, f)' <=> InJob(t, f)
  BY <1>0 DEF record, thread, InJob
<1> SUFFICES ASSUME NEW f \in 1..calls PROVE CarriedOnce(f)'
  BY <1>2 DEF OnceInv
<1>3. CarriedOnce(f) /\ OnceQueued(pending, ioQueue, f)
  BY DEF OnceInv, CarriedOnce
<1>4. /\ OnceQueued(pending', ioQueue, f)
      /\ op.future = f => ~InOps(pending', f) /\ ~InQueue(ioQueue, f) /\ InOps(pending, f)
      /\ InOps(pending', f) => InOps(pending, f)
  BY <1>0, <1>3 DEF OnceQueued, InOps
<1>5. /\ OnceQueued(pending', ioQueue', f)
      /\ InQueue(ioQueue', f) => InQueue(ioQueue, f) \/ op.future = f
  BY <1>0, <1>1, <1>4, AppendedOnce
<1>6. InOps(pending', f) \/ InQueue(ioQueue', f) => InOps(pending, f) \/ InQueue(ioQueue, f)
  BY <1>4, <1>5
<1>7. Carried(f)' => Carried(f)
  <2>1. Carried(f)' => InOps(pending', f) \/ InQueue(ioQueue', f) \/ \E u \in Threads : InJob(u, f)'
    BY DEF Carried, InOps, InQueue, InJob
  <2> QED BY <2>1, <1>2, <1>6, CarriedIs
<1> QED BY <1>0, <1>2, <1>3, <1>5, <1>6, <1>7 DEF CarriedOnce

\* Whatever calls, aborts and races there are, the future of a call is in one place,
\* until what is there settles it: nobody reports it a second time.
THEOREM FuturesCarriedOnce == Spec => []OnceInv
<1>1. Init => OnceInv
  BY DEF Init, OnceInv
<1>2. IInv /\ OnceInv /\ [Next]_vars => OnceInv'
  <2> SUFFICES ASSUME IInv, OnceInv, [Next]_vars PROVE OnceInv'
    OBVIOUS
  <2>1. ASSUME NEW t \in Threads, Call(t) \/ GoOn(t) PROVE OnceInv'
    BY <2>1, CallOnce, GoOnOnce
  <2>2. CASE Handler
    BY <2>2, HandlerOnce
  <2>3. ASSUME NEW op \in pending, NEW ok \in BOOLEAN, Complete(op, ok) PROVE OnceInv'
    BY <2>3, CompleteOnce
  <2>4. CASE UNCHANGED vars
    <3>1. calls' = calls /\ \A f : (CarriedOnce(f)' <=> CarriedOnce(f))
      BY <2>4 DEF vars, thread, record, CarriedOnce, OnceQueued, InOps, InQueue, InJob, Carried
    <3> QED BY <3>1 DEF OnceInv
  <2> QED BY <2>1, <2>2, <2>3, <2>4 DEF Next
<1> QED BY <1>1, <1>2, InductiveInvariant, PTL DEF Spec

==============================================================================
