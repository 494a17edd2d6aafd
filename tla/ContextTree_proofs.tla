------------------------- MODULE ContextTree_proofs -------------------------
(***************************************************************************)
(* Proofs about ContextTree: the tree is tidy whenever nobody is at work   *)
(* on it, for any contexts, threads and order of making and cancelling.    *)
(*                                                                         *)
(* A context is kept by its parent, and listened to, in steps which any    *)
(* number of threads have before them. The inductive invariant says for    *)
(* each of these facts which step is still to come while it does not hold. *)
(***************************************************************************)
EXTENDS ContextTree, SequenceTheorems, TLAPS

\* A thread has this step before it.
Ahead(step) == \E t \in Threads : \E i \in 1..Len(todo[t]) : todo[t][i] = step

Adding(c) == Ahead(Step("addChild", c))
ToListen(c) == Ahead(Step("listenParent", c))
ToDetach(c) == Ahead(Step("listenSelf", c))
Reporting(c) == Ahead(Step("report", c))
Removing(c) == Ahead(Step("removeChild", c))
Unlistening(c) == Ahead(Step("unlisten", c))

Born(c) == c \in made \/ Ahead(Step("return", c))
Told(c) == Listener("fromParent", c)
Detaches(c) == Listener("detach", c)
Tells(q, listener) == \E i \in 1..Len(signal[q]) : signal[q][i] = listener

\* The steps of a call that makes a context are the last of its thread, and in order.
Followed(steps, i, do) ==
    i + 1 \in 1..Len(steps) /\ steps[i + 1] = Step(do, steps[i].context)

InOrder(steps, i) ==
    /\ steps[i].do = "addChild" => Followed(steps, i, "listenParent")
    /\ steps[i].do = "listenParent" => Followed(steps, i, "listenSelf")
    /\ steps[i].do = "listenSelf" => Followed(steps, i, "return")
    /\ steps[i].do = "return" => i = Len(steps)

MakingInv ==
    /\ \A t \in Threads : \A i \in 1..Len(todo[t]) :
          InOrder(todo[t], i) /\ (todo[t][i].do = "return" => todo[t][i].context \notin made)
    /\ \A t, u \in Threads : \A i \in 1..Len(todo[t]), j \in 1..Len(todo[u]) :
          todo[t][i] = todo[u][j] /\ todo[t][i].do = "return" => t = u

\* Nothing is known of a context that is not made, nor in the making.
BornInv ==
    /\ Background \in made
    /\ \A c \in Contexts : Born(c) => Parent[c] \in made
    /\ \A c \in Contexts :
          Reporting(c) \/ c \in done => Born(c)
    /\ \A q \in All : \A c \in children[q] : q = Parent[c] /\ Born(c)
    /\ \A q \in All, c \in Contexts :
          /\ Tells(q, Told(c)) => q = Parent[c] /\ Born(c)
          /\ Tells(q, Detaches(c)) => q = c /\ Born(c)

\* A listener is added once.
Once(list) == \A i, j \in 1..Len(list) : list[i] = list[j] => i = j

EarlyInv ==
    /\ \A c \in Contexts :
          /\ ToListen(c) => c \notin done /\ ~Reporting(c) /\ ~Tells(Parent[c], Told(c))
          /\ ToDetach(c) => ~Tells(c, Detaches(c))
    /\ \A q \in All : Once(signal[q])

\* A parent keeps a context from addChild to removeChild, and it is detached when done.
ChildInv ==
    /\ \A c \in Contexts :
          /\ Removing(c) \/ Unlistening(c) => c \in done
          /\ Born(c) /\ c \notin done => Adding(c) \/ c \in children[Parent[c]]
          /\ Born(c) /\ c \notin done => ToDetach(c) \/ Tells(c, Detaches(c))
          /\ c \in children[Parent[c]] /\ c \in done => Removing(c) \/ ToDetach(c)

\* A context is told of its parent, and its listener goes when it is done.
SignalInv ==
    /\ \A c \in Contexts :
          /\ Born(c) /\ c \notin done =>
                ToListen(c) \/ Reporting(c) \/ Tells(Parent[c], Told(c))
          /\ Tells(Parent[c], Told(c)) /\ c \in done => Unlistening(c) \/ ToDetach(c)
    /\ \A q \in done : signal[q] = <<>>

\* A report of a parent's error comes behind the error, and that behind the parent's.
ReasonInv ==
    \A t \in Threads : \A i \in 1..Len(todo[t]) :
        LET c == todo[t][i].context
        IN  /\ todo[t][i].do = "setErr" => Parent[c] \in done
            /\ todo[t][i].do = "report" /\ c \notin Cancelable =>
                 /\ Parent[c] \in done
                 /\ c \in err \/ (i > 1 /\ todo[t][i - 1] = Step("setErr", c))

IInv ==
    /\ TypeOK /\ MakingInv /\ BornInv /\ EarlyInv /\ ChildInv /\ SignalInv
    /\ ReasonInv /\ DoneHasReason

------------------------------------------------------------------------------
Makings == {"addChild", "listenParent", "listenSelf", "return"}
Handlings == {"setErr", "report", "removeChild", "unlisten"}

LEMMA StepIs ==
    ASSUME NEW do, NEW c
    PROVE  /\ Step(do, c).do = do /\ Step(do, c).context = c
           /\ \A step \in Steps : step = Step(step.do, step.context)
           /\ do \in Makings \cup Handlings /\ c \in Contexts => Step(do, c) \in Steps
           /\ Listener(do, c).role = do /\ Listener(do, c).context = c
           /\ \A l \in Listeners : l = Listener(l.role, l.context)
           /\ do \in {"fromParent", "detach"} /\ c \in Contexts => Listener(do, c) \in Listeners
BY DEF Step, Steps, Listener, Listeners, Makings, Handlings

\* Steps that listeners ask for, when the contexts of D are done.
Handles(steps, D) ==
    \A i \in 1..Len(steps) :
        LET c == steps[i].context
        IN  /\ steps[i].do \in Handlings
            /\ steps[i].do \in {"setErr", "report"} => Parent[c] \in D
            /\ steps[i].do = "report" => i > 1 /\ steps[i - 1] = Step("setErr", c)

In(steps, step) == \E i \in 1..Len(steps) : steps[i] = step

LEMMA HandleIs ==
    ASSUME NEW l \in Listeners
    PROVE  /\ l.role = "fromParent" =>
                Handle(l) = <<Step("setErr", l.context), Step("report", l.context)>>
           /\ l.role = "detach" =>
                Handle(l) = <<Step("removeChild", l.context), Step("unlisten", l.context)>>
           /\ l.role \in {"fromParent", "detach"} /\ l.context \in Contexts
BY DEF Handle, Listeners

\* What all listeners of a future ask for.
LEMMA AllHandled ==
    ASSUME NEW ls \in Seq(Listeners), NEW D, NEW steps, steps = HandleAll(ls),
           \A i \in 1..Len(ls) : ls[i].role = "fromParent" => Parent[ls[i].context] \in D
    PROVE  /\ steps \in Seq(Steps) /\ Handles(steps, D)
           /\ \A c \in Contexts :
                 /\ In(steps, Step("report", c)) => In(ls, Told(c))
                 /\ In(steps, Step("removeChild", c)) => In(ls, Detaches(c))
                 /\ In(steps, Step("unlisten", c)) => In(ls, Detaches(c))
                 /\ In(ls, Told(c)) => In(steps, Step("report", c))
                 /\ In(ls, Detaches(c)) =>
                       In(steps, Step("removeChild", c)) /\ In(steps, Step("unlisten", c))
<1>0. Len(ls) \in Nat /\ \A i \in 1..Len(ls) : ls[i] \in Listeners
  OBVIOUS
<1>1. PICK n \in Nat : n = Len(ls)
  BY <1>0
<1>2. steps = [i \in 1..2 * n |-> Handle(ls[(i + 1) \div 2])[2 - (i % 2)]]
  BY <1>1 DEF HandleAll
<1>3. ASSUME NEW i \in 1..2 * n
      PROVE  \E k \in 1..n : /\ i = 2 * k - 1 \/ i = 2 * k
                             /\ (i + 1) \div 2 = k
                             /\ 2 - (i % 2) = i - (2 * k - 2)
  <2>1. PICK k \in Nat : (i = 2 * k \/ i = 2 * k - 1) /\ k = (i + 1) \div 2
    OBVIOUS
  <2>2. i % 2 = 2 * k - i
    BY <2>1
  <2>3. k \in 1..n
    BY <2>1
  <2> QED BY <2>1, <2>2, <2>3
<1>4. \A k \in 1..n : /\ 2 * k - 1 \in 1..2 * n /\ 2 * k \in 1..2 * n
                      /\ steps[2 * k - 1] = Handle(ls[k])[1]
                      /\ steps[2 * k] = Handle(ls[k])[2]
  <2> SUFFICES ASSUME NEW k \in 1..n
               PROVE  /\ 2 * k - 1 \in 1..2 * n /\ 2 * k \in 1..2 * n
                      /\ steps[2 * k - 1] = Handle(ls[k])[1]
                      /\ steps[2 * k] = Handle(ls[k])[2]
    OBVIOUS
  <2>1. 2 * k - 1 \in 1..2 * n /\ 2 * k \in 1..2 * n
    OBVIOUS
  <2>2. (2 * k - 1 + 1) \div 2 = k /\ 2 - ((2 * k - 1) % 2) = 1
    OBVIOUS
  <2>3. (2 * k + 1) \div 2 = k /\ 2 - ((2 * k) % 2) = 2
    OBVIOUS
  <2> QED BY <1>2, <2>1, <2>2, <2>3
<1>5. \A i \in 1..2 * n : \E k \in 1..n :
         /\ ls[k] \in Listeners
         /\ \/ i = 2 * k - 1 /\ steps[i] = Handle(ls[k])[1]
            \/ i = 2 * k /\ steps[i] = Handle(ls[k])[2]
  BY <1>0, <1>1, <1>3, <1>4
<1>6. \A k \in 1..n :
         /\ ls[k].role = "fromParent" =>
               /\ Handle(ls[k])[1] = Step("setErr", ls[k].context)
               /\ Handle(ls[k])[2] = Step("report", ls[k].context)
               /\ Parent[ls[k].context] \in D
         /\ ls[k].role = "detach" =>
               /\ Handle(ls[k])[1] = Step("removeChild", ls[k].context)
               /\ Handle(ls[k])[2] = Step("unlisten", ls[k].context)
         /\ ls[k].role \in {"fromParent", "detach"} /\ ls[k].context \in Contexts
         /\ ls[k] = Listener(ls[k].role, ls[k].context)
  BY <1>0, <1>1, HandleIs, StepIs
<1>7. steps \in Seq(Steps) /\ Len(steps) = 2 * n
  <2>1. \A i \in 1..2 * n : steps[i] \in Steps
    BY <1>5, <1>6, StepIs DEF Handlings
  <2>2. steps = [i \in 1..2 * n |-> steps[i]] /\ 2 * n \in Nat
    BY <1>2
  <2>3. steps \in [1..2 * n -> Steps]
    BY <2>1, <2>2
  <2> QED BY <2>2, <2>3, SeqDef
<1>8. Handles(steps, D)
  <2> SUFFICES ASSUME NEW i \in 1..2 * n
               PROVE  /\ steps[i].do \in Handlings
                      /\ steps[i].do \in {"setErr", "report"} => Parent[steps[i].context] \in D
                      /\ steps[i].do = "report" =>
                           i > 1 /\ steps[i - 1] = Step("setErr", steps[i].context)
    BY <1>7 DEF Handles
  <2>1. PICK k \in 1..n : \/ i = 2 * k - 1 /\ steps[i] = Handle(ls[k])[1]
                          \/ i = 2 * k /\ steps[i] = Handle(ls[k])[2]
    BY <1>5
  <2>2. i = 2 * k => i > 1 /\ i - 1 = 2 * k - 1
    OBVIOUS
  <2>3. PICK c : c = ls[k].context
    OBVIOUS
  <2>4. CASE ls[k].role = "fromParent"
    <3>1. /\ steps[2 * k - 1] = Step("setErr", c) /\ steps[2 * k] = Step("report", c)
          /\ Parent[c] \in D
      BY <1>4, <1>6, <2>3, <2>4
    <3>2. CASE i = 2 * k - 1
      BY <3>1, <3>2, StepIs DEF Handlings
    <3>3. CASE i = 2 * k
      BY <2>2, <3>1, <3>3, StepIs DEF Handlings
    <3> QED BY <2>1, <3>2, <3>3
  <2>5. CASE ls[k].role = "detach"
    <3>1. /\ steps[2 * k - 1] = Step("removeChild", c) /\ steps[2 * k] = Step("unlisten", c)
      BY <1>4, <1>6, <2>3, <2>5
    <3>2. steps[i].do \in {"removeChild", "unlisten"}
      BY <2>1, <3>1, StepIs
    <3> QED BY <3>2 DEF Handlings
  <2> QED BY <1>6, <2>4, <2>5
<1>9. ASSUME NEW c \in Contexts
      PROVE  /\ In(steps, Step("report", c)) => In(ls, Told(c))
             /\ In(steps, Step("removeChild", c)) => In(ls, Detaches(c))
             /\ In(steps, Step("unlisten", c)) => In(ls, Detaches(c))
  <2> SUFFICES ASSUME NEW i \in 1..2 * n,
                      steps[i].do \in {"report", "removeChild", "unlisten"},
                      steps[i].context = c
               PROVE  In(ls, IF steps[i].do = "report" THEN Told(c) ELSE Detaches(c))
    BY <1>7, StepIs DEF In
  <2>1. PICK k \in 1..n : \/ i = 2 * k - 1 /\ steps[i] = Handle(ls[k])[1]
                          \/ i = 2 * k /\ steps[i] = Handle(ls[k])[2]
    BY <1>5
  <2>2. CASE ls[k].role = "fromParent"
    <3>1. steps[i] = Step("report", ls[k].context)
      BY <1>6, <2>1, <2>2, StepIs
    <3>2. ls[k].context = c /\ steps[i].do = "report"
      BY <3>1, StepIs
    <3>3. ls[k] = Told(c)
      BY <1>6, <2>2, <3>2 DEF Told
    <3> QED BY <1>1, <3>2, <3>3 DEF In
  <2>3. CASE ls[k].role = "detach"
    <3>1. steps[i].do # "report" /\ ls[k].context = c
      BY <1>6, <2>1, <2>3, StepIs
    <3>2. ls[k] = Detaches(c)
      BY <1>6, <2>3, <3>1 DEF Detaches
    <3> QED BY <1>1, <3>1, <3>2 DEF In
  <2> QED BY <1>6, <2>2, <2>3
<1>10. ASSUME NEW c \in Contexts
       PROVE  /\ In(ls, Told(c)) => In(steps, Step("report", c))
              /\ In(ls, Detaches(c)) =>
                    In(steps, Step("removeChild", c)) /\ In(steps, Step("unlisten", c))
  <2>1. ASSUME NEW k \in 1..n, ls[k] = Told(c) PROVE In(steps, Step("report", c))
    <3>1. ls[k].role = "fromParent" /\ ls[k].context = c
      BY <2>1, StepIs DEF Told
    <3>2. 2 * k \in 1..2 * n /\ steps[2 * k] = Step("report", c)
      BY <1>4, <1>6, <3>1
    <3> QED BY <1>7, <3>2 DEF In
  <2>2. ASSUME NEW k \in 1..n, ls[k] = Detaches(c)
        PROVE  In(steps, Step("removeChild", c)) /\ In(steps, Step("unlisten", c))
    <3>1. ls[k].role = "detach" /\ ls[k].context = c
      BY <2>2, StepIs DEF Detaches
    <3>2. /\ 2 * k - 1 \in 1..2 * n /\ steps[2 * k - 1] = Step("removeChild", c)
          /\ 2 * k \in 1..2 * n /\ steps[2 * k] = Step("unlisten", c)
      BY <1>4, <1>6, <3>1
    <3> QED BY <1>7, <3>2 DEF In
  <2> QED BY <1>1, <2>1, <2>2 DEF In
<1> QED BY <1>7, <1>8, <1>9, <1>10

------------------------------------------------------------------------------
\* What a thread that goes on with these steps leaves ahead of it.
LEMMA Went ==
    ASSUME TypeOK, NEW t \in Threads, ~Idle(t), NEW steps \in Seq(Steps), GoOnWith(t, steps)
    PROVE  /\ todo' \in [Threads -> Seq(Steps)]
           /\ \A u \in Threads : u # t => todo'[u] = todo[u]
           /\ Len(todo'[t]) = Len(steps) + Len(todo[t]) - 1
           /\ \A i \in 1..Len(steps) : todo'[t][i] = steps[i]
           /\ \A i \in 2..Len(todo[t]) :
                 /\ i + Len(steps) - 1 \in 1..Len(todo'[t])
                 /\ todo'[t][i + Len(steps) - 1] = todo[t][i]
           /\ \A i \in 1..Len(todo'[t]) :
                 \/ i \in 1..Len(steps)
                 \/ /\ i - Len(steps) + 1 \in 2..Len(todo[t])
                    /\ todo'[t][i] = todo[t][i - Len(steps) + 1]
           /\ Head(todo[t]) = todo[t][1] /\ 1 \in 1..Len(todo[t]) /\ Head(todo[t]) \in Steps
           /\ Len(todo[t]) \in Nat /\ Len(steps) \in Nat
<1>1. PICK s, n, m : s = todo[t] /\ n = Len(todo[t]) /\ m = Len(steps)
  OBVIOUS
<1>2. s \in Seq(Steps) /\ s # <<>> /\ n \in Nat /\ m \in Nat
  BY <1>1 DEF TypeOK, Idle
<1>3. /\ Head(s) = s[1] /\ n >= 1 /\ s[1] \in Steps
      /\ Tail(s) \in Seq(Steps) /\ Len(Tail(s)) = n - 1
      /\ \A i \in 1..n - 1 : Tail(s)[i] = s[i + 1]
  <2>1. n # 0
    BY <1>1, <1>2, EmptySeq
  <2> QED BY <1>1, <1>2, <2>1, HeadTailProperties
<1>4. PICK r : r = steps \o Tail(s)
  OBVIOUS
<1>5. /\ r \in Seq(Steps) /\ Len(r) = m + n - 1
      /\ \A i \in 1..m : r[i] = steps[i]
      /\ \A i \in m + 1..m + n - 1 : r[i] = s[i - m + 1]
  <2>1. /\ r \in Seq(Steps) /\ Len(r) = m + (n - 1)
        /\ \A i \in 1..m + (n - 1) : r[i] = IF i <= m THEN steps[i] ELSE Tail(s)[i - m]
    BY <1>1, <1>2, <1>3, <1>4, ConcatProperties
  <2>2. \A i \in m + 1..m + n - 1 : Tail(s)[i - m] = s[i - m + 1]
    BY <1>2, <1>3
  <2> QED BY <1>2, <1>3, <2>1, <2>2
<1>6. todo' = [todo EXCEPT ![t] = r]
  BY <1>1, <1>4 DEF GoOnWith
<1>7. /\ todo' \in [Threads -> Seq(Steps)] /\ todo'[t] = r
      /\ \A u \in Threads : u # t => todo'[u] = todo[u]
  BY <1>5, <1>6 DEF TypeOK
<1>8. \A i \in 2..n : i + m - 1 \in 1..m + n - 1 /\ r[i + m - 1] = s[i]
  BY <1>2, <1>5
<1>9. \A i \in 1..m + n - 1 : i \in 1..m \/ (i - m + 1 \in 2..n /\ r[i] = s[i - m + 1])
  BY <1>2, <1>5
<1> QED BY <1>1, <1>2, <1>3, <1>5, <1>7, <1>8, <1>9

\* A step of a call that makes a context is ahead once.
LEMMA OneStep ==
    ASSUME TypeOK, MakingInv, NEW t \in Threads, NEW u \in Threads,
           NEW i \in 1..Len(todo[t]), NEW j \in 1..Len(todo[u]),
           todo[t][i] = todo[u][j], todo[t][i].do \in Makings
    PROVE  t = u /\ i = j
<1>0. Len(todo[t]) \in Nat /\ Len(todo[u]) \in Nat /\ i \in Nat /\ j \in Nat
  BY DEF TypeOK
<1>1. ASSUME NEW a \in 1..Len(todo[t]), NEW b \in 1..Len(todo[u]),
             todo[t][a] = todo[u][b], todo[t][a].do = "return"
      PROVE  t = u /\ a = b
  <2>1. t = u
    BY <1>1 DEF MakingInv
  <2>2. a = Len(todo[t]) /\ b = Len(todo[u])
    BY <1>1 DEF MakingInv, InOrder
  <2> QED BY <2>1, <2>2
<1>2. ASSUME NEW a \in 1..Len(todo[t]), NEW b \in 1..Len(todo[u]),
             todo[t][a] = todo[u][b], todo[t][a].do = "listenSelf"
      PROVE  t = u /\ a = b
  <2>1. Followed(todo[t], a, "return") /\ Followed(todo[u], b, "return")
    BY <1>2 DEF MakingInv, InOrder
  <2>2. /\ a + 1 \in 1..Len(todo[t]) /\ b + 1 \in 1..Len(todo[u])
        /\ todo[t][a + 1] = todo[u][b + 1] /\ todo[t][a + 1].do = "return"
    BY <1>2, <2>1, StepIs DEF Followed
  <2>3. t = u /\ a + 1 = b + 1
    BY <1>1, <2>2
  <2> QED BY <2>3, <1>0
<1>3. ASSUME NEW a \in 1..Len(todo[t]), NEW b \in 1..Len(todo[u]),
             todo[t][a] = todo[u][b], todo[t][a].do = "listenParent"
      PROVE  t = u /\ a = b
  <2>1. Followed(todo[t], a, "listenSelf") /\ Followed(todo[u], b, "listenSelf")
    BY <1>3 DEF MakingInv, InOrder
  <2>2. /\ a + 1 \in 1..Len(todo[t]) /\ b + 1 \in 1..Len(todo[u])
        /\ todo[t][a + 1] = todo[u][b + 1] /\ todo[t][a + 1].do = "listenSelf"
    BY <1>3, <2>1, StepIs DEF Followed
  <2>3. t = u /\ a + 1 = b + 1
    BY <1>2, <2>2
  <2> QED BY <2>3, <1>0
<1>4. ASSUME NEW a \in 1..Len(todo[t]), NEW b \in 1..Len(todo[u]),
             todo[t][a] = todo[u][b], todo[t][a].do = "addChild"
      PROVE  t = u /\ a = b
  <2>1. Followed(todo[t], a, "listenParent") /\ Followed(todo[u], b, "listenParent")
    BY <1>4 DEF MakingInv, InOrder
  <2>2. /\ a + 1 \in 1..Len(todo[t]) /\ b + 1 \in 1..Len(todo[u])
        /\ todo[t][a + 1] = todo[u][b + 1] /\ todo[t][a + 1].do = "listenParent"
    BY <1>4, <2>1, StepIs DEF Followed
  <2>3. t = u /\ a + 1 = b + 1
    BY <1>3, <2>2
  <2> QED BY <2>3, <1>0
<1> QED BY <1>1, <1>2, <1>3, <1>4 DEF Makings

\* What is ahead after a step, which put others in its place.
Moved(head, steps) ==
    \A x \in Steps :
        /\ x.do \in Makings => (Ahead(x)' <=> Ahead(x) /\ x # head)
        /\ Ahead(x)' => Ahead(x) \/ In(steps, x)
        /\ Ahead(x) /\ x # head => Ahead(x)'
        /\ In(steps, x) => Ahead(x)'

LEMMA Goes ==
    ASSUME TypeOK, MakingInv, NEW t \in Threads, ~Idle(t),
           NEW steps \in Seq(Steps), Handles(steps, done'), GoOnWith(t, steps)
    PROVE  Moved(Head(todo[t]), steps)
<1>1. /\ \A u \in Threads : u # t => todo'[u] = todo[u]
      /\ \A i \in 1..Len(steps) : todo'[t][i] = steps[i]
      /\ \A i \in 2..Len(todo[t]) :
            /\ i + Len(steps) - 1 \in 1..Len(todo'[t])
            /\ todo'[t][i + Len(steps) - 1] = todo[t][i]
      /\ \A i \in 1..Len(todo'[t]) :
            \/ i \in 1..Len(steps)
            \/ /\ i - Len(steps) + 1 \in 2..Len(todo[t])
               /\ todo'[t][i] = todo[t][i - Len(steps) + 1]
      /\ Len(todo'[t]) = Len(steps) + Len(todo[t]) - 1
      /\ Len(todo[t]) \in Nat /\ Len(steps) \in Nat
  BY Went
<1>2. PICK head : head = Head(todo[t])
  OBVIOUS
<1>3. head = todo[t][1] /\ 1 \in 1..Len(todo[t])
  BY <1>2, Went
<1>4. ASSUME NEW x, NEW u \in Threads, NEW i \in 1..Len(todo'[u]), todo'[u][i] = x
      PROVE  Ahead(x) \/ In(steps, x)
  <2>1. CASE u # t
    <3>1. i \in 1..Len(todo[u]) /\ todo[u][i] = x
      BY <1>1, <1>4, <2>1
    <3> QED BY <3>1 DEF Ahead
  <2>2. CASE u = t /\ i \in 1..Len(steps)
    BY <1>1, <1>4, <2>2 DEF In
  <2>3. CASE u = t /\ i \notin 1..Len(steps)
    <3>1. PICK k \in 1..Len(todo[t]) : todo[t][k] = x
      BY <2>3, <1>1, <1>4
    <3> QED BY <3>1 DEF Ahead
  <2> QED BY <1>1, <2>1, <2>2, <2>3
<1>5. ASSUME NEW x, NEW u \in Threads, NEW i \in 1..Len(todo[u]), todo[u][i] = x, x # head
      PROVE  Ahead(x)'
  <2>1. CASE u # t
    BY <1>1, <1>5, <2>1 DEF Ahead
  <2>2. CASE u = t
    <3>1. i \in 2..Len(todo[t])
      BY <1>1, <1>3, <1>5, <2>2
    <3>2. PICK k \in 1..Len(todo'[t]) : todo'[t][k] = x
      BY <1>1, <1>5, <2>2, <3>1
    <3> QED BY <3>2 DEF Ahead
  <2> QED BY <2>1, <2>2
<1>6. ASSUME NEW x, NEW i \in 1..Len(steps), steps[i] = x
      PROVE  Ahead(x)'
  <2>1. i \in 1..Len(todo'[t])
    BY <1>1, <1>3
  <2> QED BY <1>1, <1>6, <2>1 DEF Ahead
<1>7. ASSUME NEW x, x.do \in Makings, NEW u \in Threads, NEW i \in 1..Len(todo'[u]),
             todo'[u][i] = x
      PROVE  Ahead(x) /\ x # head
  <2>1. ~In(steps, x)
    BY <1>7 DEF In, Handles, Makings, Handlings
  <2>2. Ahead(x)
    BY <1>4, <1>7, <2>1
  <2>3. x # head
    <3> SUFFICES ASSUME x = head PROVE FALSE
      OBVIOUS
    <3>1. CASE u # t
      <4>1. i \in 1..Len(todo[u]) /\ todo[t][1] = todo[u][i]
        BY <1>1, <1>3, <1>7, <3>1
      <4> QED BY <4>1, <1>3, <1>7, <3>1, OneStep
    <3>2. CASE u = t
      <4>1. i \notin 1..Len(steps)
        BY <1>1, <1>7, <2>1, <3>2 DEF In
      <4>2. PICK k \in 2..Len(todo[t]) : todo[t][k] = x
        BY <1>1, <1>7, <3>2, <4>1
      <4>3. k \in 1..Len(todo[t])
        BY <1>1
      <4>4. k = 1
        BY <4>2, <4>3, <1>3, <1>7, OneStep
      <4> QED BY <4>4
    <3> QED BY <3>1, <3>2
  <2> QED BY <2>2, <2>3
<1>8. ASSUME NEW x
      PROVE  /\ Ahead(x)' => Ahead(x) \/ In(steps, x)
             /\ Ahead(x) /\ x # head => Ahead(x)'
             /\ In(steps, x) => Ahead(x)'
             /\ x.do \in Makings /\ Ahead(x)' => Ahead(x) /\ x # head
  <2>1. ASSUME Ahead(x)'
        PROVE  /\ Ahead(x) \/ In(steps, x)
               /\ x.do \in Makings => Ahead(x) /\ x # head
    <3>1. PICK u \in Threads : \E i \in 1..Len(todo'[u]) : todo'[u][i] = x
      BY <2>1 DEF Ahead
    <3>2. PICK i \in 1..Len(todo'[u]) : todo'[u][i] = x
      BY <3>1
    <3> QED BY <3>2, <1>4, <1>7
  <2>2. ASSUME Ahead(x), x # head PROVE Ahead(x)'
    <3>1. PICK u \in Threads : \E i \in 1..Len(todo[u]) : todo[u][i] = x
      BY <2>2 DEF Ahead
    <3>2. PICK i \in 1..Len(todo[u]) : todo[u][i] = x
      BY <3>1
    <3> QED BY <3>2, <2>2, <1>5
  <2>3. ASSUME In(steps, x) PROVE Ahead(x)'
    BY <2>3, <1>6 DEF In
  <2> QED BY <2>1, <2>2, <2>3
<1> QED BY <1>2, <1>8 DEF Moved

\* The calls that make contexts, and the reasons, as a thread goes on.
LEMMA GoesInOrder ==
    ASSUME TypeOK, MakingInv, ReasonInv, NEW t \in Threads, ~Idle(t),
           NEW steps \in Seq(Steps), Handles(steps, done'), GoOnWith(t, steps),
           NEW head, head = Head(todo[t]),
           made' = IF head.do = "return" THEN made \cup {head.context} ELSE made,
           done \subseteq done', err \subseteq err',
           head.do = "setErr" => head.context \in err'
    PROVE  todo' \in [Threads -> Seq(Steps)] /\ MakingInv' /\ ReasonInv'
<1> DEFINE m == Len(steps)
<1>1. /\ \A u \in Threads : u # t => todo'[u] = todo[u]
      /\ \A i \in 1..m : todo'[t][i] = steps[i]
      /\ \A i \in 2..Len(todo[t]) :
            /\ i + m - 1 \in 1..Len(todo'[t])
            /\ todo'[t][i + m - 1] = todo[t][i]
      /\ \A i \in 1..Len(todo'[t]) :
            \/ i \in 1..m
            \/ i - m + 1 \in 2..Len(todo[t]) /\ todo'[t][i] = todo[t][i - m + 1]
      /\ Len(todo'[t]) = m + Len(todo[t]) - 1
      /\ Len(todo[t]) \in Nat /\ m \in Nat
      /\ todo' \in [Threads -> Seq(Steps)]
      /\ head = todo[t][1] /\ 1 \in 1..Len(todo[t]) /\ head \in Steps
  BY Went
<1> HIDE DEF m
<1>2. \A i \in 1..m : steps[i].do \in Handlings
  BY DEF Handles, m
\* Of a step that was there before: its old place, and the step behind it.
<1>3. ASSUME NEW u \in Threads, NEW i \in 1..Len(todo'[u]), todo'[u][i].do \in Makings
      PROVE  \E k \in 1..Len(todo[u]) :
                /\ todo[u][k] = todo'[u][i] /\ Len(todo[u]) - k = Len(todo'[u]) - i
                /\ k + 1 \in 1..Len(todo[u]) =>
                      i + 1 \in 1..Len(todo'[u]) /\ todo'[u][i + 1] = todo[u][k + 1]
  <2>1. CASE u # t
    BY <1>1, <2>1
  <2>2. CASE u = t
    <3>1. i \notin 1..m
      BY <1>1, <1>2, <1>3, <2>2 DEF Makings, Handlings
    <3>2. PICK k \in 2..Len(todo[t]) : k = i - m + 1 /\ todo'[t][i] = todo[t][k]
      BY <1>1, <2>2, <3>1
    <3>3. k \in 1..Len(todo[t]) /\ Len(todo[t]) - k = Len(todo'[t]) - i
      BY <1>1, <3>2
    <3>4. k + 1 \in 1..Len(todo[t]) =>
             i + 1 \in 1..Len(todo'[t]) /\ todo'[t][i + 1] = todo[t][k + 1]
      <4> SUFFICES ASSUME k + 1 \in 1..Len(todo[t])
                   PROVE  i + 1 \in 1..Len(todo'[t]) /\ todo'[t][i + 1] = todo[t][k + 1]
        OBVIOUS
      <4>1. k + 1 \in 2..Len(todo[t]) /\ (k + 1) + m - 1 = i + 1
        BY <1>1, <3>2, <2>2
      <4> QED BY <1>1, <4>1
    <3> QED BY <2>2, <3>2, <3>3, <3>4
  <2> QED BY <2>1, <2>2
<1>4. MakingInv'
  <2>1. ASSUME NEW u \in Threads, NEW i \in 1..Len(todo'[u]), NEW s, s = todo'[u][i]
        PROVE  InOrder(todo'[u], i) /\ (s.do = "return" => s.context \notin made')
    <3>0. CASE s.do \notin Makings
      BY <2>1, <3>0 DEF Makings, InOrder
    <3> SUFFICES ASSUME s.do \in Makings
                 PROVE  InOrder(todo'[u], i) /\ (s.do = "return" => s.context \notin made')
      BY <3>0
    <3>1. PICK k \in 1..Len(todo[u]) :
             /\ todo[u][k] = s /\ Len(todo[u]) - k = Len(todo'[u]) - i
             /\ k + 1 \in 1..Len(todo[u]) =>
                   i + 1 \in 1..Len(todo'[u]) /\ todo'[u][i + 1] = todo[u][k + 1]
      BY <1>3, <2>1
    <3>2. InOrder(todo[u], k) /\ (s.do = "return" => s.context \notin made)
      BY <3>1 DEF MakingInv
    <3>4. \A do : Followed(todo[u], k, do) => Followed(todo'[u], i, do)
      BY <2>1, <3>1 DEF Followed
    <3>3. ASSUME s.do = "return" PROVE i = Len(todo'[u]) /\ s.context \notin made'
      <4>1. Len(todo[u]) \in Nat /\ Len(todo'[u]) \in Nat
        BY <1>1 DEF TypeOK
      <4>2. i = Len(todo'[u]) /\ k = Len(todo[u])
        BY <3>1, <3>2, <3>3, <4>1 DEF InOrder
      <4>3. s.context \notin made
        BY <3>2, <3>3
      <4>4. ASSUME head.do = "return" PROVE s.context # head.context
        <5> SUFFICES ASSUME s.context = head.context PROVE FALSE
          OBVIOUS
        <5>1. s = head
          <6>1. s \in Steps
            BY <1>1, <2>1
          <6>2. s = Step("return", head.context) /\ head = Step("return", head.context)
            BY <6>1, <1>1, <3>3, <4>4, StepIs
          <6> QED BY <6>2
        <5>2. t = u /\ 1 = k
          <6>1. todo[t][1] = todo[u][k] /\ todo[t][1].do \in Makings /\ 1 \in 1..Len(todo[t])
            BY <5>1, <1>1, <3>1, <3>3
          <6> QED BY <6>1, OneStep
        <5>3. Len(todo[t]) = 1 /\ Len(todo'[t]) = m
          <6>1. Len(todo[t]) = 1
            BY <5>2, <4>2
          <6>2. Len(todo'[t]) = m + Len(todo[t]) - 1 /\ m \in Nat
            BY <1>1
          <6> QED BY <6>1, <6>2
        <5>4. i \in 1..m
          BY <5>2, <5>3
        <5> QED BY <5>2, <5>4, <1>1, <1>2, <2>1, <3>3 DEF Handlings
      <4> QED BY <4>2, <4>3, <4>4
    <3>5. InOrder(todo'[u], i)
      BY <2>1, <3>1, <3>2, <3>3, <3>4 DEF InOrder
    <3> QED BY <3>3, <3>5
  <2>2. ASSUME NEW u \in Threads, NEW v \in Threads,
               NEW i \in 1..Len(todo'[u]), NEW j \in 1..Len(todo'[v]),
               todo'[u][i] = todo'[v][j], todo'[u][i].do = "return"
        PROVE  u = v
    <3>1. PICK k \in 1..Len(todo[u]) : todo[u][k] = todo'[u][i]
      BY <1>3, <2>2 DEF Makings
    <3>2. PICK l \in 1..Len(todo[v]) : todo[v][l] = todo'[v][j]
      BY <1>3, <2>2 DEF Makings
    <3> QED BY <3>1, <3>2, <2>2 DEF MakingInv
  <2> QED BY <2>1, <2>2 DEF MakingInv
<1>5. ReasonInv'
  <2> SUFFICES ASSUME NEW u \in Threads, NEW i \in 1..Len(todo'[u]),
                      NEW s, s = todo'[u][i], NEW c, c = s.context
               PROVE  /\ s.do = "setErr" => Parent[c] \in done'
                      /\ s.do = "report" /\ c \notin Cancelable =>
                           /\ Parent[c] \in done'
                           /\ c \in err' \/ (i > 1 /\ todo'[u][i - 1] = Step("setErr", c))
    BY DEF ReasonInv
  <2>1. CASE u # t
    BY <1>1, <2>1 DEF ReasonInv
  <2>2. CASE u = t /\ i \in 1..m
    <3>1. s = steps[i]
      BY <1>1, <2>2
    <3>2. /\ s.do \in {"setErr", "report"} => Parent[c] \in done'
          /\ s.do = "report" => i > 1 /\ steps[i - 1] = Step("setErr", c)
      BY <2>2, <3>1 DEF Handles, m
    <3>3. i > 1 => i - 1 \in 1..m
      BY <2>2, <1>1
    <3> QED BY <1>1, <2>2, <3>2, <3>3
  <2>3. CASE u = t /\ i \notin 1..m
    <3>1. PICK k \in 2..Len(todo[t]) : k = i - m + 1 /\ s = todo[t][k]
      BY <1>1, <2>3
    <3>2. /\ s.do = "setErr" => Parent[c] \in done
          /\ s.do = "report" /\ c \notin Cancelable =>
               /\ Parent[c] \in done
               /\ c \in err \/ todo[t][k - 1] = Step("setErr", c)
      <4>1. k \in 1..Len(todo[t])
        BY <1>1
      <4> QED BY <3>1, <4>1 DEF ReasonInv
    <3>3. ASSUME todo[t][k - 1] = Step("setErr", c)
          PROVE  c \in err' \/ (i > 1 /\ todo'[u][i - 1] = Step("setErr", c))
      <4>1. CASE k = 2
        BY <4>1, <3>3, <1>1, StepIs
      <4>2. CASE k # 2
        <5>1. k - 1 \in 2..Len(todo[t]) /\ (k - 1) + m - 1 = i - 1 /\ i > 1
          BY <4>2, <3>1, <1>1, <2>3
        <5>2. todo'[t][i - 1] = todo[t][k - 1]
          BY <5>1, <1>1
        <5> QED BY <5>1, <5>2, <3>3, <2>3
      <4> QED BY <4>1, <4>2
    <3> QED BY <3>2, <3>3
  <2> QED BY <2>1, <2>2, <2>3
<1> QED BY <1>1, <1>4, <1>5

\* What is ahead of a context, when head was done and asked for these steps.
Known(head, steps, c) ==
    /\ Adding(c)' <=> Adding(c) /\ head # Step("addChild", c)
    /\ ToListen(c)' <=> ToListen(c) /\ head # Step("listenParent", c)
    /\ ToDetach(c)' <=> ToDetach(c) /\ head # Step("listenSelf", c)
    /\ Reporting(c)' => Reporting(c) \/ In(steps, Step("report", c))
    /\ Reporting(c) /\ head # Step("report", c) => Reporting(c)'
    /\ In(steps, Step("report", c)) => Reporting(c)'
    /\ Removing(c)' => Removing(c) \/ In(steps, Step("removeChild", c))
    /\ Removing(c) /\ head # Step("removeChild", c) => Removing(c)'
    /\ In(steps, Step("removeChild", c)) => Removing(c)'
    /\ Unlistening(c)' => Unlistening(c) \/ In(steps, Step("unlisten", c))
    /\ Unlistening(c) /\ head # Step("unlisten", c) => Unlistening(c)'
    /\ In(steps, Step("unlisten", c)) => Unlistening(c)'
    /\ Born(c)' <=> Born(c)

LEMMA Going ==
    ASSUME TypeOK, MakingInv, ReasonInv, NEW t \in Threads,
           NEW do \in Makings \cup Handlings, Doing(t, do), NEW c0, c0 = Current(t),
           NEW steps \in Seq(Steps), Handles(steps, done'), GoOnWith(t, steps),
           made' = IF do = "return" THEN made \cup {c0} ELSE made,
           done \subseteq done', err \subseteq err', do = "setErr" => c0 \in err'
    PROVE  /\ todo' \in [Threads -> Seq(Steps)] /\ MakingInv' /\ ReasonInv'
           /\ c0 \in Contexts /\ Ahead(Step(do, c0))
           /\ \A c \in Contexts : Known(Step(do, c0), steps, c)
<1>1. ~Idle(t) /\ Head(todo[t]).do = do /\ Head(todo[t]).context = c0
  BY DEF Doing, Current
<1>2. PICK head : head = Head(todo[t])
  OBVIOUS
<1>3. head \in Steps /\ head = todo[t][1] /\ 1 \in 1..Len(todo[t])
  BY <1>1, <1>2, Went
<1>4. head = Step(do, c0) /\ c0 \in Contexts /\ Ahead(head)
  <2>1. head = Step(do, c0)
    BY <1>1, <1>2, <1>3, StepIs
  <2>2. c0 \in Contexts
    BY <1>1, <1>2, <1>3 DEF Steps
  <2> QED BY <1>3, <2>1, <2>2 DEF Ahead
<1>5. todo' \in [Threads -> Seq(Steps)] /\ MakingInv' /\ ReasonInv'
  <2>1. /\ made' = IF head.do = "return" THEN made \cup {head.context} ELSE made
        /\ head.do = "setErr" => head.context \in err'
    BY <1>1, <1>2
  <2> QED BY <1>1, <1>2, <2>1, GoesInOrder
<1>6. Moved(head, steps)
  BY <1>1, <1>2, Goes
<1>7. ASSUME NEW c \in Contexts PROVE Known(head, steps, c)
  <2>1. \A what \in Makings : Step(what, c) \in Steps /\ Step(what, c).do = what
    BY StepIs
  <2>2. \A what \in Handlings : Step(what, c) \in Steps
    BY StepIs
  <2>3. \A what \in Makings :
           Ahead(Step(what, c))' <=> Ahead(Step(what, c)) /\ Step(what, c) # head
    BY <2>1, <1>6 DEF Moved
  <2>4. \A what \in Handlings :
           /\ Ahead(Step(what, c))' => Ahead(Step(what, c)) \/ In(steps, Step(what, c))
           /\ Ahead(Step(what, c)) /\ Step(what, c) # head => Ahead(Step(what, c))'
           /\ In(steps, Step(what, c)) => Ahead(Step(what, c))'
    BY <2>2, <1>6 DEF Moved
  <2>5. Born(c)' <=> Born(c)
    <3>1. Ahead(Step("return", c))' <=> Ahead(Step("return", c)) /\ Step("return", c) # head
      BY <2>3 DEF Makings
    <3>2. head = Step("return", c) <=> do = "return" /\ c = c0
      BY <1>4, StepIs
    <3> QED BY <1>4, <3>1, <3>2 DEF Born
  <2>6. /\ Adding(c)' <=> Adding(c) /\ head # Step("addChild", c)
        /\ ToListen(c)' <=> ToListen(c) /\ head # Step("listenParent", c)
        /\ ToDetach(c)' <=> ToDetach(c) /\ head # Step("listenSelf", c)
    BY <2>3 DEF Adding, ToListen, ToDetach, Makings
  <2>7. /\ Reporting(c)' => Reporting(c) \/ In(steps, Step("report", c))
        /\ Reporting(c) /\ head # Step("report", c) => Reporting(c)'
        /\ In(steps, Step("report", c)) => Reporting(c)'
    BY <2>4 DEF Reporting, Handlings
  <2>8. /\ Removing(c)' => Removing(c) \/ In(steps, Step("removeChild", c))
        /\ Removing(c) /\ head # Step("removeChild", c) => Removing(c)'
        /\ In(steps, Step("removeChild", c)) => Removing(c)'
    BY <2>4 DEF Removing, Handlings
  <2>9. /\ Unlistening(c)' => Unlistening(c) \/ In(steps, Step("unlisten", c))
        /\ Unlistening(c) /\ head # Step("unlisten", c) => Unlistening(c)'
        /\ In(steps, Step("unlisten", c)) => Unlistening(c)'
    BY <2>4 DEF Unlistening, Handlings
  <2> QED BY <2>5, <2>6, <2>7, <2>8, <2>9 DEF Known
<1> QED BY <1>4, <1>5, <1>7

\* No step, and what the order of the steps of a call says.
LEMMA NoSteps ==
    /\ <<>> \in Seq(Steps)
    /\ \A D : Handles(<<>>, D)
    /\ \A step : ~In(<<>>, step)
BY EmptySeq DEF Handles, In

LEMMA InMaking ==
    ASSUME TypeOK, MakingInv, NEW c \in Contexts
    PROVE  /\ Adding(c) => ToListen(c)
           /\ ToListen(c) => ToDetach(c)
           /\ ToDetach(c) => Born(c) /\ c \notin made
<1>1. ASSUME NEW do, NEW next, Ahead(Step(do, c)),
             \A t \in Threads : \A i \in 1..Len(todo[t]) :
                 todo[t][i].do = do => Followed(todo[t], i, next)
      PROVE  Ahead(Step(next, c))
  <2>1. PICK t \in Threads : \E i \in 1..Len(todo[t]) : todo[t][i] = Step(do, c)
    BY <1>1 DEF Ahead
  <2>2. PICK i \in 1..Len(todo[t]) : todo[t][i] = Step(do, c)
    BY <2>1
  <2>3. Followed(todo[t], i, next) /\ todo[t][i].context = c
    BY <1>1, <2>2, StepIs
  <2> QED BY <2>3 DEF Followed, Ahead
<1>2. Adding(c) => ToListen(c)
  BY <1>1 DEF Adding, ToListen, MakingInv, InOrder
<1>3. ToListen(c) => ToDetach(c)
  BY <1>1 DEF ToListen, ToDetach, MakingInv, InOrder
<1>4. ToDetach(c) => Ahead(Step("return", c))
  BY <1>1 DEF ToDetach, MakingInv, InOrder
<1>5. Ahead(Step("return", c)) => c \notin made
  BY StepIs DEF Ahead, MakingInv
<1> QED BY <1>2, <1>3, <1>4, <1>5 DEF Born

LEMMA AddChildStep == ASSUME IInv, NEW t \in Threads, addChild(t) PROVE IInv'
<1>0. /\ TypeOK /\ MakingInv /\ BornInv /\ EarlyInv /\ ChildInv /\ SignalInv
      /\ ReasonInv /\ DoneHasReason
  BY DEF IInv
<1>1. PICK c0 : c0 = Current(t)
  OBVIOUS
<1>2. /\ Doing(t, "addChild") /\ GoOnWith(t, <<>>)
      /\ children' = [children EXCEPT ![Parent[c0]] = @ \cup {c0}]
      /\ UNCHANGED <<err, done, signal, made>>
  BY <1>1 DEF addChild
<1>3. /\ todo' \in [Threads -> Seq(Steps)] /\ MakingInv' /\ ReasonInv'
      /\ c0 \in Contexts /\ Adding(c0)
      /\ \A c \in Contexts : Known(Step("addChild", c0), <<>>, c)
  <2>1. "addChild" \in Makings /\ "addChild" # "return" /\ "addChild" # "setErr"
    BY DEF Makings
  <2> QED BY <1>0, <1>1, <1>2, <2>1, NoSteps, Going DEF Adding
<1>4. \A c \in Contexts :
         /\ Adding(c)' <=> Adding(c) /\ c # c0
         /\ ToListen(c)' <=> ToListen(c)
         /\ ToDetach(c)' <=> ToDetach(c)
         /\ Reporting(c)' <=> Reporting(c)
         /\ Removing(c)' <=> Removing(c)
         /\ Unlistening(c)' <=> Unlistening(c)
         /\ Born(c)' <=> Born(c)
  BY <1>3, NoSteps, StepIs DEF Known
<1>5. \A q \in All : \A l : Tells(q, l)' <=> Tells(q, l)
  BY <1>2 DEF Tells
<1>6. /\ Parent[c0] \in All /\ children' \in [All -> SUBSET Contexts]
      /\ \A q \in All : children'[q] = IF q = Parent[c0] THEN children[q] \cup {c0} ELSE children[q]
  <2>1. Parent[c0] \in All
    BY <1>3, TreeAssumption DEF All
  <2> QED BY <1>0, <1>2, <1>3, <2>1 DEF TypeOK
<1>7. TypeOK'
  BY <1>0, <1>2, <1>3, <1>6 DEF TypeOK
<1>8. Born(c0) /\ c0 \notin done
  BY <1>0, <1>3, InMaking DEF EarlyInv
<1>9. BornInv'
  BY <1>0, <1>2, <1>4, <1>5, <1>6, <1>8 DEF BornInv
<1>10. EarlyInv'
  BY <1>0, <1>2, <1>4, <1>5, TreeAssumption DEF EarlyInv, All
<1>11. ChildInv'
  BY <1>0, <1>2, <1>4, <1>5, <1>6, <1>8, TreeAssumption DEF ChildInv, All
<1>12. SignalInv'
  BY <1>0, <1>2, <1>4, <1>5, TreeAssumption DEF SignalInv, All
<1>13. DoneHasReason'
  BY <1>0, <1>2 DEF DoneHasReason
<1> QED BY <1>3, <1>7, <1>9, <1>10, <1>11, <1>12, <1>13 DEF IInv

------------------------------------------------------------------------------
\* What adding and removing does to a list that names each listener once.
LEMMA Appended ==
    ASSUME NEW s \in Seq(Listeners), Once(s), NEW l \in Listeners, ~In(s, l),
           NEW r, r = Append(s, l)
    PROVE  /\ r \in Seq(Listeners) /\ Once(r)
           /\ \A x : In(r, x) <=> In(s, x) \/ x = l
<1>1. /\ r \in Seq(Listeners) /\ Len(r) = Len(s) + 1 /\ Len(s) \in Nat
      /\ \A i \in 1..Len(s) : r[i] = s[i]
      /\ r[Len(s) + 1] = l
  BY AppendProperties
<1>2. \A i \in 1..Len(r) : i \in 1..Len(s) \/ i = Len(s) + 1
  BY <1>1
<1>3. \A i \in 1..Len(s) : s[i] # l
  BY DEF In
<1>4. Once(r)
  BY <1>1, <1>2, <1>3 DEF Once
<1>5. ASSUME NEW x PROVE In(r, x) <=> In(s, x) \/ x = l
  <2>1. \A i \in 1..Len(s) : i \in 1..Len(r)
    BY <1>1
  <2>2. Len(s) + 1 \in 1..Len(r)
    BY <1>1
  <2>3. In(r, x) => In(s, x) \/ x = l
    BY <1>1, <1>2 DEF In
  <2>4. In(s, x) => In(r, x)
    BY <1>1, <2>1 DEF In
  <2>5. x = l => In(r, x)
    BY <1>1, <2>2 DEF In
  <2> QED BY <2>3, <2>4, <2>5
<1> QED BY <1>1, <1>4, <1>5

LEMMA Dropped ==
    ASSUME NEW s \in Seq(Listeners), Once(s), NEW l, NEW r, r = RemoveFirst(s, l)
    PROVE  /\ r \in Seq(Listeners) /\ Once(r)
           /\ \A x : In(r, x) <=> In(s, x) /\ x # l
<1>0. Len(s) \in Nat
  OBVIOUS
<1>1. CASE ~In(s, l)
  BY <1>1 DEF In, RemoveFirst
<1>2. CASE In(s, l)
  <2>1. PICK p \in 1..Len(s) : s[p] = l /\ \A i \in 1..Len(s) : s[i] = l <=> i = p
    BY <1>2 DEF In, Once
  <2>2. {i \in 1..Len(s) : s[i] = l} = {p} /\ p \in Nat
    BY <1>0, <2>1
  <2>3. Min({p}) = p
    BY <2>2 DEF Min
  <2>4. r = RemoveAt(s, p)
    BY <2>1, <2>2, <2>3 DEF RemoveFirst, SelectInSeq
  <2>5. PICK a, b : a = SubSeq(s, 1, p - 1) /\ b = SubSeq(s, p + 1, Len(s))
    OBVIOUS
  <2>6. /\ a \in Seq(Listeners) /\ Len(a) = p - 1
        /\ \A i \in 1..(p - 1) : a[i] = s[i]
    <3>1. 1 \in Int /\ p - 1 \in Int /\ \A i \in 1..(p - 1) : s[i] \in Listeners
      BY <1>0, <2>1
    <3>2. /\ SubSeq(s, 1, p - 1) \in Seq(Listeners)
          /\ Len(SubSeq(s, 1, p - 1)) = IF 1 <= p - 1 THEN p - 1 - 1 + 1 ELSE 0
          /\ \A i \in 1..(p - 1 - 1 + 1) : SubSeq(s, 1, p - 1)[i] = s[1 + i - 1]
      BY <3>1, SubSeqProperties
    <3> QED BY <3>2, <2>5, <2>2, <2>1, <1>0
  <2>7. /\ b \in Seq(Listeners) /\ Len(b) = Len(s) - p
        /\ \A i \in 1..(Len(s) - p) : b[i] = s[p + i]
    <3>1. p + 1 \in Int /\ Len(s) \in Int /\ \A i \in (p + 1)..Len(s) : s[i] \in Listeners
      BY <1>0, <2>1
    <3>2. /\ SubSeq(s, p + 1, Len(s)) \in Seq(Listeners)
          /\ Len(SubSeq(s, p + 1, Len(s))) =
                IF p + 1 <= Len(s) THEN Len(s) - (p + 1) + 1 ELSE 0
          /\ \A i \in 1..(Len(s) - (p + 1) + 1) :
                SubSeq(s, p + 1, Len(s))[i] = s[p + 1 + i - 1]
      BY <3>1, SubSeqProperties
    <3> QED BY <3>2, <2>5, <2>2, <2>1, <1>0
  <2>8. /\ r \in Seq(Listeners) /\ Len(r) = (p - 1) + (Len(s) - p)
        /\ \A i \in 1..(p - 1) + (Len(s) - p) :
              r[i] = IF i <= p - 1 THEN a[i] ELSE b[i - (p - 1)]
    <3>1. r = a \o b
      BY <2>4, <2>5 DEF RemoveAt
    <3>2. /\ r \in Seq(Listeners) /\ Len(r) = Len(a) + Len(b)
          /\ \A i \in 1..(Len(a) + Len(b)) :
                r[i] = IF i <= Len(a) THEN a[i] ELSE b[i - Len(a)]
      <4>1. a \in Seq(Listeners) /\ b \in Seq(Listeners)
        BY <2>6, <2>7
      <4>2. /\ a \o b \in Seq(Listeners) /\ Len(a \o b) = Len(a) + Len(b)
            /\ \A i \in 1..(Len(a) + Len(b)) :
                  (a \o b)[i] = IF i <= Len(a) THEN a[i] ELSE b[i - Len(a)]
        BY <4>1, ConcatProperties
      <4> QED BY <3>1, <4>2
    <3>3. Len(a) = p - 1 /\ Len(b) = Len(s) - p
      BY <2>6, <2>7
    <3> QED BY <3>2, <3>3
  <2>9. Len(r) = Len(s) - 1 /\ \A i \in 1..Len(r) : r[i] = IF i < p THEN s[i] ELSE s[i + 1]
    <3>1. Len(r) = Len(s) - 1
      BY <1>0, <2>2, <2>8
    <3>2. ASSUME NEW i \in 1..Len(r), i < p PROVE r[i] = s[i]
      <4>1. i \in 1..(p - 1) /\ i <= p - 1 /\ i \in 1..(p - 1) + (Len(s) - p)
        BY <1>0, <2>2, <3>1, <3>2
      <4> QED BY <4>1, <2>6, <2>8
    <3>3. ASSUME NEW i \in 1..Len(r), ~(i < p) PROVE r[i] = s[i + 1]
      <4>1. /\ ~(i <= p - 1) /\ i \in 1..(p - 1) + (Len(s) - p)
            /\ i - (p - 1) \in 1..(Len(s) - p) /\ p + (i - (p - 1)) = i + 1
        BY <1>0, <2>2, <3>1, <3>3
      <4> QED BY <4>1, <2>7, <2>8
    <3> QED BY <3>1, <3>2, <3>3
  <2>10. Once(r)
    <3> SUFFICES ASSUME NEW i \in 1..Len(r), NEW j \in 1..Len(r), r[i] = r[j]
                 PROVE  i = j
      BY DEF Once
    <3>1. i \in 1..Len(s) /\ i + 1 \in 1..Len(s) /\ j \in 1..Len(s) /\ j + 1 \in 1..Len(s)
      BY <1>0, <2>9
    <3>2. (IF i < p THEN i ELSE i + 1) = (IF j < p THEN j ELSE j + 1)
      BY <2>9, <3>1 DEF Once
    <3> QED BY <3>2, <2>2
  <2>11. ASSUME NEW x PROVE In(r, x) <=> In(s, x) /\ x # l
    <3>1. ASSUME NEW i \in 1..Len(r), r[i] = x PROVE In(s, x) /\ x # l
      <4>1. PICK k \in 1..Len(s) : k # p /\ s[k] = x
        <5>1. i \in 1..Len(s) /\ i + 1 \in 1..Len(s)
          BY <1>0, <2>9
        <5>2. CASE i < p
          BY <5>1, <5>2, <2>9, <3>1
        <5>3. CASE ~(i < p)
          <6>1. i + 1 # p
            BY <5>3, <2>2
          <6> QED BY <5>1, <5>3, <6>1, <2>9, <3>1
        <5> QED BY <5>2, <5>3
      <4> QED BY <4>1, <2>1 DEF In
    <3>2. ASSUME NEW k \in 1..Len(s), s[k] = x, x # l PROVE In(r, x)
      <4>1. CASE k < p
        <5>1. k \in 1..Len(r)
          BY <4>1, <1>0, <2>9, <2>2
        <5> QED BY <5>1, <4>1, <2>9, <3>2 DEF In
      <4>2. CASE ~(k < p)
        <5>1. k # p
          BY <2>1, <3>2
        <5>2. k - 1 \in 1..Len(r) /\ ~(k - 1 < p) /\ (k - 1) + 1 = k
          BY <4>2, <5>1, <1>0, <2>9, <2>2
        <5> QED BY <5>2, <2>9, <3>2 DEF In
      <4> QED BY <4>1, <4>2
    <3> QED BY <3>1, <3>2 DEF In
  <2> QED BY <2>8, <2>10, <2>11
<1> QED BY <1>1, <1>2

\* The listeners of one future change.
LEMMA Signals ==
    ASSUME TypeOK, EarlyInv, NEW q0 \in All, NEW r \in Seq(Listeners), Once(r),
           signal' = [signal EXCEPT ![q0] = r]
    PROVE  /\ signal' \in [All -> Seq(Listeners)]
           /\ \A q \in All : Once(signal'[q]) /\ signal'[q] = IF q = q0 THEN r ELSE signal[q]
           /\ \A q \in All : \A l : Tells(q, l)' <=> IF q = q0 THEN In(r, l) ELSE Tells(q, l)
<1>1. \A q \in All : signal'[q] = IF q = q0 THEN r ELSE signal[q]
  BY DEF TypeOK
<1>2. \A q \in All : \A l : Tells(q, l)' <=> IF q = q0 THEN In(r, l) ELSE Tells(q, l)
  BY <1>1 DEF Tells, In
<1> QED BY <1>1, <1>2 DEF TypeOK, EarlyInv

LEMMA Names ==
    ASSUME NEW c \in Contexts
    PROVE  /\ Told(c) \in Listeners /\ Detaches(c) \in Listeners
           /\ \A d : /\ Told(c) = Told(d) => c = d
                     /\ Detaches(c) = Detaches(d) => c = d
                     /\ Told(c) # Detaches(d)
           /\ Parent[c] \in All /\ c \in All
           /\ Handle(Told(c)) = <<Step("setErr", c), Step("report", c)>>
           /\ Handle(Detaches(c)) = <<Step("removeChild", c), Step("unlisten", c)>>
BY StepIs, TreeAssumption DEF Told, Detaches, All, Handle, Listener, Listeners

\* What the listeners of one context ask for.
LEMMA Asked ==
    ASSUME NEW c \in Contexts, NEW D, NEW l \in {Told(c), Detaches(c)},
           l = Told(c) => Parent[c] \in D
    PROVE  /\ Handle(l) \in Seq(Steps) /\ Handles(Handle(l), D)
           /\ \A d \in Contexts :
                 /\ In(Handle(l), Step("report", d)) <=> l = Told(c) /\ d = c
                 /\ In(Handle(l), Step("removeChild", d)) <=> l = Detaches(c) /\ d = c
                 /\ In(Handle(l), Step("unlisten", d)) <=> l = Detaches(c) /\ d = c
<1>1. CASE l = Told(c)
  <2>1. PICK h : h = <<Step("setErr", c), Step("report", c)>> /\ h = Handle(l)
    BY <1>1, Names
  <2>2. /\ Len(h) = 2 /\ h[1] = Step("setErr", c) /\ h[2] = Step("report", c)
        /\ Step("setErr", c) \in Steps /\ Step("report", c) \in Steps
    BY <2>1, StepIs DEF Handlings
  <2>3. h \in Seq(Steps)
    BY <2>1, <2>2
  <2>4. Handles(h, D)
    BY <1>1, <2>2, StepIs DEF Handles, Handlings
  <2>5. \A x : In(h, x) <=> x = Step("setErr", c) \/ x = Step("report", c)
    BY <2>2 DEF In
  <2>6. \A d \in Contexts :
           /\ In(h, Step("report", d)) <=> d = c
           /\ ~In(h, Step("removeChild", d)) /\ ~In(h, Step("unlisten", d))
    BY <2>5, StepIs
  <2>7. l # Detaches(c)
    BY <1>1, Names
  <2> QED BY <1>1, <2>1, <2>3, <2>4, <2>6, <2>7
<1>2. CASE l = Detaches(c)
  <2>1. PICK h : h = <<Step("removeChild", c), Step("unlisten", c)>> /\ h = Handle(l)
    BY <1>2, Names
  <2>2. /\ Len(h) = 2 /\ h[1] = Step("removeChild", c) /\ h[2] = Step("unlisten", c)
        /\ Step("removeChild", c) \in Steps /\ Step("unlisten", c) \in Steps
    BY <2>1, StepIs DEF Handlings
  <2>3. h \in Seq(Steps)
    BY <2>1, <2>2
  <2>4. Handles(h, D)
    BY <2>2, StepIs DEF Handles, Handlings
  <2>5. \A x : In(h, x) <=> x = Step("removeChild", c) \/ x = Step("unlisten", c)
    BY <2>2 DEF In
  <2>6. \A d \in Contexts :
           /\ ~In(h, Step("report", d))
           /\ In(h, Step("removeChild", d)) <=> d = c
           /\ In(h, Step("unlisten", d)) <=> d = c
    BY <2>5, StepIs
  <2>7. l # Told(c)
    BY <1>2, Names
  <2> QED BY <1>2, <2>1, <2>3, <2>4, <2>6, <2>7
<1> QED BY <1>1, <1>2

LEMMA CurrentIs ==
    ASSUME TypeOK, NEW t \in Threads, NEW do, Doing(t, do)
    PROVE  Current(t) \in Contexts /\ Ahead(Step(do, Current(t)))
<1>1. todo[t] \in Seq(Steps) /\ todo[t] # <<>> /\ Head(todo[t]).do = do
  BY DEF TypeOK, Doing, Idle
<1>2. Head(todo[t]) \in Steps /\ Head(todo[t]) = todo[t][1] /\ 1 \in 1..Len(todo[t])
  BY <1>1, HeadTailProperties, EmptySeq
<1>3. Head(todo[t]) = Step(do, Current(t))
  BY <1>1, <1>2, StepIs DEF Current
<1>4. Current(t) \in Contexts
  BY <1>2 DEF Steps, Current
<1> QED BY <1>2, <1>3, <1>4 DEF Ahead

\* A listener is added to a future that has no result.
LEMMA Added ==
    ASSUME TypeOK, EarlyInv, SignalInv, NEW q0 \in All, NEW l0 \in Listeners,
           q0 \notin done, ~Tells(q0, l0),
           signal' = [signal EXCEPT ![q0] = Append(@, l0)]
    PROVE  /\ signal' \in [All -> Seq(Listeners)]
           /\ \A q \in All : Once(signal'[q])
           /\ \A q \in done : signal'[q] = <<>>
           /\ \A q \in All : \A l : Tells(q, l)' <=> Tells(q, l) \/ (q = q0 /\ l = l0)
<1>1. PICK s : s = signal[q0]
  OBVIOUS
<1>2. s \in Seq(Listeners) /\ Once(s) /\ ~In(s, l0)
  BY <1>1 DEF TypeOK, EarlyInv, Tells, In
<1>3. PICK r : r = Append(s, l0)
  OBVIOUS
<1>4. r \in Seq(Listeners) /\ Once(r) /\ \A x : In(r, x) <=> In(s, x) \/ x = l0
  BY <1>2, <1>3, Appended
<1>5. signal' = [signal EXCEPT ![q0] = r]
  BY <1>1, <1>3
<1>6. /\ signal' \in [All -> Seq(Listeners)]
      /\ \A q \in All : Once(signal'[q]) /\ signal'[q] = IF q = q0 THEN r ELSE signal[q]
      /\ \A q \in All : \A l : Tells(q, l)' <=> IF q = q0 THEN In(r, l) ELSE Tells(q, l)
  BY <1>4, <1>5, Signals
<1>7. \A l : In(s, l) <=> Tells(q0, l)
  BY <1>1 DEF In, Tells
<1>8. \A q \in done : signal'[q] = <<>>
  BY <1>6 DEF SignalInv, TypeOK, All
<1> QED BY <1>4, <1>6, <1>7, <1>8

LEMMA ListenParentStep == ASSUME IInv, NEW t \in Threads, listenParent(t) PROVE IInv'
<1>0. /\ TypeOK /\ MakingInv /\ BornInv /\ EarlyInv /\ ChildInv /\ SignalInv
      /\ ReasonInv /\ DoneHasReason
  BY DEF IInv
<1>1. PICK c0, p0, l0 : c0 = Current(t) /\ p0 = Parent[c0] /\ l0 = Told(c0)
  OBVIOUS
<1>2. /\ Doing(t, "listenParent") /\ addListener(t, p0, l0)
      /\ UNCHANGED <<err, done, children, made>>
  BY <1>1 DEF listenParent, addListener, Told
<1>3. "listenParent" \in Makings /\ "listenParent" # "return" /\ "listenParent" # "setErr"
  BY DEF Makings
<1>4. PICK steps : /\ GoOnWith(t, steps)
                   /\ \/ /\ p0 \notin done /\ steps = <<>>
                         /\ signal' = [signal EXCEPT ![p0] = Append(@, l0)]
                      \/ /\ p0 \in done /\ steps = Handle(l0)
                         /\ UNCHANGED signal
  BY <1>2 DEF addListener
<1>5. c0 \in Contexts /\ ToListen(c0) /\ p0 \in All /\ l0 \in Listeners
  BY <1>0, <1>1, <1>2, CurrentIs, Names DEF ToListen
<1>6. /\ steps \in Seq(Steps) /\ Handles(steps, done')
      /\ \A c \in Contexts :
            /\ In(steps, Step("report", c)) <=> p0 \in done /\ c = c0
            /\ ~In(steps, Step("removeChild", c)) /\ ~In(steps, Step("unlisten", c))
  <2>1. CASE p0 \notin done
    BY <1>4, <2>1, NoSteps
  <2>2. CASE p0 \in done
    <3>1. steps = Handle(l0) /\ l0 \in {Told(c0), Detaches(c0)} /\ l0 # Detaches(c0)
      BY <1>1, <1>4, <1>5, <2>2, Names
    <3>2. Parent[c0] \in done'
      BY <1>1, <1>2, <2>2
    <3> QED BY <1>1, <1>5, <2>2, <3>1, <3>2, Asked
  <2> QED BY <2>1, <2>2
<1>7. /\ todo' \in [Threads -> Seq(Steps)] /\ MakingInv' /\ ReasonInv'
      /\ \A c \in Contexts : Known(Step("listenParent", c0), steps, c)
  BY <1>0, <1>1, <1>2, <1>3, <1>4, <1>6, Going
<1>8. \A c \in Contexts :
         /\ Adding(c)' <=> Adding(c)
         /\ ToListen(c)' <=> ToListen(c) /\ c # c0
         /\ ToDetach(c)' <=> ToDetach(c)
         /\ Reporting(c)' <=> Reporting(c) \/ (p0 \in done /\ c = c0)
         /\ Removing(c)' <=> Removing(c)
         /\ Unlistening(c)' <=> Unlistening(c)
         /\ Born(c)' <=> Born(c)
  BY <1>6, <1>7, StepIs DEF Known
<1>9. Born(c0) /\ c0 \notin done /\ ~Tells(p0, l0)
  BY <1>0, <1>1, <1>5, InMaking DEF EarlyInv
<1>10. /\ signal' \in [All -> Seq(Listeners)]
       /\ \A q \in All : Once(signal'[q])
       /\ \A q \in done : signal'[q] = <<>>
       /\ \A q \in All : \A l :
             Tells(q, l)' <=> Tells(q, l) \/ (p0 \notin done /\ q = p0 /\ l = l0)
  <2>1. CASE p0 \in done
    <3>1. UNCHANGED signal
      BY <1>4, <2>1
    <3> QED BY <1>0, <2>1, <3>1 DEF TypeOK, EarlyInv, SignalInv, Tells
  <2>2. CASE p0 \notin done
    BY <1>0, <1>4, <1>5, <1>9, <2>2, Added
  <2> QED BY <2>1, <2>2
<1>11. \A c \in Contexts :
          /\ \A q \in All : Tells(q, Told(c))' <=>
                Tells(q, Told(c)) \/ (p0 \notin done /\ q = p0 /\ c = c0)
          /\ \A q \in All : Tells(q, Detaches(c))' <=> Tells(q, Detaches(c))
          /\ Parent[c] \in All /\ c \in All
  BY <1>1, <1>5, <1>10, Names
<1>12. TypeOK'
  BY <1>0, <1>2, <1>7, <1>10 DEF TypeOK
<1>13. BornInv'
  <2>1. \A q \in All : children[q] \subseteq Contexts
    BY <1>0 DEF TypeOK
  <2> QED BY <1>0, <1>1, <1>2, <1>5, <1>8, <1>9, <1>11, <2>1 DEF BornInv
<1>14. EarlyInv'
  BY <1>0, <1>1, <1>2, <1>5, <1>8, <1>9, <1>10, <1>11 DEF EarlyInv
<1>15. ChildInv'
  BY <1>0, <1>1, <1>2, <1>5, <1>8, <1>9, <1>11 DEF ChildInv
<1>16. SignalInv'
  BY <1>0, <1>1, <1>2, <1>5, <1>8, <1>9, <1>10, <1>11 DEF SignalInv
<1>17. DoneHasReason'
  BY <1>0, <1>2 DEF DoneHasReason
<1> QED BY <1>7, <1>12, <1>13, <1>14, <1>15, <1>16, <1>17 DEF IInv

LEMMA ListenSelfStep == ASSUME IInv, NEW t \in Threads, listenSelf(t) PROVE IInv'
<1>0. /\ TypeOK /\ MakingInv /\ BornInv /\ EarlyInv /\ ChildInv /\ SignalInv
      /\ ReasonInv /\ DoneHasReason
  BY DEF IInv
<1>1. PICK c0, l0 : c0 = Current(t) /\ l0 = Detaches(c0)
  OBVIOUS
<1>2. /\ Doing(t, "listenSelf") /\ addListener(t, c0, l0)
      /\ UNCHANGED <<err, done, children, made>>
  BY <1>1 DEF listenSelf, addListener, Detaches
<1>3. "listenSelf" \in Makings /\ "listenSelf" # "return" /\ "listenSelf" # "setErr"
  BY DEF Makings
<1>4. PICK steps : /\ GoOnWith(t, steps)
                   /\ \/ /\ c0 \notin done /\ steps = <<>>
                         /\ signal' = [signal EXCEPT ![c0] = Append(@, l0)]
                      \/ /\ c0 \in done /\ steps = Handle(l0)
                         /\ UNCHANGED signal
  BY <1>2 DEF addListener
<1>5. c0 \in Contexts /\ ToDetach(c0) /\ c0 \in All /\ l0 \in Listeners
  BY <1>0, <1>1, <1>2, CurrentIs, Names DEF ToDetach
<1>6. /\ steps \in Seq(Steps) /\ Handles(steps, done')
      /\ \A c \in Contexts :
            /\ ~In(steps, Step("report", c))
            /\ In(steps, Step("removeChild", c)) <=> c0 \in done /\ c = c0
            /\ In(steps, Step("unlisten", c)) <=> c0 \in done /\ c = c0
  <2>1. CASE c0 \notin done
    BY <1>4, <2>1, NoSteps
  <2>2. CASE c0 \in done
    <3>1. steps = Handle(l0) /\ l0 \in {Told(c0), Detaches(c0)} /\ l0 # Told(c0)
      BY <1>1, <1>4, <1>5, <2>2, Names
    <3> QED BY <1>1, <1>5, <2>2, <3>1, Asked
  <2> QED BY <2>1, <2>2
<1>7. /\ todo' \in [Threads -> Seq(Steps)] /\ MakingInv' /\ ReasonInv'
      /\ \A c \in Contexts : Known(Step("listenSelf", c0), steps, c)
  BY <1>0, <1>1, <1>2, <1>3, <1>4, <1>6, Going
<1>8. \A c \in Contexts :
         /\ Adding(c)' <=> Adding(c)
         /\ ToListen(c)' <=> ToListen(c)
         /\ ToDetach(c)' <=> ToDetach(c) /\ c # c0
         /\ Reporting(c)' <=> Reporting(c)
         /\ Removing(c)' <=> Removing(c) \/ (c0 \in done /\ c = c0)
         /\ Unlistening(c)' <=> Unlistening(c) \/ (c0 \in done /\ c = c0)
         /\ Born(c)' <=> Born(c)
  BY <1>6, <1>7, StepIs DEF Known
<1>9. Born(c0) /\ ~Tells(c0, l0)
  BY <1>0, <1>1, <1>5, InMaking DEF EarlyInv
<1>10. /\ signal' \in [All -> Seq(Listeners)]
       /\ \A q \in All : Once(signal'[q])
       /\ \A q \in done : signal'[q] = <<>>
       /\ \A q \in All : \A l :
             Tells(q, l)' <=> Tells(q, l) \/ (c0 \notin done /\ q = c0 /\ l = l0)
  <2>1. CASE c0 \in done
    <3>1. UNCHANGED signal
      BY <1>4, <2>1
    <3> QED BY <1>0, <2>1, <3>1 DEF TypeOK, EarlyInv, SignalInv, Tells
  <2>2. CASE c0 \notin done
    BY <1>0, <1>4, <1>5, <1>9, <2>2, Added
  <2> QED BY <2>1, <2>2
<1>11. \A c \in Contexts :
          /\ \A q \in All : Tells(q, Told(c))' <=> Tells(q, Told(c))
          /\ \A q \in All : Tells(q, Detaches(c))' <=>
                Tells(q, Detaches(c)) \/ (c0 \notin done /\ q = c0 /\ c = c0)
          /\ Parent[c] \in All /\ c \in All
  BY <1>1, <1>5, <1>10, Names
<1>12. TypeOK'
  BY <1>0, <1>2, <1>7, <1>10 DEF TypeOK
<1>13. BornInv'
  <2>1. \A q \in All : children[q] \subseteq Contexts
    BY <1>0 DEF TypeOK
  <2> QED BY <1>0, <1>2, <1>5, <1>8, <1>9, <1>11, <2>1 DEF BornInv
<1>14. EarlyInv'
  BY <1>0, <1>2, <1>5, <1>8, <1>9, <1>10, <1>11 DEF EarlyInv
<1>15. ChildInv'
  BY <1>0, <1>2, <1>5, <1>8, <1>9, <1>11 DEF ChildInv
<1>16. SignalInv'
  BY <1>0, <1>2, <1>5, <1>8, <1>9, <1>10, <1>11 DEF SignalInv
<1>17. DoneHasReason'
  BY <1>0, <1>2 DEF DoneHasReason
<1> QED BY <1>7, <1>12, <1>13, <1>14, <1>15, <1>16, <1>17 DEF IInv

LEMMA ReturnStep == ASSUME IInv, NEW t \in Threads, Return(t) PROVE IInv'
<1>0. /\ TypeOK /\ MakingInv /\ BornInv /\ EarlyInv /\ ChildInv /\ SignalInv
      /\ ReasonInv /\ DoneHasReason
  BY DEF IInv
<1>1. PICK c0 : c0 = Current(t)
  OBVIOUS
<1>2. /\ Doing(t, "return") /\ GoOnWith(t, <<>>) /\ made' = made \cup {c0}
      /\ UNCHANGED <<err, done, signal, children>>
  BY <1>1 DEF Return
<1>3. c0 \in Contexts
  BY <1>0, <1>1, <1>2, CurrentIs
<1>4. /\ todo' \in [Threads -> Seq(Steps)] /\ MakingInv' /\ ReasonInv'
      /\ \A c \in Contexts : Known(Step("return", c0), <<>>, c)
  <2>1. "return" \in Makings \cup Handlings /\ "return" # "setErr"
    BY DEF Makings
  <2>2. /\ made' = IF "return" = "return" THEN made \cup {c0} ELSE made
        /\ done \subseteq done' /\ err \subseteq err'
        /\ "return" = "setErr" => c0 \in err'
    BY <1>2, <2>1
  <2> QED BY <1>0, <1>1, <1>2, <2>1, <2>2, NoSteps, Going
<1>5. \A c \in Contexts :
         /\ Adding(c)' <=> Adding(c)
         /\ ToListen(c)' <=> ToListen(c)
         /\ ToDetach(c)' <=> ToDetach(c)
         /\ Reporting(c)' <=> Reporting(c)
         /\ Removing(c)' <=> Removing(c)
         /\ Unlistening(c)' <=> Unlistening(c)
         /\ Born(c)' <=> Born(c)
  BY <1>4, NoSteps, StepIs DEF Known
<1>6. \A q \in All : \A l : Tells(q, l)' <=> Tells(q, l)
  BY <1>2 DEF Tells
<1>7. TypeOK'
  BY <1>0, <1>2, <1>3, <1>4 DEF TypeOK, All
<1>8. BornInv'
  <2>1. \A q \in All : children[q] \subseteq Contexts
    BY <1>0 DEF TypeOK
  <2> QED BY <1>0, <1>2, <1>5, <1>6, <2>1 DEF BornInv
<1>9. EarlyInv'
  BY <1>0, <1>2, <1>5, <1>6, TreeAssumption DEF EarlyInv, All
<1>10. ChildInv'
  BY <1>0, <1>2, <1>5, <1>6, TreeAssumption DEF ChildInv, All
<1>11. SignalInv'
  BY <1>0, <1>2, <1>5, <1>6, TreeAssumption DEF SignalInv, All
<1>12. DoneHasReason'
  BY <1>0, <1>2 DEF DoneHasReason
<1> QED BY <1>4, <1>7, <1>8, <1>9, <1>10, <1>11, <1>12 DEF IInv

LEMMA SetErrStep == ASSUME IInv, NEW t \in Threads, setErr(t) PROVE IInv'
<1>0. /\ TypeOK /\ MakingInv /\ BornInv /\ EarlyInv /\ ChildInv /\ SignalInv
      /\ ReasonInv /\ DoneHasReason
  BY DEF IInv
<1>1. PICK c0 : c0 = Current(t)
  OBVIOUS
<1>2. /\ Doing(t, "setErr") /\ GoOnWith(t, <<>>) /\ err' = err \cup {c0}
      /\ UNCHANGED <<done, signal, children, made>>
  BY <1>1 DEF setErr
<1>3. c0 \in Contexts
  BY <1>0, <1>1, <1>2, CurrentIs
<1>4. /\ todo' \in [Threads -> Seq(Steps)] /\ MakingInv' /\ ReasonInv'
      /\ \A c \in Contexts : Known(Step("setErr", c0), <<>>, c)
  <2>1. "setErr" \in Makings \cup Handlings /\ "return" # "setErr"
    BY DEF Handlings
  <2>2. /\ made' = IF "setErr" = "return" THEN made \cup {c0} ELSE made
        /\ done \subseteq done' /\ err \subseteq err'
        /\ "setErr" = "setErr" => c0 \in err'
    BY <1>2, <2>1
  <2> QED BY <1>0, <1>1, <1>2, <2>1, <2>2, NoSteps, Going
<1>5. \A c \in Contexts :
         /\ Adding(c)' <=> Adding(c)
         /\ ToListen(c)' <=> ToListen(c)
         /\ ToDetach(c)' <=> ToDetach(c)
         /\ Reporting(c)' <=> Reporting(c)
         /\ Removing(c)' <=> Removing(c)
         /\ Unlistening(c)' <=> Unlistening(c)
         /\ Born(c)' <=> Born(c)
  BY <1>4, NoSteps, StepIs DEF Known
<1>6. \A q \in All : \A l : Tells(q, l)' <=> Tells(q, l)
  BY <1>2 DEF Tells
<1>7. TypeOK'
  BY <1>0, <1>2, <1>3, <1>4 DEF TypeOK
<1>8. BornInv'
  <2>1. \A q \in All : children[q] \subseteq Contexts
    BY <1>0 DEF TypeOK
  <2> QED BY <1>0, <1>2, <1>5, <1>6, <2>1 DEF BornInv
<1>9. EarlyInv'
  BY <1>0, <1>2, <1>5, <1>6, TreeAssumption DEF EarlyInv, All
<1>10. ChildInv'
  BY <1>0, <1>2, <1>5, <1>6, TreeAssumption DEF ChildInv, All
<1>11. SignalInv'
  BY <1>0, <1>2, <1>5, <1>6, TreeAssumption DEF SignalInv, All
<1>12. DoneHasReason'
  BY <1>0, <1>2 DEF DoneHasReason
<1> QED BY <1>4, <1>7, <1>8, <1>9, <1>10, <1>11, <1>12 DEF IInv

LEMMA RemoveChildStep == ASSUME IInv, NEW t \in Threads, removeChild(t) PROVE IInv'
<1>0. /\ TypeOK /\ MakingInv /\ BornInv /\ EarlyInv /\ ChildInv /\ SignalInv
      /\ ReasonInv /\ DoneHasReason
  BY DEF IInv
<1>1. PICK c0 : c0 = Current(t)
  OBVIOUS
<1>2. /\ Doing(t, "removeChild") /\ GoOnWith(t, <<>>)
      /\ children' = [children EXCEPT ![Parent[c0]] = @ \ {c0}]
      /\ UNCHANGED <<err, done, signal, made>>
  BY <1>1 DEF removeChild
<1>3. c0 \in Contexts /\ Removing(c0)
  BY <1>0, <1>1, <1>2, CurrentIs DEF Removing
<1>4. /\ todo' \in [Threads -> Seq(Steps)] /\ MakingInv' /\ ReasonInv'
      /\ \A c \in Contexts : Known(Step("removeChild", c0), <<>>, c)
  <2>1. /\ "removeChild" \in Handlings /\ "removeChild" # "return"
        /\ "removeChild" # "setErr"
    BY DEF Handlings
  <2> QED BY <1>0, <1>1, <1>2, <2>1, NoSteps, Going
<1>5. \A c \in Contexts :
         /\ Adding(c)' <=> Adding(c)
         /\ ToListen(c)' <=> ToListen(c)
         /\ ToDetach(c)' <=> ToDetach(c)
         /\ Reporting(c)' <=> Reporting(c)
         /\ Removing(c)' => Removing(c)
         /\ Removing(c) /\ c # c0 => Removing(c)'
         /\ Unlistening(c)' <=> Unlistening(c)
         /\ Born(c)' <=> Born(c)
  BY <1>4, NoSteps, StepIs DEF Known
<1>6. \A q \in All : \A l : Tells(q, l)' <=> Tells(q, l)
  BY <1>2 DEF Tells
<1>7. /\ Parent[c0] \in All /\ children' \in [All -> SUBSET Contexts]
      /\ \A q \in All : children'[q] = IF q = Parent[c0] THEN children[q] \ {c0} ELSE children[q]
  <2>1. Parent[c0] \in All
    BY <1>3, TreeAssumption DEF All
  <2> QED BY <1>0, <1>2, <1>3, <2>1 DEF TypeOK
<1>8. TypeOK' /\ c0 \in done
  BY <1>0, <1>2, <1>3, <1>4, <1>7 DEF TypeOK, ChildInv
<1>9. BornInv'
  <2>1. \A q \in All : children[q] \subseteq Contexts
    BY <1>0 DEF TypeOK
  <2> QED BY <1>0, <1>2, <1>5, <1>6, <1>7, <2>1 DEF BornInv
<1>10. EarlyInv'
  BY <1>0, <1>2, <1>5, <1>6, TreeAssumption DEF EarlyInv, All
<1>11. ChildInv'
  BY <1>0, <1>2, <1>5, <1>6, <1>7, <1>8, TreeAssumption DEF ChildInv, All
<1>12. SignalInv'
  BY <1>0, <1>2, <1>5, <1>6, TreeAssumption DEF SignalInv, All
<1>13. DoneHasReason'
  BY <1>0, <1>2 DEF DoneHasReason
<1> QED BY <1>4, <1>8, <1>9, <1>10, <1>11, <1>12, <1>13 DEF IInv

LEMMA RemoveListenerStep == ASSUME IInv, NEW t \in Threads, removeListener(t) PROVE IInv'
<1>0. /\ TypeOK /\ MakingInv /\ BornInv /\ EarlyInv /\ ChildInv /\ SignalInv
      /\ ReasonInv /\ DoneHasReason
  BY DEF IInv
<1>1. PICK c0, p0, l0 : c0 = Current(t) /\ p0 = Parent[c0] /\ l0 = Told(c0)
  OBVIOUS
<1>2. /\ Doing(t, "unlisten") /\ GoOnWith(t, <<>>)
      /\ signal' = [signal EXCEPT ![p0] = RemoveFirst(@, l0)]
      /\ UNCHANGED <<err, done, children, made>>
  BY <1>1 DEF removeListener, Told
<1>3. c0 \in Contexts /\ Unlistening(c0) /\ p0 \in All
  BY <1>0, <1>1, <1>2, CurrentIs, Names DEF Unlistening
<1>4. /\ todo' \in [Threads -> Seq(Steps)] /\ MakingInv' /\ ReasonInv'
      /\ \A c \in Contexts : Known(Step("unlisten", c0), <<>>, c)
  <2>1. "unlisten" \in Handlings /\ "unlisten" # "return" /\ "unlisten" # "setErr"
    BY DEF Handlings
  <2> QED BY <1>0, <1>1, <1>2, <2>1, NoSteps, Going
<1>5. \A c \in Contexts :
         /\ Adding(c)' <=> Adding(c)
         /\ ToListen(c)' <=> ToListen(c)
         /\ ToDetach(c)' <=> ToDetach(c)
         /\ Reporting(c)' <=> Reporting(c)
         /\ Removing(c)' <=> Removing(c)
         /\ Unlistening(c)' => Unlistening(c)
         /\ Unlistening(c) /\ c # c0 => Unlistening(c)'
         /\ Born(c)' <=> Born(c)
  BY <1>4, NoSteps, StepIs DEF Known
<1>6. /\ signal' \in [All -> Seq(Listeners)]
      /\ \A q \in All : Once(signal'[q])
      /\ \A q \in done : signal'[q] = <<>>
      /\ \A q \in All : \A l : Tells(q, l)' <=> Tells(q, l) /\ ~(q = p0 /\ l = l0)
  <2>1. PICK s, r : s = signal[p0] /\ r = RemoveFirst(s, l0)
    OBVIOUS
  <2>2. s \in Seq(Listeners) /\ Once(s)
    BY <1>0, <1>3, <2>1 DEF TypeOK, EarlyInv
  <2>3. /\ r \in Seq(Listeners) /\ Once(r)
        /\ \A x : In(r, x) <=> In(s, x) /\ x # l0
    BY <2>1, <2>2, Dropped
  <2>4. signal' = [signal EXCEPT ![p0] = r]
    BY <1>2, <2>1
  <2>5. /\ signal' \in [All -> Seq(Listeners)]
        /\ \A q \in All : Once(signal'[q]) /\ signal'[q] = IF q = p0 THEN r ELSE signal[q]
        /\ \A q \in All : \A l : Tells(q, l)' <=> IF q = p0 THEN In(r, l) ELSE Tells(q, l)
    BY <1>0, <1>3, <2>3, <2>4, Signals
  <2>6. \A l : In(s, l) <=> Tells(p0, l)
    BY <2>1 DEF In, Tells
  <2>7. \A q \in done : signal'[q] = <<>>
    <3>1. s = <<>> => r = <<>>
      BY <2>1 DEF RemoveFirst
    <3> QED BY <1>0, <2>1, <2>5, <3>1 DEF SignalInv, TypeOK, All
  <2> QED BY <2>3, <2>5, <2>6, <2>7
<1>7. \A c \in Contexts :
         /\ \A q \in All : Tells(q, Told(c))' <=> Tells(q, Told(c)) /\ ~(q = p0 /\ c = c0)
         /\ \A q \in All : Tells(q, Detaches(c))' <=> Tells(q, Detaches(c))
         /\ Parent[c] \in All /\ c \in All
  BY <1>1, <1>3, <1>6, Names
<1>8. TypeOK' /\ c0 \in done
  BY <1>0, <1>2, <1>3, <1>4, <1>6 DEF TypeOK, ChildInv
<1>9. BornInv'
  <2>1. \A q \in All : children[q] \subseteq Contexts
    BY <1>0 DEF TypeOK
  <2> QED BY <1>0, <1>2, <1>5, <1>7, <2>1 DEF BornInv
<1>10. EarlyInv'
  BY <1>0, <1>2, <1>5, <1>6, <1>7 DEF EarlyInv
<1>11. ChildInv'
  BY <1>0, <1>2, <1>5, <1>7 DEF ChildInv
<1>12. SignalInv'
  BY <1>0, <1>1, <1>2, <1>5, <1>6, <1>7, <1>8 DEF SignalInv
<1>13. DoneHasReason'
  BY <1>0, <1>2 DEF DoneHasReason
<1> QED BY <1>4, <1>8, <1>9, <1>10, <1>11, <1>12, <1>13 DEF IInv

\* The first report of a context.
LEMMA ReportStep ==
    ASSUME IInv, NEW t \in Threads, report(t), Current(t) \notin done
    PROVE  IInv'
<1>0. /\ TypeOK /\ MakingInv /\ BornInv /\ EarlyInv /\ ChildInv /\ SignalInv
      /\ ReasonInv /\ DoneHasReason
  BY DEF IInv
<1>1. PICK c0, s0, steps : c0 = Current(t) /\ s0 = signal[c0] /\ steps = HandleAll(s0)
  OBVIOUS
<1>2. /\ Doing(t, "report") /\ c0 \notin done /\ done' = done \cup {c0}
      /\ signal' = [signal EXCEPT ![c0] = <<>>]
      /\ GoOnWith(t, steps)
      /\ UNCHANGED <<err, children, made>>
  BY <1>1 DEF report
<1>3. c0 \in Contexts /\ Reporting(c0) /\ c0 \in All
  BY <1>0, <1>1, <1>2, CurrentIs, Names DEF Reporting
<1>4. /\ s0 \in Seq(Listeners)
      /\ \A l : In(s0, l) <=> Tells(c0, l)
  BY <1>0, <1>1, <1>3 DEF TypeOK, In, Tells
<1>5. \A i \in 1..Len(s0) : s0[i].role = "fromParent" => Parent[s0[i].context] \in done'
  <2> SUFFICES ASSUME NEW i \in 1..Len(s0), s0[i].role = "fromParent"
               PROVE  Parent[s0[i].context] \in done'
    OBVIOUS
  <2>1. PICK l, c : l = s0[i] /\ c = l.context
    OBVIOUS
  <2>2. l \in Listeners
    BY <1>4, <2>1
  <2>3. l = Told(c) /\ c \in Contexts
    BY <2>1, <2>2, StepIs DEF Told, Listeners
  <2>4. Tells(c0, Told(c))
    BY <1>4, <2>1, <2>3 DEF In
  <2>5. c0 = Parent[c]
    BY <1>0, <1>3, <2>3, <2>4 DEF BornInv
  <2> QED BY <1>2, <2>1, <2>5
<1>6. /\ steps \in Seq(Steps) /\ Handles(steps, done')
      /\ \A c \in Contexts :
            /\ In(steps, Step("report", c)) <=> Tells(c0, Told(c))
            /\ In(steps, Step("removeChild", c)) <=> Tells(c0, Detaches(c))
            /\ In(steps, Step("unlisten", c)) <=> Tells(c0, Detaches(c))
  BY <1>1, <1>4, <1>5, AllHandled
<1>7. /\ todo' \in [Threads -> Seq(Steps)] /\ MakingInv' /\ ReasonInv'
      /\ \A c \in Contexts : Known(Step("report", c0), steps, c)
  <2>1. "report" \in Makings \cup Handlings /\ "report" # "return" /\ "report" # "setErr"
    BY DEF Handlings
  <2> QED BY <1>0, <1>1, <1>2, <1>6, <2>1, Going
<1>8. \A c \in Contexts :
         /\ Adding(c)' <=> Adding(c)
         /\ ToListen(c)' <=> ToListen(c)
         /\ ToDetach(c)' <=> ToDetach(c)
         /\ Reporting(c)' => Reporting(c) \/ Tells(c0, Told(c))
         /\ Reporting(c) /\ c # c0 => Reporting(c)'
         /\ Tells(c0, Told(c)) => Reporting(c)'
         /\ Removing(c)' <=> Removing(c) \/ Tells(c0, Detaches(c))
         /\ Unlistening(c)' <=> Unlistening(c) \/ Tells(c0, Detaches(c))
         /\ Born(c)' <=> Born(c)
  BY <1>6, <1>7, StepIs DEF Known
<1>9. /\ signal' \in [All -> Seq(Listeners)]
      /\ \A q \in All : Once(signal'[q])
      /\ \A q \in done' : signal'[q] = <<>>
      /\ \A q \in All : \A l : Tells(q, l)' <=> Tells(q, l) /\ q # c0
  <2>1. <<>> \in Seq(Listeners) /\ Once(<<>>) /\ \A l : ~In(<<>>, l)
    BY DEF Once, In
  <2>2. /\ signal' \in [All -> Seq(Listeners)]
        /\ \A q \in All : /\ Once(signal'[q])
                          /\ signal'[q] = IF q = c0 THEN <<>> ELSE signal[q]
        /\ \A q \in All : \A l : Tells(q, l)' <=> IF q = c0 THEN In(<<>>, l) ELSE Tells(q, l)
    BY <1>0, <1>2, <1>3, <2>1, Signals
  <2>3. \A q \in done' : signal'[q] = <<>>
    BY <1>0, <1>2, <1>3, <2>2 DEF SignalInv, TypeOK, All
  <2> QED BY <2>1, <2>2, <2>3
<1>10. \A c \in Contexts :
          /\ Tells(c0, Told(c)) => c0 = Parent[c] /\ Born(c)
          /\ Tells(c0, Detaches(c)) => c0 = c
          /\ Parent[c] \in All /\ c \in All
  BY <1>0, <1>3, Names DEF BornInv
<1>11. TypeOK'
  BY <1>0, <1>2, <1>3, <1>7, <1>9 DEF TypeOK
<1>12. BornInv'
  <2>1. \A q \in All : children[q] \subseteq Contexts
    BY <1>0 DEF TypeOK
  <2> QED BY <1>0, <1>2, <1>3, <1>8, <1>9, <1>10, <2>1 DEF BornInv
<1>13. EarlyInv'
  BY <1>0, <1>2, <1>3, <1>8, <1>9, <1>10 DEF EarlyInv
<1>14. ChildInv'
  BY <1>0, <1>2, <1>3, <1>8, <1>9, <1>10 DEF ChildInv, BornInv
<1>15. SignalInv'
  BY <1>0, <1>2, <1>3, <1>8, <1>9, <1>10 DEF SignalInv, ChildInv, BornInv
<1>16. DoneHasReason'
  <2>1. c0 \notin Cancelable => c0 \in err /\ Parent[c0] \in done
    <3>1. todo[t] \in Seq(Steps) /\ todo[t] # <<>>
      BY <1>0, <1>2 DEF TypeOK, Doing, Idle
    <3>2. /\ 1 \in 1..Len(todo[t]) /\ todo[t][1].do = "report" /\ todo[t][1].context = c0
      BY <1>1, <1>2, <3>1, HeadTailProperties, EmptySeq DEF Doing, Current
    <3> QED BY <1>0, <3>2 DEF ReasonInv
  <2> QED BY <1>0, <1>2, <2>1 DEF DoneHasReason
<1> QED BY <1>7, <1>11, <1>12, <1>13, <1>14, <1>15, <1>16 DEF IInv

LEMMA ReportAgainStep ==
    ASSUME IInv, NEW t \in Threads, report(t), Current(t) \in done
    PROVE  IInv'
<1>0. /\ TypeOK /\ MakingInv /\ BornInv /\ EarlyInv /\ ChildInv /\ SignalInv
      /\ ReasonInv /\ DoneHasReason
  BY DEF IInv
<1>1. PICK c0 : c0 = Current(t)
  OBVIOUS
<1>2. /\ Doing(t, "report") /\ c0 \in done /\ GoOnWith(t, <<>>)
      /\ UNCHANGED <<err, done, signal, children, made>>
  BY <1>1 DEF report
<1>4. /\ todo' \in [Threads -> Seq(Steps)] /\ MakingInv' /\ ReasonInv'
      /\ \A c \in Contexts : Known(Step("report", c0), <<>>, c)
  <2>1. "report" \in Makings \cup Handlings /\ "report" # "return" /\ "report" # "setErr"
    BY DEF Handlings
  <2> QED BY <1>0, <1>1, <1>2, <2>1, NoSteps, Going
<1>5. \A c \in Contexts :
         /\ Adding(c)' <=> Adding(c)
         /\ ToListen(c)' <=> ToListen(c)
         /\ ToDetach(c)' <=> ToDetach(c)
         /\ Reporting(c)' => Reporting(c)
         /\ Reporting(c) /\ c # c0 => Reporting(c)'
         /\ Removing(c)' <=> Removing(c)
         /\ Unlistening(c)' <=> Unlistening(c)
         /\ Born(c)' <=> Born(c)
  BY <1>4, NoSteps, StepIs DEF Known
<1>6. \A q \in All : \A l : Tells(q, l)' <=> Tells(q, l)
  BY <1>2 DEF Tells
<1>7. TypeOK'
  BY <1>0, <1>2, <1>4 DEF TypeOK
<1>8. BornInv'
  <2>1. \A q \in All : children[q] \subseteq Contexts
    BY <1>0 DEF TypeOK
  <2> QED BY <1>0, <1>2, <1>5, <1>6, <2>1 DEF BornInv
<1>9. EarlyInv'
  BY <1>0, <1>2, <1>5, <1>6, TreeAssumption DEF EarlyInv, All
<1>10. ChildInv'
  BY <1>0, <1>2, <1>5, <1>6, TreeAssumption DEF ChildInv, All
<1>11. SignalInv'
  BY <1>0, <1>2, <1>5, <1>6, TreeAssumption DEF SignalInv, All
<1>12. DoneHasReason'
  BY <1>0, <1>2 DEF DoneHasReason
<1> QED BY <1>4, <1>7, <1>8, <1>9, <1>10, <1>11, <1>12 DEF IInv

------------------------------------------------------------------------------
\* A thread that is not in a call starts one.
LEMMA Begins ==
    ASSUME TypeOK, NEW t \in Threads, Idle(t), NEW steps \in Seq(Steps),
           todo' = [todo EXCEPT ![t] = steps]
    PROVE  /\ todo' \in [Threads -> Seq(Steps)] /\ todo'[t] = steps
           /\ \A u \in Threads : u # t => todo'[u] = todo[u]
           /\ \A x : Ahead(x)' <=> Ahead(x) \/ In(steps, x)
<1>1. /\ todo' \in [Threads -> Seq(Steps)] /\ todo'[t] = steps
      /\ \A u \in Threads : u # t => todo'[u] = todo[u]
  BY DEF TypeOK
<1>2. todo[t] = <<>> /\ Len(todo[t]) = 0
  BY DEF Idle
<1>3. ASSUME NEW x PROVE Ahead(x)' <=> Ahead(x) \/ In(steps, x)
  <2>1. Ahead(x) => Ahead(x)'
    <3>1. \A u \in Threads : \A i \in 1..Len(todo[u]) : u # t
      BY <1>2
    <3> QED BY <1>1, <3>1 DEF Ahead
  <2>2. In(steps, x) => Ahead(x)'
    BY <1>1 DEF In, Ahead
  <2>3. Ahead(x)' => Ahead(x) \/ In(steps, x)
    BY <1>1 DEF In, Ahead
  <2> QED BY <2>1, <2>2, <2>3
<1> QED BY <1>1, <1>3

LEMMA CancelStep == ASSUME IInv, NEW t \in Threads, NEW c0 \in Contexts, cancel(t, c0) PROVE IInv'
<1>0. /\ TypeOK /\ MakingInv /\ BornInv /\ EarlyInv /\ ChildInv /\ SignalInv
      /\ ReasonInv /\ DoneHasReason
  BY DEF IInv
<1>1. PICK steps : steps = <<Step("report", c0)>>
  OBVIOUS
<1>2. /\ Idle(t) /\ c0 \in made /\ c0 \in Cancelable
      /\ todo' = [todo EXCEPT ![t] = steps]
      /\ UNCHANGED <<err, done, signal, children, made>>
  BY <1>1 DEF cancel
<1>3. /\ Len(steps) = 1 /\ steps[1] = Step("report", c0) /\ steps \in Seq(Steps)
      /\ \A x : In(steps, x) <=> x = Step("report", c0)
  BY <1>1, StepIs DEF In, Handlings
<1>4. /\ todo' \in [Threads -> Seq(Steps)] /\ todo'[t] = steps
      /\ \A u \in Threads : u # t => todo'[u] = todo[u]
      /\ \A x : Ahead(x)' <=> Ahead(x) \/ x = Step("report", c0)
  BY <1>0, <1>2, <1>3, Begins
<1>5. \A c \in Contexts :
         /\ Adding(c)' <=> Adding(c)
         /\ ToListen(c)' <=> ToListen(c)
         /\ ToDetach(c)' <=> ToDetach(c)
         /\ Reporting(c)' <=> Reporting(c) \/ c = c0
         /\ Removing(c)' <=> Removing(c)
         /\ Unlistening(c)' <=> Unlistening(c)
         /\ Born(c)' <=> Born(c)
  BY <1>2, <1>4, StepIs DEF Adding, ToListen, ToDetach, Reporting, Removing, Unlistening, Born
<1>6. \A q \in All : \A l : Tells(q, l)' <=> Tells(q, l)
  BY <1>2 DEF Tells
<1>7. TypeOK' /\ Born(c0) /\ ~ToListen(c0)
  BY <1>0, <1>2, <1>4, InMaking DEF TypeOK, Born
<1>8. MakingInv'
  <2>1. \A i \in 1..Len(todo'[t]) : todo'[t][i].do = "report"
    <3>1. \A i \in 1..1 : i = 1
      OBVIOUS
    <3>2. Len(todo'[t]) = 1 /\ todo'[t][1] = Step("report", c0)
      BY <1>3, <1>4
    <3> QED BY <3>1, <3>2, StepIs
  <2>2. ASSUME NEW u \in Threads, NEW i \in 1..Len(todo'[u])
        PROVE  /\ InOrder(todo'[u], i)
               /\ todo'[u][i].do = "return" => todo'[u][i].context \notin made'
    BY <1>0, <1>2, <1>4, <2>1 DEF MakingInv, InOrder
  <2>3. ASSUME NEW u \in Threads, NEW v \in Threads,
               NEW i \in 1..Len(todo'[u]), NEW j \in 1..Len(todo'[v]),
               todo'[u][i] = todo'[v][j], todo'[u][i].do = "return"
        PROVE  u = v
    BY <1>0, <1>4, <2>1, <2>3 DEF MakingInv
  <2> QED BY <2>2, <2>3 DEF MakingInv
<1>9. ReasonInv'
  <2>1. \A i \in 1..Len(todo'[t]) : todo'[t][i] = Step("report", c0)
    <3>1. \A i \in 1..1 : i = 1
      OBVIOUS
    <3>2. Len(todo'[t]) = 1 /\ todo'[t][1] = Step("report", c0)
      BY <1>3, <1>4
    <3> QED BY <3>1, <3>2
  <2> QED BY <1>0, <1>2, <1>4, <2>1, StepIs DEF ReasonInv
<1>10. BornInv'
  <2>1. \A q \in All : children[q] \subseteq Contexts
    BY <1>0 DEF TypeOK
  <2> QED BY <1>0, <1>2, <1>5, <1>6, <1>7, <2>1 DEF BornInv
<1>11. EarlyInv'
  BY <1>0, <1>2, <1>5, <1>6, <1>7, TreeAssumption DEF EarlyInv, All
<1>12. ChildInv'
  BY <1>0, <1>2, <1>5, <1>6, TreeAssumption DEF ChildInv, All
<1>13. SignalInv'
  BY <1>0, <1>2, <1>5, <1>6, TreeAssumption DEF SignalInv, All
<1>14. DoneHasReason'
  BY <1>0, <1>2 DEF DoneHasReason
<1> QED BY <1>7, <1>8, <1>9, <1>10, <1>11, <1>12, <1>13, <1>14 DEF IInv

LEMMA SetParentStep ==
    ASSUME IInv, NEW t \in Threads, NEW c0 \in Contexts, setParent(t, c0)
    PROVE  IInv'
<1>0. /\ TypeOK /\ MakingInv /\ BornInv /\ EarlyInv /\ ChildInv /\ SignalInv
      /\ ReasonInv /\ DoneHasReason
  BY DEF IInv
<1>1. PICK steps : steps = <<Step("addChild", c0), Step("listenParent", c0),
                             Step("listenSelf", c0), Step("return", c0)>>
  OBVIOUS
<1>2. /\ Idle(t) /\ c0 \notin made /\ ~Making(c0) /\ Parent[c0] \in made
      /\ todo' = [todo EXCEPT ![t] = steps]
      /\ UNCHANGED <<err, done, signal, children, made>>
  BY <1>1 DEF setParent
<1>3. /\ Len(steps) = 4
      /\ steps[1] = Step("addChild", c0) /\ steps[2] = Step("listenParent", c0)
      /\ steps[3] = Step("listenSelf", c0) /\ steps[4] = Step("return", c0)
  BY <1>1
<1>4. steps \in Seq(Steps)
  BY <1>1, StepIs DEF Makings
<1>5. \A x : In(steps, x) <=> \E do \in Makings : x = Step(do, c0)
  <2>1. \A i \in 1..4 : i = 1 \/ i = 2 \/ i = 3 \/ i = 4
    OBVIOUS
  <2> QED BY <1>3, <2>1 DEF In, Makings
<1>6. /\ todo' \in [Threads -> Seq(Steps)] /\ todo'[t] = steps
      /\ \A u \in Threads : u # t => todo'[u] = todo[u]
      /\ \A x : Ahead(x)' <=> Ahead(x) \/ \E do \in Makings : x = Step(do, c0)
  BY <1>0, <1>2, <1>4, <1>5, Begins
<1>7. ~Born(c0)
  <2>1. ASSUME NEW u \in Threads, NEW i \in 1..Len(todo[u]), todo[u][i] = Step("return", c0)
        PROVE  FALSE
    <3>1. todo[u] \in Seq(Steps) /\ i \in DOMAIN todo[u]
      BY <1>0 DEF TypeOK
    <3> QED BY <1>2, <2>1, <3>1 DEF Making, ToSet
  <2> QED BY <1>2, <2>1 DEF Born, Ahead
<1>8. \A c \in Contexts :
         /\ Adding(c)' <=> Adding(c) \/ c = c0
         /\ ToListen(c)' <=> ToListen(c) \/ c = c0
         /\ ToDetach(c)' <=> ToDetach(c) \/ c = c0
         /\ Reporting(c)' <=> Reporting(c)
         /\ Removing(c)' <=> Removing(c)
         /\ Unlistening(c)' <=> Unlistening(c)
         /\ Born(c)' <=> Born(c) \/ c = c0
  BY <1>2, <1>6, StepIs
     DEF Adding, ToListen, ToDetach, Reporting, Removing, Unlistening, Born, Makings
<1>9. \A q \in All : \A l : Tells(q, l)' <=> Tells(q, l)
  BY <1>2 DEF Tells
<1>10. TypeOK'
  BY <1>0, <1>2, <1>6 DEF TypeOK
<1>11. MakingInv'
  <2>1. \A i \in 1..4 : i = 1 \/ i = 2 \/ i = 3 \/ i = 4
    OBVIOUS
  <2>2. /\ \A i \in 1..Len(steps) : InOrder(steps, i) /\ steps[i].context = c0
        /\ \A i \in 1..Len(steps) : steps[i].do = "return" => steps[i] = Step("return", c0)
    BY <1>3, <2>1, StepIs DEF InOrder, Followed
  <2>3. ASSUME NEW u \in Threads, NEW i \in 1..Len(todo'[u])
        PROVE  /\ InOrder(todo'[u], i)
               /\ todo'[u][i].do = "return" => todo'[u][i].context \notin made'
    BY <1>0, <1>2, <1>6, <2>2 DEF MakingInv
  <2>4. \A u \in Threads : \A i \in 1..Len(todo[u]) : todo[u][i] # Step("return", c0)
    BY <1>7 DEF Born, Ahead
  <2>5. ASSUME NEW u \in Threads, NEW v \in Threads,
               NEW i \in 1..Len(todo'[u]), NEW j \in 1..Len(todo'[v]),
               todo'[u][i] = todo'[v][j], todo'[u][i].do = "return"
        PROVE  u = v
    BY <1>0, <1>6, <2>2, <2>4, <2>5 DEF MakingInv
  <2> QED BY <2>3, <2>5 DEF MakingInv
<1>12. ReasonInv'
  <2>1. \A i \in 1..4 : i = 1 \/ i = 2 \/ i = 3 \/ i = 4
    OBVIOUS
  <2>2. \A i \in 1..Len(steps) : steps[i].do # "setErr" /\ steps[i].do # "report"
    BY <1>3, <2>1, StepIs
  <2> QED BY <1>0, <1>2, <1>6, <2>2 DEF ReasonInv
<1>13. c0 \notin done /\ ~Reporting(c0) /\ ~Tells(Parent[c0], Told(c0)) /\ ~Tells(c0, Detaches(c0))
  BY <1>0, <1>7, Names DEF BornInv
<1>14. BornInv'
  <2>1. \A q \in All : children[q] \subseteq Contexts
    BY <1>0 DEF TypeOK
  <2> QED BY <1>0, <1>2, <1>8, <1>9, <2>1 DEF BornInv
<1>15. EarlyInv'
  BY <1>0, <1>2, <1>8, <1>9, <1>13, TreeAssumption DEF EarlyInv, All
<1>16. ChildInv'
  BY <1>0, <1>2, <1>8, <1>9, <1>13, TreeAssumption DEF ChildInv, All
<1>17. SignalInv'
  BY <1>0, <1>2, <1>8, <1>9, <1>13, TreeAssumption DEF SignalInv, All
<1>18. DoneHasReason'
  BY <1>0, <1>2 DEF DoneHasReason
<1> QED BY <1>10, <1>11, <1>12, <1>14, <1>15, <1>16, <1>17, <1>18 DEF IInv

------------------------------------------------------------------------------
LEMMA Initially == Init => IInv
<1> SUFFICES ASSUME Init PROVE IInv
  OBVIOUS
<1>1. /\ \A x : ~Ahead(x)
      /\ \A q \in All : \A l : ~Tells(q, l)
      /\ \A t \in Threads : Len(todo[t]) = 0
  BY DEF Init, Ahead, Tells
<1>2. \A c \in Contexts : ~Born(c)
  BY <1>1, TreeAssumption DEF Init, Born
<1>3. TypeOK
  BY DEF Init, TypeOK, All
<1>4. MakingInv /\ ReasonInv
  BY <1>1 DEF MakingInv, ReasonInv
<1>5. BornInv
  BY <1>1, <1>2 DEF Init, BornInv, Reporting
<1>6. EarlyInv
  BY <1>1 DEF Init, EarlyInv, Once, ToListen, ToDetach
<1>7. ChildInv
  <2>1. \A c \in Contexts : c \notin children[Parent[c]]
    BY TreeAssumption DEF Init, All
  <2> QED BY <1>1, <1>2, <2>1 DEF ChildInv, Removing, Unlistening
<1>8. SignalInv
  BY <1>1, <1>2, TreeAssumption DEF Init, SignalInv, All
<1>9. DoneHasReason
  BY DEF Init, DoneHasReason
<1> QED BY <1>3, <1>4, <1>5, <1>6, <1>7, <1>8, <1>9 DEF IInv

LEMMA Inductive == IInv /\ [Next]_vars => IInv'
<1> SUFFICES ASSUME IInv, [Next]_vars PROVE IInv'
  OBVIOUS
<1>1. ASSUME NEW t \in Threads, NEW c \in Contexts, setParent(t, c) PROVE IInv'
  BY <1>1, SetParentStep
<1>2. ASSUME NEW t \in Threads, NEW c \in Contexts, cancel(t, c) PROVE IInv'
  BY <1>2, CancelStep
<1>3. ASSUME NEW t \in Threads, addChild(t) PROVE IInv'
  BY <1>3, AddChildStep
<1>4. ASSUME NEW t \in Threads, listenParent(t) PROVE IInv'
  BY <1>4, ListenParentStep
<1>5. ASSUME NEW t \in Threads, listenSelf(t) PROVE IInv'
  BY <1>5, ListenSelfStep
<1>6. ASSUME NEW t \in Threads, Return(t) PROVE IInv'
  BY <1>6, ReturnStep
<1>7. ASSUME NEW t \in Threads, setErr(t) PROVE IInv'
  BY <1>7, SetErrStep
<1>8. ASSUME NEW t \in Threads, report(t) PROVE IInv'
  BY <1>8, ReportStep, ReportAgainStep
<1>9. ASSUME NEW t \in Threads, removeChild(t) PROVE IInv'
  BY <1>9, RemoveChildStep
<1>10. ASSUME NEW t \in Threads, removeListener(t) PROVE IInv'
  BY <1>10, RemoveListenerStep
<1>11. CASE UNCHANGED vars
  <2> USE <1>11 DEF vars, IInv, Ahead, Tells
  <2>1. TypeOK' /\ MakingInv' /\ EarlyInv'
    BY DEF TypeOK, MakingInv, EarlyInv, ToListen, ToDetach, Reporting
  <2>2. BornInv' /\ ChildInv'
    BY DEF BornInv, ChildInv, Born, Adding, ToDetach, Reporting, Removing, Unlistening
  <2>3. SignalInv' /\ ReasonInv' /\ DoneHasReason'
    BY DEF SignalInv, ReasonInv, DoneHasReason, Born, ToListen, ToDetach, Reporting, Unlistening
  <2> QED BY <2>1, <2>2, <2>3
<1> QED BY <1>1, <1>2, <1>3, <1>4, <1>5, <1>6, <1>7, <1>8, <1>9, <1>10, <1>11
        DEF Next, Call, GoOn

LEMMA InductiveInvariant == Spec => []IInv
BY Initially, Inductive, PTL DEF Spec

\* With nobody at work no step is ahead, so what each part of the invariant
\* says is still to come cannot be: it must have been done.
LEMMA Tidy == IInv => TidyTree
<1> SUFFICES ASSUME IInv, \A t \in Threads : Idle(t), NEW p \in made,
                    NEW live, live = {c \in made \ done : Child(c, p)}
             PROVE  /\ children[p] = live
                    /\ p \in done => live = {} /\ signal[p] = <<>>
                    /\ p \notin done =>
                         /\ ToSet(signal[p]) = {Listener("fromParent", c) : c \in live}
                              \cup ({Listener("detach", p)} \ {Listener("detach", Background)})
                         /\ IsInjective(signal[p])
  BY DEF TidyTree
<1>0. TypeOK /\ BornInv /\ EarlyInv /\ ChildInv /\ SignalInv
  BY DEF IInv
<1>1. \A x : ~Ahead(x)
  <2>1. \A t \in Threads : todo[t] = <<>>
    BY DEF Idle
  <2> QED BY <2>1 DEF Ahead
<1>2. \A c : /\ ~Adding(c) /\ ~ToListen(c) /\ ~ToDetach(c) /\ ~Reporting(c)
             /\ ~Removing(c) /\ ~Unlistening(c) /\ (Born(c) <=> c \in made)
  BY <1>1 DEF Adding, ToListen, ToDetach, Reporting, Removing, Unlistening, Born
<1>3. /\ p \in All /\ children[p] \subseteq Contexts /\ signal[p] \in Seq(Listeners)
      /\ \A c : c \in live <=> c \in Contexts /\ c \in made /\ c \notin done /\ Parent[c] = p
  BY <1>0 DEF TypeOK, Child
<1>4. children[p] = live
  BY <1>0, <1>2, <1>3 DEF BornInv, ChildInv
<1>5. \A c \in live : Tells(p, Told(c))
  BY <1>0, <1>2, <1>3 DEF SignalInv
<1>6. p \in done => live = {} /\ signal[p] = <<>>
  BY <1>0, <1>5 DEF SignalInv, Tells
<1>7. ASSUME p \notin done
      PROVE  ToSet(signal[p]) = {Listener("fromParent", c) : c \in live}
                \cup ({Listener("detach", p)} \ {Listener("detach", Background)})
  <2>1. \A l : l \in ToSet(signal[p]) <=> Tells(p, l)
    BY <1>3 DEF ToSet, Tells
  <2>2. ASSUME NEW l, Tells(p, l)
        PROVE  \/ \E c \in live : l = Told(c)
               \/ p # Background /\ l = Detaches(p)
    <3>1. l \in Listeners
      BY <1>3, <2>2 DEF Tells
    <3>2. PICK c \in Contexts : l = Told(c) \/ l = Detaches(c)
      BY <3>1, StepIs DEF Told, Detaches, Listeners
    <3>3. CASE l = Told(c)
      <4>1. p = Parent[c] /\ c \in made
        BY <1>0, <1>2, <1>3, <2>2, <3>3 DEF BornInv
      <4>2. c \notin done
        BY <1>0, <1>2, <2>2, <3>3, <4>1 DEF SignalInv
      <4> QED BY <1>3, <3>3, <4>1, <4>2
    <3>4. CASE l = Detaches(c)
      <4>1. p = c
        BY <1>0, <1>3, <2>2, <3>4 DEF BornInv
      <4> QED BY <3>4, <4>1, TreeAssumption
    <3> QED BY <3>2, <3>3, <3>4
  <2>3. p # Background => Tells(p, Detaches(p))
    BY <1>0, <1>2, <1>3, <1>7 DEF ChildInv, All
  <2>4. Listener("detach", p) = Listener("detach", Background) => p = Background
    BY StepIs
  <2> QED BY <1>5, <2>1, <2>2, <2>3, <2>4 DEF Told, Detaches
<1>8. IsInjective(signal[p])
  <2>1. Once(signal[p]) /\ DOMAIN signal[p] = 1..Len(signal[p])
    BY <1>0, <1>3 DEF EarlyInv
  <2> QED BY <2>1 DEF Once, IsInjective
<1> QED BY <1>4, <1>6, <1>7, <1>8

\* Once no thread is in a call that makes or cancels a context, every context
\* below a done one is done, and each holds and listens for exactly its children
\* that are not; and a context done because of its parent has its error set
\* first (TreeInv), for any tree of contexts and any number of threads
\* (context.cpp:44-99, cancelablecontext.cpp:16-19).
THEOREM TreeStaysTidy == Spec => []TreeInv
<1>1. IInv => TreeInv
  BY Tidy DEF IInv, TreeInv
<1> QED BY InductiveInvariant, <1>1, PTL
==============================================================================
