-------------------------- MODULE IOPipeline_proofs --------------------------
(***************************************************************************)
(* Theorems about IOPipeline, for any pipelines, reactions of their        *)
(* stages, requests and calls.                                             *)
(*                                                                         *)
(* Five parts: the steps of a context are steps of its handler; append     *)
(* links the stages, and a walk over the links stops at a stage that can   *)
(* do what is asked; a request is held by one item at a time, from         *)
(* write() to its answer, unless a stage does not pass it on; a connection *)
(* that is Ready has a read under way, or something that a thread or the   *)
(* executor has still to do and that starts one (WillRead), unless a stage *)
(* broke the reading; and, without stages that have an executor, there is  *)
(* one read at a time, or one item that leads to one (TurnInv).            *)
(***************************************************************************)
EXTENDS IOPipeline, SocketHandler_proofs, WellFoundedInduction

------------------------------------------------------------------------------
\* Every step of the context is one of its handler, or leaves the handler alone:
\* what holds of a handler with any callers holds of the one in a context.
THEOREM ContextUsesHandler == ContextSpec => Spec
<1>1. ContextInit => Init
  BY DEF ContextInit
<1>2. [ContextNext]_<<vars, context>> => [Next]_vars
  <2> SUFFICES ASSUME ContextNext PROVE Next \/ UNCHANGED vars
    OBVIOUS
  <2>1. ASSUME NEW t \in Threads, handlerGoesOn(t) PROVE Next
    BY <2>1 DEF handlerGoesOn, Next
  <2>2. ASSUME NEW t \in Threads, callHandler(t) PROVE Next
    <3>1. connect(t) \/ disconnect(t) \/ close(t) \/ read(t) \/ write(t)
      BY <2>2 DEF callHandler, read, write
    <3> QED BY <3>1 DEF Next, Call
  <2>3. ASSUME NEW t \in Threads, ThreadGoesOn(t), ~handlerGoesOn(t), ~callHandler(t)
        PROVE  UNCHANGED vars
    BY <2>3 DEF ThreadGoesOn, listen, tellFirst, tellLast, tellStage, stageWrites, post, throw,
                answer
  <2>4. CASE handlerCompletes \/ network
    BY <2>4 DEF handlerCompletes, network, Next
  <2>5. CASE writeTask \/ workerTakes \/ callWrite \/ \E m \in TaskCalls : userTask(m)
    BY <2>5 DEF writeTask, workerTakes, callWrite, userTask
  <2> QED BY <2>1, <2>2, <2>3, <2>4, <2>5 DEF ContextNext, IoServes
<1> QED BY <1>1, <1>2, PTL DEF ContextSpec, Spec

THEOREM HandlerInContext == ContextSpec => []SocketInv
BY ContextUsesHandler, NothingLost, PTL

------------------------------------------------------------------------------
\* The pipeline: what append and the walks over its links make of it.

\* A set of natural numbers that has an element has a least one.
LEMMA LeastElement ==
    ASSUME NEW S, S \subseteq Nat, S # {}
    PROVE  \E x \in S : \A y \in S : x <= y
<1> DEFINE R == {p \in Nat \X Nat : p[1] < p[2]}
<1>1. R = OpToRel(<, Nat)
  BY DEF OpToRel
<1>2. IsWellFoundedOn(R, Nat)
  BY <1>1, NatLessThanWellFounded
<1> HIDE DEF R
<1>3. PICK x \in S : \A y \in S : <<y, x>> \notin R
  BY <1>2, WFMin
<1>4. \A y \in S : x <= y
  <2> TAKE y \in S
  <2>1. <<y, x>> \notin R /\ <<y, x>> \in Nat \X Nat
    BY <1>3
  <2> QED BY <2>1 DEF R
<1> QED BY <1>4

Links == [AllStages -> AllStages \cup {NoStage}]
Pipes == [stages : Seq(Stages), next : Links, prev : Links]

\* The stages of a pipeline with its ends.
Chain(appended) ==
    [i \in 1..Len(appended) + 2 |->
        IF i = 1 THEN FirstStage ELSE IF i = Len(appended) + 2 THEN LastStage
        ELSE appended[i - 1]]

\* The links go through the stages appended, from end to end and back.
Linked(p, appended) ==
    /\ p \in Pipes /\ p.stages = appended
    /\ \A i \in 1..Len(appended) + 1 :
          /\ p.next[Chain(appended)[i]] = Chain(appended)[i + 1]
          /\ p.prev[Chain(appended)[i + 1]] = Chain(appended)[i]
    /\ p.next[LastStage] = NoStage /\ p.prev[FirstStage] = NoStage
    /\ \A s \in Stages : (\A i \in 1..Len(appended) : appended[i] # s) =>
          p.next[s] = NoStage /\ p.prev[s] = NoStage

\* No stage is in a chain twice.
LEMMA ChainStages ==
    ASSUME NEW a \in Seq(Stages), IsInjective(a)
    PROVE  /\ Len(a) \in Nat /\ DOMAIN Chain(a) = 1..Len(a) + 2
           /\ \A i \in 1..Len(a) + 2 : Chain(a)[i] \in AllStages
           /\ Chain(a)[1] = FirstStage /\ Chain(a)[Len(a) + 2] = LastStage
           /\ \A i \in 1..Len(a) : Chain(a)[i + 1] = a[i]
           /\ \A i, j \in 1..Len(a) + 2 : Chain(a)[i] = Chain(a)[j] => i = j
           /\ \A s \in AllStages : (\A i \in 1..Len(a) + 2 : Chain(a)[i] # s) =>
                 s \in Stages /\ \A i \in 1..Len(a) : a[i] # s
<1> DEFINE n == Len(a)
           c == Chain(a)
<1>1. n \in Nat /\ DOMAIN a = 1..n /\ \A i \in 1..n : a[i] \in Stages
  OBVIOUS
<1>2. DOMAIN c = 1..n + 2 /\ c[1] = FirstStage /\ c[n + 2] = LastStage
  BY <1>1 DEF Chain
<1>3. \A i \in 1..n : c[i + 1] = a[i]
  BY <1>1 DEF Chain
<1>4. \A i \in 1..n + 2 : i = 1 \/ i = n + 2 \/ (i - 1 \in 1..n /\ c[i] = a[i - 1])
  BY <1>1 DEF Chain
<1>5. FirstStage \notin Stages /\ LastStage \notin Stages /\ FirstStage # LastStage
  BY PipelineAssumption
<1> HIDE DEF c, n
<1>6. \A i \in 1..n + 2 : c[i] \in AllStages
  BY <1>1, <1>2, <1>4 DEF AllStages
<1>7. \A i, j \in 1..n + 2 : c[i] = c[j] => i = j
  <2> SUFFICES ASSUME NEW i \in 1..n + 2, NEW j \in 1..n + 2, c[i] = c[j] PROVE i = j
    OBVIOUS
  <2>1. CASE i - 1 \in 1..n /\ j - 1 \in 1..n /\ c[i] = a[i - 1] /\ c[j] = a[j - 1]
    <3>1. i - 1 = j - 1
      BY <1>1, <2>1 DEF IsInjective
    <3> QED BY <1>1, <3>1
  <2> QED BY <1>1, <1>2, <1>4, <1>5, <2>1
<1>8. \A s \in AllStages : (\A i \in 1..n + 2 : c[i] # s) =>
          s \in Stages /\ \A i \in 1..n : a[i] # s
  <2> SUFFICES ASSUME NEW s \in AllStages, \A i \in 1..n + 2 : c[i] # s
               PROVE  s \in Stages /\ \A i \in 1..n : a[i] # s
    OBVIOUS
  <2>1. 1 \in 1..n + 2 /\ n + 2 \in 1..n + 2 /\ \A i \in 1..n : i + 1 \in 1..n + 2
    BY <1>1
  <2> QED BY <1>2, <1>3, <2>1 DEF AllStages
<1> QED BY <1>1, <1>2, <1>3, <1>6, <1>7, <1>8 DEF c, n

LEMMA Made == Linked(make, <<>>)
<1>1. make \in Pipes
  BY DEF make, Pipes, Links, AllStages
<1>2. Len(<<>>) = 0 /\ Chain(<<>>)[1] = FirstStage /\ Chain(<<>>)[2] = LastStage
  BY DEF Chain
<1>3. FirstStage # LastStage /\ FirstStage \notin Stages /\ LastStage \notin Stages
  BY PipelineAssumption
<1>4. /\ make.stages = <<>> /\ make.next[FirstStage] = LastStage
      /\ make.prev[LastStage] = FirstStage
      /\ make.next[LastStage] = NoStage /\ make.prev[FirstStage] = NoStage
      /\ \A s \in Stages : make.next[s] = NoStage /\ make.prev[s] = NoStage
  BY <1>3 DEF make, AllStages
<1> QED BY <1>1, <1>2, <1>4 DEF Linked

LEMMA AppendLinks ==
    ASSUME NEW a \in Seq(Stages), NEW s \in Stages, IsInjective(Append(a, s)),
           NEW p, Linked(p, a)
    PROVE  Linked(append(p, s), Append(a, s))
<1> DEFINE n == Len(a)
           b == Append(a, s)
           q == append(p, s)
           penultimate == IF a = <<>> THEN FirstStage ELSE Last(a)
<1>1. n \in Nat /\ DOMAIN a = 1..n /\ b \in Seq(Stages) /\ Len(b) = n + 1
      /\ DOMAIN b = 1..n + 1
      /\ (\A i \in 1..n : b[i] = a[i]) /\ b[n + 1] = s
  OBVIOUS
<1> HIDE DEF b
<1>2. IsInjective(a) /\ \A i \in 1..n : a[i] # s
  <2>1. \A i, j \in 1..n + 1 : b[i] = b[j] => i = j
    BY <1>1 DEF IsInjective, b
  <2>2. \A i \in 1..n : i \in 1..n + 1 /\ i # n + 1
    BY <1>1
  <2>3. n + 1 \in 1..n + 1
    BY <1>1
  <2> QED BY <1>1, <2>1, <2>2, <2>3 DEF IsInjective
<1>3. /\ \A i \in 1..n + 2 : Chain(a)[i] \in AllStages
      /\ Chain(a)[1] = FirstStage /\ Chain(a)[n + 2] = LastStage
      /\ \A i \in 1..n : Chain(a)[i + 1] = a[i]
      /\ \A i, j \in 1..n + 2 : Chain(a)[i] = Chain(a)[j] => i = j
  BY <1>2, ChainStages
<1>4. /\ \A i \in 1..n + 1 : Chain(b)[i] = Chain(a)[i]
      /\ Chain(b)[n + 2] = s /\ Chain(b)[n + 3] = LastStage
  <2>1. Chain(b) = [i \in 1..n + 3 |-> IF i = 1 THEN FirstStage
                                      ELSE IF i = n + 3 THEN LastStage ELSE b[i - 1]]
    <3>1. Len(b) + 2 = n + 3
      BY <1>1
    <3> QED BY <3>1 DEF Chain
  <2>2. Chain(a) = [i \in 1..n + 2 |-> IF i = 1 THEN FirstStage
                                      ELSE IF i = n + 2 THEN LastStage ELSE a[i - 1]]
    BY DEF Chain
  <2> HIDE DEF n
  <2>3. Chain(b)[n + 3] = LastStage
    BY <1>1, <2>1
  <2>4. Chain(b)[n + 2] = s
    <3>1. n + 2 \in 1..n + 3 /\ n + 2 # 1 /\ n + 2 # n + 3 /\ (n + 2) - 1 = n + 1
      BY <1>1
    <3> QED BY <1>1, <2>1, <3>1
  <2>5. ASSUME NEW i \in 1..n + 1 PROVE Chain(b)[i] = Chain(a)[i]
    <3>1. i \in 1..n + 3 /\ i \in 1..n + 2 /\ i # n + 3 /\ i # n + 2
      BY <1>1
    <3>2. i = 1 \/ i - 1 \in 1..n
      BY <1>1
    <3> QED BY <1>1, <2>1, <2>2, <3>1, <3>2
  <2> QED BY <2>3, <2>4, <2>5
<1>5. penultimate = Chain(a)[n + 1]
  <2>1. CASE a = <<>>
    BY <1>3, <2>1
  <2>2. CASE a # <<>>
    <3>1. n \in 1..n /\ Last(a) = a[n]
      BY <1>1, <2>2 DEF Last
    <3> QED BY <1>3, <2>2, <3>1
  <2> QED BY <2>1, <2>2
<1> DEFINE pen == Chain(a)[n + 1]
<1>6. q = [stages |-> b, next |-> [p.next EXCEPT ![pen] = s, ![s] = LastStage],
           prev |-> [p.prev EXCEPT ![s] = pen, ![LastStage] = s]]
  BY <1>5 DEF append, Linked, b
<1>7. s \in AllStages /\ LastStage \in AllStages /\ FirstStage \in AllStages /\ pen \in AllStages
      /\ s # LastStage /\ s # FirstStage /\ FirstStage # LastStage
  BY <1>1, <1>3, PipelineAssumption DEF AllStages
<1>8. pen # s /\ pen # LastStage /\ \A i \in 1..n + 2 : Chain(a)[i] # s
  <2>1. \A i \in 1..n + 2 : i = 1 \/ i = n + 2 \/ (i - 1 \in 1..n /\ (i - 1) + 1 = i)
    BY <1>1
  <2>2. \A i \in 1..n + 2 : Chain(a)[i] # s
    <3> TAKE i \in 1..n + 2
    <3>1. CASE i - 1 \in 1..n /\ (i - 1) + 1 = i
      <4>1. Chain(a)[(i - 1) + 1] = a[i - 1] /\ a[i - 1] # s
        BY <1>2, <1>3, <3>1
      <4> QED BY <3>1, <4>1
    <3> QED BY <1>3, <1>7, <2>1, <3>1
  <2>3. n + 1 \in 1..n + 2 /\ n + 2 \in 1..n + 2 /\ n + 1 # n + 2
    BY <1>1
  <2> QED BY <1>3, <2>2, <2>3
<1> HIDE DEF pen, q
<1>9. p.next \in Links /\ p.prev \in Links /\ p.stages = a
  BY DEF Linked, Pipes
<1>10. /\ q \in Pipes /\ q.stages = b
       /\ q.next = [p.next EXCEPT ![pen] = s, ![s] = LastStage]
       /\ q.prev = [p.prev EXCEPT ![s] = pen, ![LastStage] = s]
  BY <1>1, <1>6, <1>7, <1>9 DEF Pipes, Links
<1>11. \A x \in AllStages :
          /\ q.next[x] = IF x = s THEN LastStage ELSE IF x = pen THEN s ELSE p.next[x]
          /\ q.prev[x] = IF x = LastStage THEN s ELSE IF x = s THEN pen ELSE p.prev[x]
  BY <1>7, <1>8, <1>9, <1>10 DEF Links
<1>12. ASSUME NEW i \in 1..n + 2
       PROVE  /\ q.next[Chain(b)[i]] = Chain(b)[i + 1]
              /\ q.prev[Chain(b)[i + 1]] = Chain(b)[i]
  <2>1. CASE i \in 1..n
    <3>1. i \in 1..n + 1 /\ i + 1 \in 1..n + 1 /\ i \in 1..n + 2 /\ i + 1 \in 1..n + 2
          /\ i # n + 1 /\ i + 1 # n + 2 /\ n + 1 \in 1..n + 2 /\ n + 2 \in 1..n + 2
      BY <1>1, <2>1
    <3>2. Chain(a)[i] # pen /\ Chain(a)[i + 1] # LastStage
      BY <1>3, <3>1 DEF pen
    <3>3. p.next[Chain(a)[i]] = Chain(a)[i + 1] /\ p.prev[Chain(a)[i + 1]] = Chain(a)[i]
      BY <3>1 DEF Linked
    <3> QED BY <1>3, <1>4, <1>8, <1>11, <3>1, <3>2, <3>3
  <2>2. CASE i = n + 1
    <3>1. Chain(b)[i] = pen /\ Chain(b)[i + 1] = s
      BY <1>1, <1>4, <2>2 DEF pen
    <3> QED BY <1>7, <1>8, <1>11, <3>1
  <2>3. CASE i = n + 2
    <3>1. Chain(b)[i] = s /\ Chain(b)[i + 1] = LastStage
      BY <1>1, <1>4, <2>3
    <3> QED BY <1>7, <1>8, <1>11, <3>1
  <2>4. i \in 1..n \/ i = n + 1 \/ i = n + 2
    BY <1>1
  <2> QED BY <2>1, <2>2, <2>3, <2>4
<1>13. q.next[LastStage] = NoStage /\ q.prev[FirstStage] = NoStage
  BY <1>7, <1>8, <1>11 DEF Linked
<1>14. ASSUME NEW x \in Stages, \A i \in 1..n + 1 : b[i] # x
       PROVE  q.next[x] = NoStage /\ q.prev[x] = NoStage
  <2>1. x # s /\ (\A i \in 1..n : a[i] # x)
    BY <1>1, <1>14
  <2>2. x # LastStage /\ x # FirstStage /\ x \in AllStages
    BY PipelineAssumption DEF AllStages
  <2>3. p.next[x] = NoStage /\ p.prev[x] = NoStage
    BY <2>1 DEF Linked
  <2>4. x # pen
    <3>1. CASE n = 0
      BY <1>3, <2>2, <3>1 DEF pen
    <3>2. CASE n # 0
      <4>1. n \in 1..n
        BY <1>1, <3>2
      <4> QED BY <1>3, <2>1, <4>1 DEF pen
    <3> QED BY <3>1, <3>2
  <2> QED BY <1>11, <2>1, <2>2, <2>3, <2>4
<1>15. Linked(q, b)
  <2>1. 1..Len(b) + 1 = 1..n + 2 /\ 1..Len(b) = 1..n + 1
    BY <1>1
  <2> QED BY <1>10, <1>12, <1>13, <1>14, <2>1 DEF Linked
<1> QED BY <1>15 DEF b, q

\* The links are determined by what was appended.
LEMMA LinkedUnique ==
    ASSUME NEW a \in Seq(Stages), IsInjective(a), NEW p, NEW q, Linked(p, a), Linked(q, a)
    PROVE  p = q
<1> DEFINE n == Len(a)
<1>1. /\ n \in Nat
      /\ \A s \in AllStages : (\A i \in 1..n + 2 : Chain(a)[i] # s) =>
            s \in Stages /\ \A i \in 1..n : a[i] # s
      /\ Chain(a)[1] = FirstStage /\ Chain(a)[n + 2] = LastStage
  BY ChainStages
<1>2. \A s \in AllStages : p.next[s] = q.next[s] /\ p.prev[s] = q.prev[s]
  <2> TAKE s \in AllStages
  <2>1. CASE \A i \in 1..n + 2 : Chain(a)[i] # s
    BY <1>1, <2>1 DEF Linked
  <2>2. ASSUME NEW i \in 1..n + 2, Chain(a)[i] = s
        PROVE  p.next[s] = q.next[s] /\ p.prev[s] = q.prev[s]
    <3>1. p.next[s] = q.next[s]
      <4>1. i = n + 2 \/ i \in 1..n + 1
        BY <1>1
      <4> QED BY <1>1, <2>2, <4>1 DEF Linked
    <3>2. p.prev[s] = q.prev[s]
      <4>1. i = 1 \/ (i - 1 \in 1..n + 1 /\ (i - 1) + 1 = i)
        BY <1>1
      <4>2. CASE i - 1 \in 1..n + 1 /\ (i - 1) + 1 = i
        <5>1. /\ p.prev[Chain(a)[(i - 1) + 1]] = Chain(a)[i - 1]
              /\ q.prev[Chain(a)[(i - 1) + 1]] = Chain(a)[i - 1]
          BY <4>2 DEF Linked
        <5> QED BY <2>2, <4>2, <5>1
      <4> QED BY <1>1, <2>2, <4>1, <4>2 DEF Linked
    <3> QED BY <3>1, <3>2
  <2> QED BY <2>1, <2>2
<1>3. p \in Pipes /\ q \in Pipes /\ p.stages = q.stages
  BY DEF Linked
<1>4. p.next = q.next /\ p.prev = q.prev
  BY <1>2, <1>3 DEF Pipes, Links
<1> QED BY <1>3, <1>4 DEF Pipes

LEMMA Fronts ==
    ASSUME NEW a \in Seq(Stages), IsInjective(a), NEW n \in 1..Len(a)
    PROVE  /\ SubSeq(a, 1, n - 1) \in Seq(Stages) /\ a[n] \in Stages
           /\ SubSeq(a, 1, n) = Append(SubSeq(a, 1, n - 1), a[n])
           /\ IsInjective(SubSeq(a, 1, n))
<1>0. Len(a) \in Nat /\ DOMAIN a = 1..Len(a) /\ \A i \in 1..Len(a) : a[i] \in Stages
  OBVIOUS
<1>1. n \in Nat /\ n <= Len(a) /\ n - 1 \in Nat /\ n - 1 <= Len(a)
  BY <1>0
<1>2. SubSeq(a, 1, n) = [i \in 1..n |-> a[i]]
  BY <1>0, <1>1
<1>3. SubSeq(a, 1, n - 1) = [i \in 1..n - 1 |-> a[i]]
  BY <1>0, <1>1
<1>4. \A i \in 1..n - 1 : a[i] \in Stages
  BY <1>0, <1>1
<1>5. SubSeq(a, 1, n - 1) \in Seq(Stages) /\ Len(SubSeq(a, 1, n - 1)) = n - 1
  BY <1>1, <1>3, <1>4, IsASeq
<1>6. Append(SubSeq(a, 1, n - 1), a[n]) = [i \in 1..n |-> a[i]]
  <2> DEFINE s == SubSeq(a, 1, n - 1)
  <2>1. s \in Seq(Stages) /\ Len(s) = n - 1 /\ \A i \in 1..n - 1 : s[i] = a[i]
    BY <1>3, <1>5
  <2> HIDE DEF s
  <2>2. Append(s, a[n]) = [i \in 1..(n - 1) + 1 |-> IF i = n THEN a[n] ELSE s[i]]
    BY <1>1, <2>1
  <2>3. (n - 1) + 1 = n /\ \A i \in 1..n : i = n \/ i \in 1..n - 1
    BY <1>1
  <2> QED BY <2>1, <2>2, <2>3 DEF s
<1>7. IsInjective(SubSeq(a, 1, n))
  <2>1. \A i \in 1..n : i \in DOMAIN a
    BY <1>0, <1>1
  <2> QED BY <1>2, <2>1 DEF IsInjective
<1> QED BY <1>0, <1>2, <1>5, <1>6, <1>7

\* A pipeline that was built links its stages in the order they were appended.
LEMMA BuiltLinks ==
    ASSUME NEW a \in Seq(Stages), IsInjective(a)
    PROVE  Linked(Built(a), a)
<1> DEFINE N == Len(a)
           front(n) == SubSeq(a, 1, n)
           Rec(h) == h = [n \in 0..N |-> IF n = 0 THEN make ELSE append(h[n - 1], a[n])]
<1>1. N \in Nat /\ front(0) = <<>> /\ front(N) = a
  <2>1. N \in Nat /\ a = [i \in 1..N |-> a[i]]
    OBVIOUS
  <2>2. front(N) = [i \in 1..N |-> a[i]] /\ front(0) = <<>>
    BY <2>1
  <2> QED BY <2>1, <2>2
<1>2. \A n \in 1..N : /\ front(n - 1) \in Seq(Stages) /\ a[n] \in Stages
                      /\ front(n) = Append(front(n - 1), a[n]) /\ IsInjective(front(n))
  BY Fronts
<1> HIDE DEF front
<1>3. \A n \in 1..N : \A p : Linked(p, front(n - 1)) => Linked(append(p, a[n]), front(n))
  BY <1>2, AppendLinks
<1>4. Linked(make, front(0))
  BY <1>1, Made
<1>5. \A n \in 0..N : front(n) \in Seq(Stages) /\ IsInjective(front(n))
  <2> TAKE n \in 0..N
  <2>1. CASE n = 0
    <3>1. <<>> \in Seq(Stages) /\ IsInjective(<<>>)
      BY DEF IsInjective
    <3> QED BY <1>1, <2>1, <3>1
  <2>2. CASE n # 0
    <3>1. n \in 1..N
      BY <1>1, <2>2
    <3>2. front(n - 1) \in Seq(Stages) /\ a[n] \in Stages
      BY <1>2, <3>1
    <3>3. Append(front(n - 1), a[n]) \in Seq(Stages)
      BY <3>2
    <3> QED BY <1>2, <3>1, <3>3
  <2> QED BY <2>1, <2>2
<1>6. \A n \in 0..N : \E p : Linked(p, front(n))
  <2> DEFINE B == {n \in 0..N : ~\E p : Linked(p, front(n))}
  <2> SUFFICES ASSUME B # {} PROVE FALSE
    OBVIOUS
  <2>1. B \subseteq Nat
    BY <1>1
  <2> HIDE DEF B
  <2>2. PICK m \in B : \A k \in B : m <= k
    BY <2>1, LeastElement
  <2>3. m \in 0..N /\ ~\E p : Linked(p, front(m))
    BY DEF B
  <2>4. m # 0
    BY <1>4, <2>3
  <2>5. m \in 1..N /\ m - 1 \in 0..N /\ ~(m <= m - 1)
    BY <1>1, <2>3, <2>4
  <2>6. m - 1 \notin B
    BY <2>2, <2>5
  <2>7. \E p : Linked(p, front(m - 1))
    BY <2>5, <2>6 DEF B
  <2> QED BY <1>3, <2>3, <2>5, <2>7
<1>7. \E h : Rec(h)
  <2> DEFINE g == [n \in 0..N |-> CHOOSE p : Linked(p, front(n))]
  <2>1. \A n \in 0..N : Linked(g[n], front(n))
    BY <1>6
  <2>2. g[0] = make
    <3>1. 0 \in 0..N
      BY <1>1
    <3> HIDE DEF g
    <3> QED BY <1>4, <1>5, <2>1, <3>1, LinkedUnique
  <2>3. ASSUME NEW n \in 1..N PROVE g[n] = append(g[n - 1], a[n])
    <3>1. n \in 0..N /\ n - 1 \in 0..N
      BY <1>1
    <3> HIDE DEF g
    <3>2. Linked(g[n], front(n)) /\ Linked(append(g[n - 1], a[n]), front(n))
      BY <1>3, <2>1, <3>1
    <3> QED BY <1>5, <3>1, <3>2, LinkedUnique
  <2>4. \A n \in 0..N : g[n] = IF n = 0 THEN make ELSE append(g[n - 1], a[n])
    <3> TAKE n \in 0..N
    <3>1. n = 0 \/ n \in 1..N
      BY <1>1
    <3> HIDE DEF g
    <3> QED BY <2>2, <2>3, <3>1
  <2>5. Rec(g)
    <3>1. g = [n \in 0..N |-> g[n]]
      OBVIOUS
    <3> HIDE DEF g
    <3> QED BY <2>4, <3>1
  <2> QED BY <2>5
<1> DEFINE after == CHOOSE h : Rec(h)
<1>8. Rec(after)
  BY <1>7
<1>9. Built(a) = after[N]
  BY DEF Built
<1> HIDE DEF after
<1>10. /\ after[0] = make
       /\ \A n \in 1..N : after[n] = append(after[n - 1], a[n])
  <2>1. 0 \in 0..N /\ \A n \in 1..N : n \in 0..N /\ n # 0
    BY <1>1
  <2> QED BY <1>8, <2>1
<1>11. \A n \in 0..N : Linked(after[n], front(n))
  <2> DEFINE B == {n \in 0..N : ~Linked(after[n], front(n))}
  <2> SUFFICES ASSUME B # {} PROVE FALSE
    OBVIOUS
  <2>1. B \subseteq Nat
    BY <1>1
  <2> HIDE DEF B
  <2>2. PICK m \in B : \A k \in B : m <= k
    BY <2>1, LeastElement
  <2>3. m \in 0..N /\ ~Linked(after[m], front(m))
    BY DEF B
  <2>4. m # 0
    BY <1>4, <1>10, <2>3
  <2>5. m \in 1..N /\ m - 1 \in 0..N /\ ~(m <= m - 1)
    BY <1>1, <2>3, <2>4
  <2>6. m - 1 \notin B
    BY <2>2, <2>5
  <2>7. Linked(after[m - 1], front(m - 1))
    BY <2>5, <2>6 DEF B
  <2> QED BY <1>3, <1>10, <2>3, <2>5, <2>7
<1> QED BY <1>1, <1>9, <1>11

\* A walk along links that lead through a chain to a stage that is looked for stops
\* at the nearest such stage, and nowhere for a stage that is in no pipeline.
Walks(w, link, Goal) ==
    w = [s \in AllStages \cup {NoStage} |-> IF s \in Goal \cup {NoStage} THEN s ELSE w[link[s]]]

LEMMA WalkStops ==
    ASSUME NEW link \in Links, NEW Goal \in SUBSET AllStages, NEW n \in Nat, n > 0,
           NEW c \in [1..n -> AllStages], \A i, j \in 1..n : c[i] = c[j] => i = j,
           c[n] \in Goal, \A i \in 1..n - 1 : link[c[i]] = c[i + 1],
           \A s \in AllStages : (\A i \in 1..n : c[i] # s) => link[s] = NoStage
    PROVE  LET w == CHOOSE w : Walks(w, link, Goal)
           IN  /\ w[NoStage] = NoStage
               /\ \A s \in AllStages : (\A i \in 1..n : c[i] # s) => w[s] \in {s, NoStage}
               /\ \A i \in 1..n : \E k \in i..n :
                     /\ w[c[i]] = c[k] /\ c[k] \in Goal
                     /\ \A j \in i..k - 1 : c[j] \notin Goal
<1> DEFINE near == [i \in 1..n |-> {k \in i..n : c[k] \in Goal /\ \A j \in i..k - 1 : c[j] \notin Goal}]
<1>1. \A i \in 1..n : \E k : k \in near[i]
  <2> TAKE i \in 1..n
  <2> DEFINE S == {k \in i..n : c[k] \in Goal}
  <2>1. S \subseteq Nat /\ n \in S
    OBVIOUS
  <2>2. PICK k \in S : \A j \in S : k <= j
    BY <2>1, LeastElement
  <2>3. \A j \in i..k - 1 : j \notin S
    BY <2>1, <2>2
  <2>4. \A j \in i..k - 1 : j \in i..n
    BY <2>1, <2>2
  <2> QED BY <2>2, <2>3, <2>4
<1>2. \A i \in 1..n : \A k, l : k \in near[i] /\ l \in near[i] => k = l
  <2> SUFFICES ASSUME NEW i \in 1..n, NEW k, NEW l, k \in near[i], l \in near[i], k # l
               PROVE  FALSE
    OBVIOUS
  <2>1. k < l \/ l < k
    OBVIOUS
  <2>2. CASE k < l
    BY <2>2
  <2>3. CASE l < k
    BY <2>3
  <2> QED BY <2>1, <2>2, <2>3
<1>3. \A i \in 1..n : \A k : k \in near[i] =>
          IF c[i] \in Goal THEN k = i ELSE i + 1 \in 1..n /\ k \in near[i + 1]
  <2> SUFFICES ASSUME NEW i \in 1..n, NEW k, k \in near[i]
               PROVE  IF c[i] \in Goal THEN k = i ELSE i + 1 \in 1..n /\ k \in near[i + 1]
    OBVIOUS
  <2>1. CASE c[i] \in Goal
    <3> SUFFICES ASSUME k # i PROVE FALSE
      BY <2>1
    <3>1. i \in i..k - 1
      OBVIOUS
    <3> QED BY <2>1, <3>1
  <2>2. CASE c[i] \notin Goal
    <3>1. k # i /\ i # n
      BY <2>2
    <3>2. i + 1 \in 1..n /\ k \in i + 1..n /\ \A j \in i + 1..k - 1 : j \in i..k - 1
      BY <3>1
    <3> QED BY <2>2, <3>2
  <2> QED BY <2>1, <2>2
<1> HIDE DEF near
<1> DEFINE place(s) == CHOOSE i \in 1..n : c[i] = s
           g == [s \in AllStages \cup {NoStage} |->
                    IF s \in Goal \cup {NoStage} THEN s
                    ELSE IF \E i \in 1..n : c[i] = s
                         THEN c[CHOOSE k : k \in near[place(s)]] ELSE NoStage]
<1>4. NoStage \notin AllStages
  BY PipelineAssumption
<1>5. \A i \in 1..n : place(c[i]) = i
  OBVIOUS
<1> HIDE DEF place
<1>6. \A i \in 1..n : \A k : k \in near[i] => g[c[i]] = c[k]
  <2> SUFFICES ASSUME NEW i \in 1..n, NEW k, k \in near[i] PROVE g[c[i]] = c[k]
    OBVIOUS
  <2>1. (CHOOSE l : l \in near[i]) = k
    BY <1>2
  <2>2. c[i] \in AllStages /\ c[i] # NoStage
    BY <1>4
  <2>3. CASE c[i] \in Goal
    BY <1>3, <2>2, <2>3
  <2>4. CASE c[i] \notin Goal
    <3>1. g[c[i]] = c[CHOOSE l : l \in near[place(c[i])]]
      BY <2>2, <2>4
    <3>2. place(c[i]) = i
      BY <1>5
    <3>3. \A l : l \in near[place(c[i])] <=> l = k
      BY <1>2, <3>2
    <3>4. (CHOOSE l : l \in near[place(c[i])]) = k
      BY <3>3
    <3> HIDE DEF g
    <3> QED BY <3>1, <3>4
  <2> QED BY <2>3, <2>4
<1>7. \A s \in AllStages : s \notin Goal /\ (\A i \in 1..n : c[i] # s) => g[s] = NoStage
  BY <1>4
<1>8. g[NoStage] = NoStage /\ \A s \in Goal : g[s] = s
  OBVIOUS
<1>9. \A s \in AllStages \cup {NoStage} :
          g[s] = IF s \in Goal \cup {NoStage} THEN s ELSE g[link[s]]
  <2> HIDE DEF g
  <2> SUFFICES ASSUME NEW s \in AllStages, s \notin Goal PROVE g[s] = g[link[s]]
    BY <1>4, <1>8
  <2>1. CASE \A i \in 1..n : c[i] # s
    BY <1>7, <1>8, <2>1
  <2>2. ASSUME NEW i \in 1..n, c[i] = s PROVE g[s] = g[link[s]]
    <3>1. PICK k : k \in near[i]
      BY <1>1
    <3>2. i + 1 \in 1..n /\ k \in near[i + 1]
      BY <1>3, <2>2, <3>1
    <3>3. i \in 1..n - 1
      BY <3>2
    <3>4. link[s] = c[i + 1]
      BY <2>2, <3>3
    <3> QED BY <1>6, <2>2, <3>1, <3>2, <3>4
  <2> QED BY <2>1, <2>2
<1>10. Walks(g, link, Goal)
  <2>1. g = [s \in AllStages \cup {NoStage} |-> g[s]]
    OBVIOUS
  <2> HIDE DEF g
  <2> QED BY <1>9, <2>1 DEF Walks
<1> DEFINE w == CHOOSE w : Walks(w, link, Goal)
<1>11. Walks(w, link, Goal)
  <2> HIDE DEF g
  <2> QED BY <1>10
<1> HIDE DEF w, g
<1>12. \A s \in AllStages \cup {NoStage} :
          w[s] = IF s \in Goal \cup {NoStage} THEN s ELSE w[link[s]]
  <2> DEFINE body(s) == IF s \in Goal \cup {NoStage} THEN s ELSE w[link[s]]
  <2>1. w = [s \in AllStages \cup {NoStage} |-> body(s)]
    BY <1>11 DEF Walks
  <2> QED BY <2>1
<1>13. w[NoStage] = NoStage
  BY <1>12
<1>14. \A s \in AllStages : (\A i \in 1..n : c[i] # s) => w[s] \in {s, NoStage}
  BY <1>12, <1>13
<1>15. \A d \in 0..n - 1 : \A k : k \in near[n - d] => w[c[n - d]] = c[k]
  <2> DEFINE B == {d \in 0..n - 1 : ~\A k : k \in near[n - d] => w[c[n - d]] = c[k]}
  <2> SUFFICES ASSUME B # {} PROVE FALSE
    OBVIOUS
  <2>1. B \subseteq Nat
    OBVIOUS
  <2> HIDE DEF B
  <2>2. PICK d \in B : \A e \in B : d <= e
    BY <2>1, LeastElement
  <2>3. d \in 0..n - 1 /\ n - d \in 1..n
    BY DEF B
  <2>4. PICK k : k \in near[n - d] /\ w[c[n - d]] # c[k]
    BY DEF B
  <2>5. CASE c[n - d] \in Goal
    <3>1. k = n - d
      BY <1>3, <2>3, <2>4, <2>5
    <3> QED BY <1>12, <2>3, <2>4, <2>5, <3>1
  <2>6. CASE c[n - d] \notin Goal
    <3>1. (n - d) + 1 \in 1..n /\ k \in near[(n - d) + 1]
      BY <1>3, <2>3, <2>4, <2>6
    <3>2. d - 1 \in 0..n - 1 /\ n - (d - 1) = (n - d) + 1 /\ ~(d <= d - 1)
      BY <2>3, <3>1
    <3>3. d - 1 \notin B
      BY <2>2, <3>2
    <3>4. w[c[(n - d) + 1]] = c[k]
      BY <3>1, <3>2, <3>3 DEF B
    <3>5. n - d \in 1..n - 1
      BY <2>3, <3>1
    <3>6. link[c[n - d]] = c[(n - d) + 1]
      BY <3>5
    <3>7. w[c[n - d]] = w[link[c[n - d]]]
      BY <1>4, <1>12, <2>3, <2>6
    <3> QED BY <2>4, <3>4, <3>6, <3>7
  <2> QED BY <2>5, <2>6
<1>16. ASSUME NEW i \in 1..n
       PROVE  \E k \in i..n : /\ w[c[i]] = c[k] /\ c[k] \in Goal
                              /\ \A j \in i..k - 1 : c[j] \notin Goal
  <2>1. PICK k : k \in near[i]
    BY <1>1
  <2>2. n - i \in 0..n - 1 /\ n - (n - i) = i
    OBVIOUS
  <2>3. w[c[i]] = c[k]
    BY <1>15, <2>1, <2>2
  <2> QED BY <2>1, <2>3 DEF near
<1> QED BY <1>13, <1>14, <1>16 DEF w

\* The stages that are in the pipeline.
InPipe(s) == s \in {FirstStage, LastStage} \cup Range(pipe.stages)

\* The pipeline is one of those considered, as it was built.
PipeInv == \E appended \in Layouts : pipe = Built(appended)

LEMMA PipeChain ==
    ASSUME PipeInv
    PROVE  \E a \in Seq(Stages) :
              /\ IsInjective(a) /\ Linked(pipe, a)
              /\ \A s : InPipe(s) <=> \E i \in 1..Len(a) + 2 : Chain(a)[i] = s
<1>1. PICK a \in Layouts : pipe = Built(a)
  BY DEF PipeInv
<1>2. a \in Seq(Stages) /\ IsInjective(a)
  BY IOPipelineAssumption
<1>3. Linked(pipe, a) /\ pipe.stages = a
  BY <1>1, <1>2, BuiltLinks DEF Linked
<1>4. /\ Len(a) \in Nat /\ DOMAIN a = 1..Len(a)
      /\ Chain(a)[1] = FirstStage /\ Chain(a)[Len(a) + 2] = LastStage
      /\ \A i \in 1..Len(a) : Chain(a)[i + 1] = a[i]
  BY <1>2, ChainStages
<1>5. ASSUME NEW s PROVE InPipe(s) <=> \E i \in 1..Len(a) + 2 : Chain(a)[i] = s
  <2>1. ASSUME InPipe(s) PROVE \E i \in 1..Len(a) + 2 : Chain(a)[i] = s
    <3>1. 1 \in 1..Len(a) + 2 /\ Len(a) + 2 \in 1..Len(a) + 2
          /\ \A i \in 1..Len(a) : i + 1 \in 1..Len(a) + 2
      BY <1>4
    <3> QED BY <1>3, <1>4, <2>1, <3>1 DEF InPipe, Range
  <2>2. ASSUME NEW i \in 1..Len(a) + 2, Chain(a)[i] = s PROVE InPipe(s)
    <3>1. i = 1 \/ i = Len(a) + 2 \/ (i - 1 \in 1..Len(a) /\ (i - 1) + 1 = i)
      BY <1>4
    <3>2. CASE i - 1 \in 1..Len(a) /\ (i - 1) + 1 = i
      <4>1. Chain(a)[(i - 1) + 1] = a[i - 1]
        BY <1>4, <3>2
      <4>2. s = a[i - 1]
        BY <2>2, <3>2, <4>1
      <4> QED BY <1>3, <1>4, <3>2, <4>2 DEF InPipe, Range
    <3> QED BY <1>4, <2>2, <3>1, <3>2 DEF InPipe
  <2> QED BY <2>1, <2>2
<1> QED BY <1>2, <1>3, <1>5

\* A walk forwards finds a stage that writes, from any stage but the last one, and
\* a walk backwards one that reads, from any but the first.
LEMMA Writable ==
    ASSUME PipeInv, NEW s \in AllStages
    PROVE  LET found == findWritableStage(pipe, s)
           IN  /\ found = NoStage \/ (InPipe(found) /\ found \in Writing)
                  \/ found = pipe.next[s]
               /\ InPipe(s) /\ s # LastStage =>
                     InPipe(found) /\ found \in Writing /\ found # FirstStage
<1> DEFINE found == findWritableStage(pipe, s)
           w == CHOOSE w : Walks(w, pipe.next, Writing)
<1>1. PICK a \in Seq(Stages) :
          /\ IsInjective(a) /\ Linked(pipe, a)
          /\ \A x : InPipe(x) <=> \E i \in 1..Len(a) + 2 : Chain(a)[i] = x
  BY PipeChain
<1> DEFINE n == Len(a) + 2
           c == Chain(a)
<1>2. /\ Len(a) \in Nat /\ DOMAIN c = 1..n /\ \A i \in 1..n : c[i] \in AllStages
      /\ c[1] = FirstStage /\ c[n] = LastStage
      /\ \A i, j \in 1..n : c[i] = c[j] => i = j
      /\ \A x \in AllStages : (\A i \in 1..n : c[i] # x) =>
            x \in Stages /\ \A i \in 1..Len(a) : a[i] # x
  BY <1>1, ChainStages
<1>3. /\ pipe.next \in Links /\ pipe.next[LastStage] = NoStage
      /\ \A i \in 1..Len(a) + 1 : pipe.next[c[i]] = c[i + 1]
      /\ \A x \in Stages : (\A i \in 1..Len(a) : a[i] # x) => pipe.next[x] = NoStage
  BY <1>1 DEF Linked, Pipes
<1>4. c \in [1..n -> AllStages] /\ n \in Nat /\ n > 0 /\ n - 1 = Len(a) + 1
  <2>1. n \in Nat /\ n > 0 /\ n - 1 = Len(a) + 1
    BY <1>2
  <2>2. c = [i \in 1..n |-> c[i]]
    BY DEF Chain
  <2> QED BY <1>2, <2>1, <2>2
<1> HIDE DEF n, c
<1>5. Writing \in SUBSET AllStages /\ LastStage \in Writing /\ FirstStage \notin Writing
      /\ NoStage \notin AllStages
  BY PipelineAssumption
<1>6. /\ w[NoStage] = NoStage
      /\ \A x \in AllStages : (\A i \in 1..n : c[i] # x) => w[x] \in {x, NoStage}
      /\ \A i \in 1..n : \E k \in i..n :
            /\ w[c[i]] = c[k] /\ c[k] \in Writing
            /\ \A j \in i..k - 1 : c[j] \notin Writing
  <2>1. \A i \in 1..n - 1 : pipe.next[c[i]] = c[i + 1]
    BY <1>3, <1>4
  <2>2. \A x \in AllStages : (\A i \in 1..n : c[i] # x) => pipe.next[x] = NoStage
    BY <1>2, <1>3
  <2> HIDE DEF w
  <2>3. c[n] \in Writing
    BY <1>2, <1>5
  <2> QED BY <1>2, <1>3, <1>4, <1>5, <2>1, <2>2, <2>3, WalkStops DEF w
<1>7. found = w[pipe.next[s]]
  BY DEF findWritableStage, Walks
<1> HIDE DEF found, w
<1>8. pipe.next[s] \in AllStages \cup {NoStage}
  BY <1>3 DEF Links
<1>9. ASSUME NEW i \in 1..n, pipe.next[s] = c[i]
      PROVE  InPipe(found) /\ found \in Writing
  <2>1. PICK k \in i..n : w[c[i]] = c[k] /\ c[k] \in Writing
    BY <1>6
  <2>2. k \in 1..n
    BY <1>4
  <2> QED BY <1>1, <1>7, <1>9, <2>1, <2>2 DEF n, c
<1>10. found = NoStage \/ (InPipe(found) /\ found \in Writing) \/ found = pipe.next[s]
  BY <1>6, <1>7, <1>8, <1>9
<1>11. ASSUME InPipe(s), s # LastStage
       PROVE  InPipe(found) /\ found \in Writing
  <2>1. PICK i \in 1..n : c[i] = s
    BY <1>1, <1>11 DEF n, c
  <2>2. i # n
    BY <1>2, <1>11, <2>1
  <2>3. i \in 1..Len(a) + 1 /\ i + 1 \in 1..n
    BY <1>4, <2>2
  <2>4. pipe.next[s] = c[i + 1]
    BY <1>3, <2>1, <2>3
  <2> QED BY <1>9, <2>3, <2>4
<1> QED BY <1>5, <1>10, <1>11 DEF found

LEMMA Readable ==
    ASSUME PipeInv, NEW s \in AllStages
    PROVE  LET found == findReadableStage(pipe, s)
           IN  /\ found = NoStage \/ (InPipe(found) /\ found \in Reading)
                  \/ found = pipe.prev[s]
               /\ InPipe(s) /\ s # FirstStage => InPipe(found) /\ found \in Reading
               /\ s = FirstStage => found = NoStage
<1> DEFINE found == findReadableStage(pipe, s)
           w == CHOOSE w : Walks(w, pipe.prev, Reading)
<1>1. PICK a \in Seq(Stages) :
          /\ IsInjective(a) /\ Linked(pipe, a)
          /\ \A x : InPipe(x) <=> \E i \in 1..Len(a) + 2 : Chain(a)[i] = x
  BY PipeChain
<1> DEFINE n == Len(a) + 2
           c == Chain(a)
           back == [i \in 1..n |-> c[n + 1 - i]]
<1>2. /\ Len(a) \in Nat /\ DOMAIN c = 1..n /\ \A i \in 1..n : c[i] \in AllStages
      /\ c[1] = FirstStage /\ c[n] = LastStage
      /\ \A i, j \in 1..n : c[i] = c[j] => i = j
      /\ \A x \in AllStages : (\A i \in 1..n : c[i] # x) =>
            x \in Stages /\ \A i \in 1..Len(a) : a[i] # x
  BY <1>1, ChainStages
<1>3. /\ pipe.prev \in Links /\ pipe.prev[FirstStage] = NoStage
      /\ \A i \in 1..Len(a) + 1 : pipe.prev[c[i + 1]] = c[i]
      /\ \A x \in Stages : (\A i \in 1..Len(a) : a[i] # x) => pipe.prev[x] = NoStage
  BY <1>1 DEF Linked, Pipes
<1>4. n \in Nat /\ n > 0 /\ n - 1 = Len(a) + 1
  BY <1>2
<1> HIDE DEF n, c
<1>5. Reading \in SUBSET AllStages /\ FirstStage \in Reading /\ NoStage \notin AllStages
  BY PipelineAssumption
<1>6. \A i \in 1..n : n + 1 - i \in 1..n /\ n + 1 - (n + 1 - i) = i
  BY <1>4
<1>7. /\ back \in [1..n -> AllStages] /\ back[n] = FirstStage
      /\ \A i, j \in 1..n : back[i] = back[j] => i = j
      /\ \A i \in 1..n - 1 : pipe.prev[back[i]] = back[i + 1]
      /\ \A x \in AllStages : (\A i \in 1..n : back[i] # x) => pipe.prev[x] = NoStage
  <2>1. back \in [1..n -> AllStages]
    BY <1>2, <1>6
  <2>2. back[n] = FirstStage
    <3>1. n \in 1..n /\ n + 1 - n = 1
      BY <1>4
    <3> QED BY <1>2, <3>1
  <2>3. ASSUME NEW i \in 1..n, NEW j \in 1..n, back[i] = back[j] PROVE i = j
    <3>1. n + 1 - i = n + 1 - j
      BY <1>2, <1>6, <2>3
    <3> QED BY <1>6, <3>1
  <2>4. ASSUME NEW i \in 1..n - 1 PROVE pipe.prev[back[i]] = back[i + 1]
    <3>1. i \in 1..n /\ i + 1 \in 1..n /\ n + 1 - (i + 1) \in 1..Len(a) + 1
          /\ (n + 1 - (i + 1)) + 1 = n + 1 - i
      BY <1>4
    <3>2. pipe.prev[c[(n + 1 - (i + 1)) + 1]] = c[n + 1 - (i + 1)]
      BY <1>3, <3>1
    <3> QED BY <3>1, <3>2
  <2>5. ASSUME NEW x \in AllStages, \A i \in 1..n : back[i] # x
        PROVE  pipe.prev[x] = NoStage
    <3>1. \A i \in 1..n : c[i] # x
      <4> TAKE i \in 1..n
      <4>1. back[n + 1 - i] = c[i]
        BY <1>6
      <4> QED BY <1>6, <2>5, <4>1
    <3> QED BY <1>2, <1>3, <2>5, <3>1
  <2> QED BY <2>1, <2>2, <2>3, <2>4, <2>5
<1>8. \A i \in 1..n : InPipe(back[i]) /\ \E j \in 1..n : c[i] = back[j]
  <2> TAKE i \in 1..n
  <2>1. back[i] = c[n + 1 - i] /\ back[n + 1 - i] = c[i]
    BY <1>6
  <2> HIDE DEF back
  <2> QED BY <1>1, <1>6, <2>1 DEF n, c
<1> HIDE DEF back
<1>9. /\ w[NoStage] = NoStage
      /\ \A x \in AllStages : (\A i \in 1..n : back[i] # x) => w[x] \in {x, NoStage}
      /\ \A i \in 1..n : \E k \in i..n :
            /\ w[back[i]] = back[k] /\ back[k] \in Reading
            /\ \A j \in i..k - 1 : back[j] \notin Reading
  <2> HIDE DEF w
  <2>1. back[n] \in Reading
    BY <1>5, <1>7
  <2> QED BY <1>3, <1>4, <1>5, <1>7, <2>1, WalkStops DEF w
<1>10. found = w[pipe.prev[s]]
  BY DEF findReadableStage, Walks
<1> HIDE DEF found, w
<1>11. pipe.prev[s] \in AllStages \cup {NoStage}
  BY <1>3 DEF Links
<1>12. ASSUME NEW i \in 1..n, pipe.prev[s] = back[i]
       PROVE  InPipe(found) /\ found \in Reading
  <2>1. PICK k \in i..n : w[back[i]] = back[k] /\ back[k] \in Reading
    BY <1>9
  <2>2. k \in 1..n
    BY <1>4
  <2> QED BY <1>8, <1>10, <1>12, <2>1, <2>2
<1>13. found = NoStage \/ (InPipe(found) /\ found \in Reading) \/ found = pipe.prev[s]
  BY <1>9, <1>10, <1>11, <1>12
<1>14. ASSUME InPipe(s), s # FirstStage
       PROVE  InPipe(found) /\ found \in Reading
  <2>1. PICK i \in 1..n : c[i] = s
    BY <1>1, <1>14 DEF n, c
  <2>2. i # 1
    BY <1>2, <1>14, <2>1
  <2>3. i - 1 \in 1..Len(a) + 1 /\ (i - 1) + 1 = i /\ i - 1 \in 1..n
    BY <1>4, <2>2
  <2>4. pipe.prev[s] = c[i - 1]
    <3>1. pipe.prev[c[(i - 1) + 1]] = c[i - 1]
      BY <1>3, <2>3
    <3> QED BY <2>1, <2>3, <3>1
  <2>5. PICK j \in 1..n : c[i - 1] = back[j]
    BY <1>8, <2>3
  <2> QED BY <1>12, <2>4, <2>5
<1>15. s = FirstStage => found = NoStage
  BY <1>3, <1>9, <1>10
<1> QED BY <1>13, <1>14, <1>15 DEF found

------------------------------------------------------------------------------
\* What the threads of a context have to do.

\* An item is about a request only on the way of the request's bytes: with a write
\* for a stage of the pipeline behind the first, a call of write, or its answer.
Sound ==
    {x \in Works :
        /\ x.do \in {"tell", "post"} =>
              /\ x.what \in Events /\ x.stage \in AllStages /\ x.n \in Requests \cup {0}
              /\ x.n # 0 => x.what = "write" /\ InPipe(x.stage) /\ x.stage # FirstStage
        /\ x.do = "call" =>
              /\ x.what \in Methods /\ x.n \in Requests \cup {0}
              /\ x.n # 0 => x.what = "write"
        /\ x.do = "listen" => x.n \in 1..calls /\ method[x.n] # "close"
        /\ x.do = "answer" => x.n \in Requests}

\* A task of the worker tells a stage, or a request.
TasksInv ==
    \A i \in 1..Len(tasks) :
        \/ \E x \in Sound : x.do = "tell" /\ x.n = 0 /\ tasks[i] = <<x>>
        \/ \E r \in Requests : tasks[i] = Answer(r)

\* A future is listened to while it is pending and after the call that made it,
\* before which its thread does nothing else.
ListenInv ==
    /\ \A f \in listening : f \in 1..calls /\ future[f] = "pending" /\ method[f] # "close"
    /\ \A t \in Threads : \A i \in 1..Len(todo[t]) : todo[t][i].do = "listen" =>
          /\ i = 1 /\ todo[t][i].n \notin listening
          /\ pc[t] # "idle" => job[t].future = todo[t][i].n
          /\ \A u \in Threads :
                todo[u] # <<>> /\ Head(todo[u]).do = "listen" /\ Head(todo[u]).n = todo[t][i].n
                   => u = t

RequestOfInv ==
    \A f \in Futures : requestOf[f] # 0 => f \in 1..calls /\ method[f] = "write"

\* The items that hold a request.
Holding(r, of) ==
    {x \in Works : \/ x.do \in {"tell", "call", "post", "answer"} /\ x.n = r
                   \/ x.do = "listen" /\ of[x.n] = r}

Has(s, C) == \E i \in 1..Len(s) : s[i] \in C
Once(s, C) == \A i, j \in 1..Len(s) : s[i] \in C /\ s[j] \in C => i = j

\* Who may hold a request: the calls of write() that wait, the tasks of the worker,
\* what a thread has to do, and a listener.
InWrites(r) == Has(writes, {r})
InTasks(r) == Has(tasks, {Answer(r)})
InTodo(t, r) == Has(todo[t], Holding(r, requestOf))
Heard(r) == \E f \in listening : requestOf[f] = r

Held(r) == InWrites(r) \/ InTasks(r) \/ Heard(r) \/ \E t \in Threads : InTodo(t, r)

\* Each holds it once ...
HeldOnce(r) ==
    /\ Once(writes, {r}) /\ Once(tasks, {Answer(r)})
    /\ \A t \in Threads : Once(todo[t], Holding(r, requestOf))
    /\ \A f, g \in listening : requestOf[f] = r /\ requestOf[g] = r => f = g

\* ... and only one does.
HeldAlone(r) ==
    /\ ~(InWrites(r) /\ InTasks(r)) /\ ~(InWrites(r) /\ Heard(r)) /\ ~(InTasks(r) /\ Heard(r))
    /\ \A t \in Threads : InTodo(t, r) =>
          /\ ~InWrites(r) /\ ~InTasks(r) /\ ~Heard(r)
          /\ \A u \in Threads : InTodo(u, r) => u = t

\* It is held until it is answered or lost.
AnswerInv(r) ==
    /\ answers[r] \in {0, 1}
    /\ answers[r] = 1 => ~Held(r)
    /\ r > written => answers[r] = 0 /\ ~Held(r)
    /\ r <= written /\ answers[r] = 0 => Held(r) \/ r \in lost

RequestInv == \A r \in Requests : HeldOnce(r) /\ HeldAlone(r) /\ AnswerInv(r)

\* What the types and the answers rest on, besides the invariant of the handler.
WorkInv == ContextTypeOK /\ (\A t \in Threads : todo[t] \in Seq(Sound)) /\ TasksInv

ContextIInv == PipeInv /\ WorkInv /\ ListenInv /\ RequestOfInv /\ RequestInv

------------------------------------------------------------------------------
\* Sequences whose elements are in a set, once.

LEMMA HasNone ==
    ASSUME NEW S, NEW s \in Seq(S), NEW C, S \cap C = {}
    PROVE  ~Has(s, C) /\ Once(s, C)
BY DEF Has, Once

LEMMA HasOne ==
    ASSUME NEW x, NEW C
    PROVE  (Has(<<x>>, C) <=> x \in C) /\ Once(<<x>>, C)
<1>1. Len(<<x>>) = 1 /\ <<x>>[1] = x /\ \A i \in 1..1 : i = 1
  OBVIOUS
<1> QED BY <1>1 DEF Has, Once

LEMMA HasConcat ==
    ASSUME NEW S, NEW a \in Seq(S), NEW b \in Seq(S), NEW C
    PROVE  /\ a \o b \in Seq(S)
           /\ Has(a \o b, C) <=> Has(a, C) \/ Has(b, C)
           /\ Once(a, C) /\ Once(b, C) /\ ~(Has(a, C) /\ Has(b, C)) => Once(a \o b, C)
<1> DEFINE m == Len(a)
           n == Len(b)
           c == a \o b
<1>1. /\ m \in Nat /\ n \in Nat /\ c \in Seq(S) /\ Len(c) = m + n
      /\ \A i \in 1..m + n : c[i] = IF i <= m THEN a[i] ELSE b[i - m]
  BY ConcatProperties
<1>2. \A i \in 1..m : i \in 1..m + n /\ c[i] = a[i]
  BY <1>1
<1>3. \A i \in 1..n : i + m \in 1..m + n /\ c[i + m] = b[i]
  <2> TAKE i \in 1..n
  <2>1. i + m \in 1..m + n /\ ~(i + m <= m) /\ (i + m) - m = i
    BY <1>1
  <2> QED BY <1>1, <2>1
<1>4. \A i \in 1..m + n : \/ i \in 1..m /\ c[i] = a[i]
                          \/ i - m \in 1..n /\ c[i] = b[i - m]
  BY <1>1
<1> HIDE DEF c
<1>5. Has(c, C) <=> Has(a, C) \/ Has(b, C)
  BY <1>1, <1>2, <1>3, <1>4 DEF Has
<1>6. ASSUME Once(a, C), Once(b, C), ~(Has(a, C) /\ Has(b, C)) PROVE Once(c, C)
  <2> SUFFICES ASSUME NEW i \in 1..m + n, NEW j \in 1..m + n, c[i] \in C, c[j] \in C
               PROVE  i = j
    BY <1>1 DEF Once
  <2>1. CASE i \in 1..m /\ c[i] = a[i] /\ j \in 1..m /\ c[j] = a[j]
    BY <1>6, <2>1 DEF Once
  <2>2. CASE i - m \in 1..n /\ c[i] = b[i - m] /\ j - m \in 1..n /\ c[j] = b[j - m]
    <3>1. i - m = j - m
      BY <1>6, <2>2 DEF Once
    <3> QED BY <1>1, <3>1
  <2>3. CASE i \in 1..m /\ c[i] = a[i] /\ j - m \in 1..n /\ c[j] = b[j - m]
    BY <1>6, <2>3 DEF Has
  <2>4. CASE j \in 1..m /\ c[j] = a[j] /\ i - m \in 1..n /\ c[i] = b[i - m]
    BY <1>6, <2>4 DEF Has
  <2> QED BY <1>4, <2>1, <2>2, <2>3, <2>4
<1> QED BY <1>1, <1>5, <1>6 DEF c

LEMMA HasTail ==
    ASSUME NEW S, NEW s \in Seq(S), s # <<>>, NEW C, Once(s, C)
    PROVE  /\ Tail(s) \in Seq(S) /\ Once(Tail(s), C)
           /\ Has(s, C) <=> Head(s) \in C \/ Has(Tail(s), C)
           /\ Head(s) \in C => ~Has(Tail(s), C)
<1> DEFINE n == Len(s)
           r == Tail(s)
<1>1. /\ n \in Nat /\ n >= 1 /\ r \in Seq(S) /\ Len(r) = n - 1 /\ Head(s) = s[1]
      /\ \A i \in 1..n - 1 : r[i] = s[i + 1]
  BY HeadTailProperties
<1>2. \A i \in 1..n : i = 1 \/ (i - 1 \in 1..n - 1 /\ r[i - 1] = s[i])
  <2> TAKE i \in 1..n
  <2>1. i = 1 \/ (i - 1 \in 1..n - 1 /\ (i - 1) + 1 = i)
    BY <1>1
  <2> QED BY <1>1, <2>1
<1>3. \A i \in 1..n - 1 : i + 1 \in 1..n /\ i + 1 # 1 /\ i \in Int
  BY <1>1
<1>4. 1 \in 1..n
  BY <1>1
<1> HIDE DEF r
<1>5. Has(s, C) <=> Head(s) \in C \/ Has(r, C)
  BY <1>1, <1>2, <1>3, <1>4 DEF Has
<1>6. Once(r, C)
  <2> SUFFICES ASSUME NEW i \in 1..n - 1, NEW j \in 1..n - 1, r[i] \in C, r[j] \in C
               PROVE  i = j
    BY <1>1 DEF Once
  <2>1. i + 1 = j + 1
    BY <1>1, <1>3 DEF Once
  <2> QED BY <1>3, <2>1
<1>7. Head(s) \in C => ~Has(r, C)
  BY <1>1, <1>3, <1>4 DEF Has, Once
<1> QED BY <1>1, <1>5, <1>6, <1>7 DEF r

\* What Left drops holds nothing.
LEMMA LeftKeeps ==
    ASSUME NEW S, S \subseteq Works, NEW s \in Seq(S)
    PROVE  /\ Left(s) \in Seq(S)
           /\ s # <<>> /\ Head(s).do # "endTry" => Left(s) = s
           /\ \A C : (\A x \in C : x.do # "endTry") =>
                 (Has(Left(s), C) <=> Has(s, C)) /\ (Once(s, C) => Once(Left(s), C))
<1> DEFINE n == Len(s)
           I == {i \in 1..n : s[i].do # "endTry"}
<1>1. n \in Nat /\ I \subseteq Nat /\ (\A i \in 1..n : s[i] \in S) /\ DOMAIN s = 1..n
  OBVIOUS
<1>2. Left(s) = IF I = {} THEN <<>> ELSE SubSeq(s, Min(I), n)
  <2>1. Min(I) = 0 /\ I # {} => Min(I) \in Nat
    OBVIOUS
  <2>2. I # {} => Min(I) \in I
    BY <1>1, LeastElement DEF Min
  <2>3. Min(I) \in I => Min(I) # 0
    BY <1>1
  <2> QED BY <1>1, <2>2, <2>3 DEF Left, SelectInSeq
<1>3. CASE I = {}
  <2>1. Left(s) = <<>> /\ Left(s) \in Seq(S) /\ Len(Left(s)) = 0
    BY <1>2, <1>3
  <2>2. ~(s # <<>> /\ Head(s).do # "endTry")
    <3> SUFFICES ASSUME s # <<>> PROVE s[1].do = "endTry" /\ Head(s) = s[1]
      OBVIOUS
    <3>1. 1 \in 1..n
      BY <1>1
    <3> QED BY <1>3, <3>1
  <2>3. ASSUME NEW C, \A x \in C : x.do # "endTry"
        PROVE  ~Has(s, C) /\ ~Has(Left(s), C) /\ Once(Left(s), C)
    BY <1>1, <1>3, <2>1, <2>3 DEF Has, Once
  <2> QED BY <2>1, <2>2, <2>3
<1>4. CASE I # {}
  <2> DEFINE k == Min(I)
             l == SubSeq(s, k, n)
  <2>1. k \in I /\ \A i \in I : k <= i
    BY <1>1, <1>4, LeastElement DEF Min
  <2> HIDE DEF k
  <2>2. k \in 1..n /\ \A i \in 1..n : i < k => i \notin I
    BY <1>1, <2>1
  <2>3. l \in Seq(S) /\ Len(l) = (n - k) + 1 /\ \A i \in 1..(n - k) + 1 : l[i] = s[k + i - 1]
    <3>1. k \in Nat /\ k >= 1 /\ k <= n /\ n - k + 1 = (n - k) + 1
      BY <1>1, <2>2
    <3>2. l = [i \in 1..n - k + 1 |-> s[k + i - 1]]
      BY <1>1, <3>1
    <3>3. \A i \in 1..n - k + 1 : k + i - 1 \in 1..n
      BY <1>1, <3>1
    <3>4. l \in Seq(S) /\ Len(l) = n - k + 1
      <4>1. n - k + 1 \in Nat /\ \A i \in 1..n - k + 1 : s[k + i - 1] \in S
        BY <1>1, <3>1, <3>3
      <4> HIDE DEF l
      <4> QED BY <3>2, <4>1, IsASeq
    <3> QED BY <3>1, <3>2, <3>4
  <2>4. Left(s) = l
    BY <1>2, <1>4 DEF k
  <2> HIDE DEF l
  <2>5. \A i \in 1..n : i < k \/ (i - k + 1 \in 1..(n - k) + 1 /\ l[i - k + 1] = s[i])
    <3> TAKE i \in 1..n
    <3>1. i < k \/ (i - k + 1 \in 1..(n - k) + 1 /\ k + (i - k + 1) - 1 = i)
      BY <1>1, <2>2
    <3> QED BY <2>3, <3>1
  <2>6. \A i \in 1..(n - k) + 1 : k + i - 1 \in 1..n /\ l[i] = s[k + i - 1] /\ i \in Int
    BY <1>1, <2>2, <2>3
  <2>7. ASSUME NEW C, \A x \in C : x.do # "endTry"
        PROVE  (Has(l, C) <=> Has(s, C)) /\ (Once(s, C) => Once(l, C))
    <3>1. \A i \in 1..n : i < k => s[i] \notin C
      BY <2>2, <2>7
    <3>2. Has(l, C) <=> Has(s, C)
      BY <2>3, <2>5, <2>6, <3>1 DEF Has
    <3>3. ASSUME Once(s, C) PROVE Once(l, C)
      <4> SUFFICES ASSUME NEW i \in 1..(n - k) + 1, NEW j \in 1..(n - k) + 1,
                          l[i] \in C, l[j] \in C
                   PROVE  i = j
        BY <2>3 DEF Once
      <4>1. k + i - 1 = k + j - 1
        BY <2>6, <3>3 DEF Once
      <4> QED BY <2>2, <2>6, <4>1
    <3> QED BY <3>2, <3>3
  <2>8. ASSUME s # <<>>, Head(s).do # "endTry" PROVE l = s
    <3>1. 1 \in I
      BY <1>1, <2>8
    <3>2. k = 1
      BY <1>1, <2>1, <2>2, <3>1
    <3> QED BY <1>1, <2>3, <3>2, SeqEqual
  <2> QED BY <2>3, <2>4, <2>7, <2>8
<1> QED BY <1>3, <1>4

------------------------------------------------------------------------------
\* Items that are about no request, and items that are no listening.
Blank == {x \in Sound : x.n = 0 /\ x.do # "listen"}
Talk == {x \in Sound : x.do # "listen"}

LEMMA Kinds0 ==
    /\ Blank \subseteq Talk /\ Talk \subseteq Sound /\ Sound \subseteq Works
    /\ \A of : \A r \in Requests : Blank \cap Holding(r, of) = {}
    /\ \A r, of : \A x \in Holding(r, of) : x.do # "endTry"
<1>1. \A r \in Requests : r # 0
  BY IOPipelineAssumption DEF Requests
<1> QED BY <1>1 DEF Blank, Talk, Sound, Holding, Requests

LEMMA Numbers == 0 \in Futures /\ Requests \subseteq Nat \ {0} /\ Futures \subseteq Nat
BY IOPipelineAssumption, SocketAssumption DEF Futures, Requests

\* Each item that is made is sound.
LEMMA Made1 ==
    /\ \A e \in Events, s \in AllStages : Work("tell", e, s, 0) \in Blank
    /\ \A e \in Events, s \in AllStages : Work("post", e, s, 0) \in Blank
    /\ \A m \in Methods : Work("call", m, NoStage, 0) \in Blank
    /\ Work("throw", "none", NoStage, 0) \in Blank
    /\ Work("endTry", "none", NoStage, 0) \in Blank
BY Numbers DEF Blank, Sound, Works, Work

LEMMA Made2 ==
    ASSUME NEW r \in Requests
    PROVE  /\ \A s \in AllStages : InPipe(s) /\ s # FirstStage =>
                  Work("tell", "write", s, r) \in Talk /\ Work("post", "write", s, r) \in Talk
           /\ Work("call", "write", NoStage, r) \in Talk
           /\ Work("answer", "none", NoStage, r) \in Talk
BY DEF Talk, Sound, Works, Work, Events, Methods

LEMMA Follows ==
    ASSUME PipeInv, NEW e \in Events, NEW s \in AllStages
    PROVE  /\ Following(pipe, e, s) \in AllStages \cup {NoStage}
           /\ e = "write" /\ InPipe(s) /\ s # LastStage =>
                 LET f == Following(pipe, e, s)
                 IN  f \in AllStages /\ InPipe(f) /\ f # FirstStage /\ f # NoStage
<1>1. PICK a \in Seq(Stages) : Linked(pipe, a)
  BY PipeChain
<1>2. pipe.next[s] \in AllStages \cup {NoStage} /\ pipe.prev[s] \in AllStages \cup {NoStage}
  BY <1>1 DEF Linked, Pipes, Links
<1>3. Writing \subseteq AllStages /\ Reading \subseteq AllStages /\ NoStage \notin AllStages
  BY PipelineAssumption
<1> DEFINE w == findWritableStage(pipe, s)
           d == findReadableStage(pipe, s)
<1>4. /\ w = NoStage \/ (InPipe(w) /\ w \in Writing) \/ w = pipe.next[s]
      /\ InPipe(s) /\ s # LastStage => InPipe(w) /\ w \in Writing /\ w # FirstStage
  BY Writable
<1>5. d = NoStage \/ (InPipe(d) /\ d \in Reading) \/ d = pipe.prev[s]
  BY Readable
<1>6. w \in AllStages \cup {NoStage} /\ d \in AllStages \cup {NoStage}
  BY <1>2, <1>3, <1>4, <1>5
<1>7. \/ e \in {"active", "inactive", "exception"} /\ Following(pipe, e, s) = pipe.next[s]
      \/ e \in {"write", "writeComplete"} /\ Following(pipe, e, s) = w
      \/ e \in {"read", "readComplete"} /\ Following(pipe, e, s) = d
  <2> HIDE DEF w, d
  <2>1. /\ e \in {"active", "inactive", "exception"} => Following(pipe, e, s) = pipe.next[s]
        /\ e \in {"write", "writeComplete"} => Following(pipe, e, s) = w
        /\ e \in {"read", "readComplete"} => Following(pipe, e, s) = d
    BY DEF Following, w, d
  <2> QED BY <2>1 DEF Events
<1> HIDE DEF w, d
<1> QED BY <1>2, <1>3, <1>4, <1>6, <1>7

\* Where Pipeline begins.
LEMMA Begins ==
    ASSUME PipeInv
    PROVE  /\ \A e \in {"active", "inactive", "writeComplete", "read", "readComplete"} :
                  Head(Entry(pipe, e)) \in AllStages
           /\ LET s == Head(Entry(pipe, "write"))
              IN  s \in AllStages /\ InPipe(s) /\ s # FirstStage
           /\ Entry(pipe, "exception") \in Seq(AllStages)
<1>1. PICK a \in Seq(Stages) : Linked(pipe, a)
  BY PipeChain
<1>2. pipe.stages \in Seq(Stages)
  BY <1>1 DEF Linked, Pipes
<1>3. FirstStage \in AllStages /\ LastStage \in AllStages /\ Stages \subseteq AllStages
      /\ FirstStage # LastStage /\ FirstStage \notin Stages
  BY PipelineAssumption DEF AllStages
<1>4. \A e \in {"active", "inactive", "writeComplete", "read", "readComplete"} :
          Entry(pipe, e) = <<FirstStage>> \/ Entry(pipe, e) = <<LastStage>>
  BY DEF Entry
<1> DEFINE l == Append(pipe.stages, LastStage)
<1>5. Entry(pipe, "write") = <<Head(l)>> /\ Entry(pipe, "exception") = l
  BY DEF Entry
<1>6. l \in Seq(AllStages)
  <2>1. pipe.stages \in Seq(AllStages)
    BY <1>2, <1>3, SeqMonotonic
  <2> QED BY <1>3, <2>1
<1>7. Head(l) = l[1] /\ (pipe.stages = <<>> => l[1] = LastStage)
      /\ (pipe.stages # <<>> => l[1] = pipe.stages[1] /\ 1 \in DOMAIN pipe.stages
                                /\ pipe.stages[1] \in Stages)
  <2>1. l # <<>> /\ Head(l) = l[1]
    <3>1. Len(l) = Len(pipe.stages) + 1 /\ Len(pipe.stages) \in Nat
      BY <1>2
    <3> HIDE DEF l
    <3> QED BY <1>6, <3>1, HeadTailProperties
  <2>2. Len(pipe.stages) \in Nat /\ DOMAIN pipe.stages = 1..Len(pipe.stages)
        /\ \A i \in 1..Len(pipe.stages) : l[i] = pipe.stages[i] /\ pipe.stages[i] \in Stages
    BY <1>2
  <2>3. pipe.stages = <<>> => l[1] = LastStage
    BY <1>2
  <2>4. pipe.stages # <<>> => 1 \in 1..Len(pipe.stages)
    BY <1>2
  <2> QED BY <2>1, <2>2, <2>3, <2>4
<1>8. Head(l) \in AllStages /\ InPipe(Head(l)) /\ Head(l) # FirstStage
  <2>1. CASE pipe.stages = <<>>
    BY <1>3, <1>7, <2>1 DEF InPipe
  <2>2. CASE pipe.stages # <<>>
    BY <1>3, <1>7, <2>2 DEF InPipe, Range
  <2> QED BY <2>1, <2>2
<1> HIDE DEF l
<1> QED BY <1>3, <1>4, <1>5, <1>6, <1>8

\* What the code makes of them.
LEMMA Tells ==
    ASSUME PipeInv
    PROVE  /\ \A e \in Events, s \in AllStages : Tell(e, s, 0) \in Seq(Blank)
           /\ \A m \in Methods : CallOf(m, 0) \in Seq(Blank)
           /\ EndTry \in Seq(Blank) /\ Throw \in Seq(Blank)
           /\ \A e \in {"active", "inactive", "writeComplete", "read", "readComplete"} :
                  Notify(e) \in Seq(Blank)
           /\ \A e \in Events, s \in AllStages : invoke(e, s, 0) \in Seq(Blank)
           /\ Exceptions \in Seq(Blank)
<1>1. \A e \in Events, s \in AllStages : Tell(e, s, 0) \in Seq(Blank)
  BY Made1 DEF Tell
<1>2. \A m \in Methods : CallOf(m, 0) \in Seq(Blank)
  BY Made1 DEF CallOf
<1>3. EndTry \in Seq(Blank) /\ Throw \in Seq(Blank)
  BY Made1 DEF EndTry, Throw
<1>4. ASSUME NEW e \in {"active", "inactive", "writeComplete", "read", "readComplete"}
      PROVE  Notify(e) \in Seq(Blank)
  <2>1. e \in Events /\ Head(Entry(pipe, e)) \in AllStages
    BY Begins DEF Events
  <2>2. Tell(e, Head(Entry(pipe, e)), 0) \in Seq(Blank)
    BY <1>1, <2>1
  <2> QED BY <1>3, <2>2 DEF Notify
<1>5. ASSUME NEW e \in Events, NEW s \in AllStages PROVE invoke(e, s, 0) \in Seq(Blank)
  <2> DEFINE f == Following(pipe, e, s)
  <2>1. f \in AllStages \cup {NoStage}
    BY Follows
  <2>2. invoke(e, s, 0) = IF f = NoStage THEN <<>>
                          ELSE IF f \in Remote THEN <<Work("post", e, f, 0)>>
                          ELSE Tell(e, f, 0)
    BY DEF invoke
  <2> HIDE DEF f
  <2>3. CASE f = NoStage
    <3>1. invoke(e, s, 0) = <<>>
      BY <2>2, <2>3
    <3>2. <<>> \in Seq(Blank)
      OBVIOUS
    <3> QED BY <3>1, <3>2
  <2>4. CASE f # NoStage
    <3>1. Tell(e, f, 0) \in Seq(Blank) /\ Work("post", e, f, 0) \in Blank
      BY <1>1, <2>1, <2>4, Made1
    <3>2. invoke(e, s, 0) \in {<<Work("post", e, f, 0)>>, Tell(e, f, 0)}
      BY <2>2, <2>4
    <3>3. <<Work("post", e, f, 0)>> \in Seq(Blank)
      BY <3>1
    <3> QED BY <3>1, <3>2, <3>3
  <2> QED BY <2>3, <2>4
<1>6. Exceptions \in Seq(Blank)
  <2> DEFINE told == Entry(pipe, "exception")
  <2>1. told \in Seq(AllStages)
    BY Begins
  <2>2. Exceptions = [i \in DOMAIN told |-> Work("tell", "exception", told[i], 0)]
    BY DEF Exceptions
  <2> HIDE DEF told
  <2>3. Len(told) \in Nat /\ DOMAIN told = 1..Len(told)
        /\ \A i \in 1..Len(told) : told[i] \in AllStages
    BY <2>1
  <2>4. \A i \in 1..Len(told) : Work("tell", "exception", told[i], 0) \in Blank
    BY <2>3, Made1 DEF Events
  <2> QED BY <2>2, <2>3, <2>4, IsASeq
<1> QED BY <1>1, <1>2, <1>3, <1>4, <1>5, <1>6

\* A request goes on to one stage, and the last one calls write.
LEMMA GoesOn ==
    ASSUME PipeInv, NEW r \in Requests, NEW s \in AllStages, InPipe(s), s # LastStage
    PROVE  \E x \in Talk : x \in Holding(r, requestOf) /\ invoke("write", s, r) = <<x>>
                           /\ \A q \in Requests : x \in Holding(q, requestOf) => q = r
<1> DEFINE f == Following(pipe, "write", s)
<1>1. f \in AllStages /\ InPipe(f) /\ f # FirstStage /\ f # NoStage
  BY Follows DEF Events
<1>2. invoke("write", s, r) = IF f = NoStage THEN <<>>
                              ELSE IF f \in Remote THEN <<Work("post", "write", f, r)>>
                              ELSE Tell("write", f, r)
  BY DEF invoke
<1> HIDE DEF f
<1>3. Work("post", "write", f, r) \in Talk /\ Work("tell", "write", f, r) \in Talk
  BY <1>1, Made2
<1>4. PICK x \in {Work("post", "write", f, r), Work("tell", "write", f, r)} :
          invoke("write", s, r) = <<x>>
  BY <1>1, <1>2 DEF Tell
<1>5. x \in Talk /\ x \in Works /\ x.do \in {"tell", "post"} /\ x.n = r
  BY <1>3, <1>4, Kinds0 DEF Work
<1> QED BY <1>4, <1>5 DEF Holding

\* write() of the context.
LEMMA Begun ==
    ASSUME PipeInv, NEW r \in Requests
    PROVE  /\ WriteTask(r) \in Seq(Talk) /\ WriteTask(r) # <<>>
           /\ Has(WriteTask(r), Holding(r, requestOf))
           /\ \A q \in Requests : /\ Has(WriteTask(r), Holding(q, requestOf)) => q = r
                                  /\ Once(WriteTask(r), Holding(q, requestOf))
<1> DEFINE s == Head(Entry(pipe, "write"))
           x == Work("tell", "write", s, r)
           e == EndTry \o EndTry
<1>1. s \in AllStages /\ InPipe(s) /\ s # FirstStage
  BY Begins
<1> HIDE DEF s
<1>2. x \in Talk /\ x \in Works /\ x.do = "tell" /\ x.n = r
  <2>1. x \in Talk
    BY <1>1, Made2
  <2> QED BY <2>1, Kinds0 DEF Work
<1>3. e \in Seq(Blank) /\ e \in Seq(Talk) /\ EndTry \in Seq(Talk)
  <2>1. EndTry \in Seq(Blank)
    BY Tells
  <2>2. EndTry \in Seq(Talk)
    BY <2>1, Kinds0, SeqMonotonic
  <2> QED BY <2>1, <2>2
<1>4. WriteTask(r) = <<x>> \o e
  <2>1. WriteTask(r) = (<<x>> \o EndTry) \o EndTry
    BY DEF WriteTask, Tell, s
  <2> HIDE DEF x
  <2> QED BY <1>2, <1>3, <2>1, ConcatAssociative
<1> HIDE DEF x, e
<1>5. <<x>> \in Seq(Talk)
  BY <1>2
<1>6. \A q \in Requests : x \in Holding(q, requestOf) <=> q = r
  BY <1>2 DEF Holding
<1>7. ASSUME NEW q \in Requests
      PROVE  /\ Has(WriteTask(r), Holding(q, requestOf)) <=> q = r
             /\ Once(WriteTask(r), Holding(q, requestOf))
  <2> DEFINE C == Holding(q, requestOf)
  <2>1. ~Has(e, C) /\ Once(e, C)
    BY <1>3, Kinds0, HasNone
  <2>2. (Has(<<x>>, C) <=> x \in C) /\ Once(<<x>>, C)
    BY HasOne
  <2> HIDE DEF C
  <2>3. /\ Has(<<x>> \o e, C) <=> Has(<<x>>, C) \/ Has(e, C)
        /\ Once(<<x>> \o e, C)
    BY <1>3, <1>5, <2>1, <2>2, HasConcat
  <2> QED BY <1>4, <1>6, <2>1, <2>2, <2>3 DEF C
<1>8. WriteTask(r) \in Seq(Talk) /\ WriteTask(r) # <<>>
  BY <1>2, <1>3, <1>4, <1>5
<1> QED BY <1>7, <1>8

------------------------------------------------------------------------------
\* What becomes of the requests when a thread has other things to do.

LEMMA Stacks ==
    ASSUME WorkInv, ListenInv, NEW t \in Threads
    PROVE  /\ todo \in [Threads -> Seq(Works)] /\ todo[t] \in Seq(Sound)
           /\ todo[t] # <<>> => /\ Head(todo[t]) \in Sound /\ Tail(todo[t]) \in Seq(Talk)
                                /\ todo[t][1] = Head(todo[t]) /\ 1 \in 1..Len(todo[t])
<1>1. todo \in [Threads -> Seq(Works)] /\ todo[t] \in Seq(Sound)
  BY DEF WorkInv, ContextTypeOK
<1>2. ASSUME todo[t] # <<>>
      PROVE  /\ Head(todo[t]) \in Sound /\ Tail(todo[t]) \in Seq(Talk)
             /\ todo[t][1] = Head(todo[t]) /\ 1 \in 1..Len(todo[t])
  <2> DEFINE s == todo[t]
             r == Tail(s)
  <2>1. /\ Len(s) \in Nat /\ Len(s) >= 1 /\ r \in Seq(Sound) /\ Len(r) = Len(s) - 1
        /\ Head(s) = s[1] /\ Head(s) \in Sound /\ \A i \in 1..Len(s) - 1 : r[i] = s[i + 1]
    BY <1>1, <1>2, HeadTailProperties
  <2>2. \A i \in 1..Len(s) : s[i].do = "listen" => i = 1
    BY DEF ListenInv
  <2>3. \A i \in 1..Len(r) : r[i] \in Talk
    <3> TAKE i \in 1..Len(r)
    <3>1. i + 1 \in 1..Len(s) /\ i + 1 # 1 /\ r[i] = s[i + 1]
      BY <2>1
    <3>2. r[i] \in Sound
      BY <2>1
    <3> HIDE DEF r, s
    <3> QED BY <2>2, <3>1, <3>2 DEF Talk
  <2>4. r \in Seq(Talk)
    <3> HIDE DEF r
    <3>1. Len(r) \in Nat /\ r = [i \in 1..Len(r) |-> r[i]]
      BY <2>1
    <3> QED BY <2>3, <3>1, IsASeq
  <2>5. 1 \in 1..Len(s)
    BY <2>1
  <2> QED BY <2>1, <2>4, <2>5
<1> QED BY <1>1, <1>2

LEMMA Replacing ==
    ASSUME WorkInv, ListenInv, NEW t \in Threads, todo[t] # <<>>, NEW items \in Seq(Talk)
    PROVE  LET s == items \o Tail(todo[t])
           IN  /\ s \in Seq(Talk)
               /\ \A r \in Requests :
                     LET C == Holding(r, requestOf)
                     IN  /\ Once(todo[t], C) /\ Once(items, C)
                         /\ Has(items, C) => Head(todo[t]) \in C
                         => /\ Once(s, C)
                            /\ Has(s, C) => InTodo(t, r)
                            /\ InTodo(t, r) => Has(s, C) \/ (Head(todo[t]) \in C /\ ~Has(items, C))
                            /\ Head(todo[t]) \in C => (Has(s, C) <=> Has(items, C))
<1> DEFINE rest == Tail(todo[t])
           s == items \o rest
<1>1. rest \in Seq(Talk) /\ todo[t] \in Seq(Sound)
  BY Stacks
<1>2. s \in Seq(Talk)
  BY <1>1
<1>3. ASSUME NEW r \in Requests, NEW C, C = Holding(r, requestOf),
             Once(todo[t], C), Once(items, C), Has(items, C) => Head(todo[t]) \in C
      PROVE  /\ Once(s, C)
             /\ Has(s, C) => InTodo(t, r)
             /\ InTodo(t, r) => Has(s, C) \/ (Head(todo[t]) \in C /\ ~Has(items, C))
             /\ Head(todo[t]) \in C => (Has(s, C) <=> Has(items, C))
  <2>1. /\ Once(rest, C)
        /\ Has(todo[t], C) <=> Head(todo[t]) \in C \/ Has(rest, C)
        /\ Head(todo[t]) \in C => ~Has(rest, C)
    BY <1>1, <1>3, HasTail
  <2> HIDE DEF rest
  <2>2. /\ Has(s, C) <=> Has(items, C) \/ Has(rest, C)
        /\ Once(items, C) /\ Once(rest, C) /\ ~(Has(items, C) /\ Has(rest, C)) => Once(s, C)
    BY <1>1, HasConcat
  <2>3. InTodo(t, r) <=> Has(todo[t], C)
    BY <1>3 DEF InTodo
  <2> HIDE DEF s
  <2> QED BY <1>3, <2>1, <2>2, <2>3
<1> QED BY <1>2, <1>3

LEMMA Becoming ==
    ASSUME PipeInv, WorkInv, ListenInv, RequestOfInv, NEW t \in Threads, NEW s \in Seq(Talk),
           Becomes(t, s), UNCHANGED <<vars, pipe, listening, requestOf>>
    PROVE  /\ PipeInv' /\ RequestOfInv' /\ ListenInv' /\ Sound' = Sound
           /\ todo' \in [Threads -> Seq(Works)] /\ \A u \in Threads : todo'[u] \in Seq(Sound)
           /\ \A u \in Threads : u # t => todo'[u] = todo[u]
           /\ todo'[t] = Left(s)
           /\ \A r \in Requests :
                 LET C == Holding(r, requestOf)
                 IN  /\ InTodo(t, r)' <=> Has(s, C)
                     /\ Once(s, C) => Once(todo'[t], C)
                     /\ Heard(r)' <=> Heard(r)
                     /\ \A u \in Threads : u # t => (InTodo(u, r)' <=> InTodo(u, r))
<1>1. todo' = [todo EXCEPT ![t] = Left(s)] /\ todo \in [Threads -> Seq(Works)]
  BY DEF Becomes, WorkInv, ContextTypeOK
<1>2. /\ UNCHANGED <<calls, method, future, pc, job, pipe, listening, requestOf>>
  BY DEF vars, record, thread
<1>3. PipeInv' /\ RequestOfInv' /\ Sound' = Sound
  BY <1>2 DEF PipeInv, RequestOfInv, Sound, InPipe
<1>4. todo'[t] = Left(s) /\ \A u \in Threads : u # t => todo'[u] = todo[u]
  BY <1>1
<1>5. /\ Left(s) \in Seq(Talk)
      /\ \A C : (\A x \in C : x.do # "endTry") =>
            (Has(Left(s), C) <=> Has(s, C)) /\ (Once(s, C) => Once(Left(s), C))
  <2>1. Talk \subseteq Works
    BY Kinds0
  <2> QED BY <2>1, LeftKeeps
<1>6. Left(s) \in Seq(Sound) /\ Left(s) \in Seq(Works)
  BY <1>5, Kinds0, SeqMonotonic
<1>7. todo' \in [Threads -> Seq(Works)] /\ \A u \in Threads : todo'[u] \in Seq(Sound)
  BY <1>1, <1>4, <1>6 DEF WorkInv
<1>8. ListenInv'
  <2>1. \A i \in 1..Len(Left(s)) : Left(s)[i].do # "listen"
    BY <1>5 DEF Talk
  <2>2. ASSUME NEW u \in Threads, NEW i \in 1..Len(todo'[u]), todo'[u][i].do = "listen"
        PROVE  /\ i = 1 /\ todo'[u][i].n \notin listening
               /\ pc[u] # "idle" => job[u].future = todo'[u][i].n
               /\ \A v \in Threads : todo'[v] # <<>> /\ Head(todo'[v]).do = "listen"
                                      /\ Head(todo'[v]).n = todo'[u][i].n => v = u
    <3>1. u # t /\ todo'[u] = todo[u]
      BY <1>4, <2>1, <2>2
    <3>2. /\ i = 1 /\ todo[u][i].n \notin listening
          /\ pc[u] # "idle" => job[u].future = todo[u][i].n
          /\ \A v \in Threads : todo[v] # <<>> /\ Head(todo[v]).do = "listen"
                                    /\ Head(todo[v]).n = todo[u][i].n => v = u
      BY <2>2, <3>1 DEF ListenInv
    <3>3. ASSUME todo'[t] # <<>> PROVE Head(todo'[t]).do # "listen"
      <4>1. 1 \in 1..Len(Left(s)) /\ Head(Left(s)) = Left(s)[1]
        BY <1>4, <1>5, <3>3
      <4> QED BY <1>4, <2>1, <2>2, <4>1
    <3> QED BY <1>4, <3>1, <3>2, <3>3
  <2>3. \A f \in listening : f \in 1..calls /\ future[f] = "pending" /\ method[f] # "close"
    BY DEF ListenInv
  <2> QED BY <1>2, <2>2, <2>3 DEF ListenInv
<1>9. ASSUME NEW r \in Requests, NEW C, C = Holding(r, requestOf)
      PROVE  /\ InTodo(t, r)' <=> Has(s, C)
             /\ Once(s, C) => Once(todo'[t], C)
             /\ Heard(r)' <=> Heard(r)
             /\ \A u \in Threads : u # t => (InTodo(u, r)' <=> InTodo(u, r))
  <2>1. \A u \in Threads : (InTodo(u, r)' <=> Has(todo'[u], C)) /\ (InTodo(u, r) <=> Has(todo[u], C))
    BY <1>2, <1>9 DEF InTodo
  <2>2. \A x \in C : x.do # "endTry"
    BY <1>9, Kinds0
  <2>3. Heard(r)' <=> Heard(r)
    BY <1>2 DEF Heard
  <2> QED BY <1>4, <1>5, <2>1, <2>2, <2>3
<1> QED BY <1>3, <1>4, <1>7, <1>8, <1>9

\* A step that is about what one thread has to do, and at most lets requests go.
LEMMA TodoStep ==
    ASSUME ContextIInv, NEW t \in Threads, NEW s \in Seq(Talk), Becomes(t, s),
           UNCHANGED <<vars, pipe, writes, tasks, listening, unconnected, requestOf, answers,
                       written>>,
           lost \subseteq lost', lost' \subseteq Requests, {up', stalled'} \subseteq BOOLEAN,
           \A r \in Requests :
              LET C == Holding(r, requestOf)
              IN  /\ Once(s, C)
                  /\ Has(s, C) => InTodo(t, r)
                  /\ InTodo(t, r) => Has(s, C) \/ r \in lost'
    PROVE  ContextIInv'
<1>1. /\ PipeInv' /\ RequestOfInv' /\ ListenInv' /\ Sound' = Sound
      /\ todo' \in [Threads -> Seq(Works)] /\ \A u \in Threads : todo'[u] \in Seq(Sound)
      /\ \A u \in Threads : u # t => todo'[u] = todo[u]
      /\ \A r \in Requests :
            LET C == Holding(r, requestOf)
            IN  /\ InTodo(t, r)' <=> Has(s, C)
                /\ Once(s, C) => Once(todo'[t], C)
                /\ Heard(r)' <=> Heard(r)
                /\ \A u \in Threads : u # t => (InTodo(u, r)' <=> InTodo(u, r))
  BY Becoming DEF ContextIInv
<1>2. WorkInv'
  <2>1. ContextTypeOK'
    BY <1>1 DEF ContextIInv, WorkInv, ContextTypeOK
  <2>2. TasksInv'
    BY <1>1 DEF ContextIInv, WorkInv, TasksInv
  <2> QED BY <1>1, <2>1, <2>2 DEF WorkInv
<1>3. ASSUME NEW r \in Requests PROVE HeldOnce(r)' /\ HeldAlone(r)' /\ AnswerInv(r)'
  <2>1. HeldOnce(r) /\ HeldAlone(r) /\ AnswerInv(r)
    BY DEF ContextIInv, RequestInv
  <2>2. /\ InTodo(t, r)' => InTodo(t, r)
        /\ InTodo(t, r) => InTodo(t, r)' \/ r \in lost'
        /\ Heard(r)' <=> Heard(r)
        /\ \A u \in Threads : u # t => (InTodo(u, r)' <=> InTodo(u, r))
        /\ Once(todo'[t], Holding(r, requestOf))
    BY <1>1
  <2>3. (InWrites(r)' <=> InWrites(r)) /\ (InTasks(r)' <=> InTasks(r))
    BY DEF InWrites, InTasks
  <2>4. HeldOnce(r)'
    <3>1. \A u \in Threads : Once(todo'[u], Holding(r, requestOf))
      BY <1>1, <2>1, <2>2 DEF HeldOnce
    <3> QED BY <2>1, <3>1 DEF HeldOnce
  <2>5. \A u \in Threads : InTodo(u, r)' => InTodo(u, r)
    BY <2>2
  <2>6. HeldAlone(r)'
    BY <2>1, <2>2, <2>3, <2>5 DEF HeldAlone
  <2>7. Held(r)' => Held(r)
    BY <2>2, <2>3, <2>5 DEF Held
  <2>8. Held(r) => Held(r)' \/ r \in lost'
    BY <2>2, <2>3 DEF Held
  <2>9. AnswerInv(r)'
    BY <2>1, <2>7, <2>8 DEF AnswerInv
  <2> QED BY <2>4, <2>6, <2>9
<1>4. RequestInv'
  BY <1>3 DEF RequestInv
<1> QED BY <1>1, <1>2, <1>4 DEF ContextIInv

\* The first item is replaced by others, which hold no request that it does not.
LEMMA ReplaceStep ==
    ASSUME ContextIInv, NEW t \in Threads, todo[t] # <<>>, NEW items \in Seq(Talk),
           Replace(t, items),
           UNCHANGED <<vars, pipe, writes, tasks, listening, unconnected, requestOf, answers,
                       written>>,
           lost \subseteq lost', lost' \subseteq Requests, {up', stalled'} \subseteq BOOLEAN,
           \A r \in Requests :
              LET C == Holding(r, requestOf)
              IN  /\ Once(items, C)
                  /\ Has(items, C) => Head(todo[t]) \in C
                  /\ Head(todo[t]) \in C => Has(items, C) \/ r \in lost'
    PROVE  ContextIInv'
<1> DEFINE s == items \o Tail(todo[t])
<1>1. /\ s \in Seq(Talk)
      /\ \A r \in Requests :
            LET C == Holding(r, requestOf)
            IN  /\ Once(todo[t], C) /\ Once(items, C)
                /\ Has(items, C) => Head(todo[t]) \in C
                => /\ Once(s, C)
                   /\ Has(s, C) => InTodo(t, r)
                   /\ InTodo(t, r) => Has(s, C) \/ (Head(todo[t]) \in C /\ ~Has(items, C))
                   /\ Head(todo[t]) \in C => (Has(s, C) <=> Has(items, C))
  BY Replacing DEF ContextIInv
<1>2. Becomes(t, s)
  BY DEF Replace
<1> HIDE DEF s
<1>3. \A r \in Requests :
         LET C == Holding(r, requestOf)
         IN  /\ Once(s, C)
             /\ Has(s, C) => InTodo(t, r)
             /\ InTodo(t, r) => Has(s, C) \/ r \in lost'
  <2> TAKE r \in Requests
  <2>1. Once(todo[t], Holding(r, requestOf))
    BY DEF ContextIInv, RequestInv, HeldOnce
  <2> QED BY <1>1, <2>1
<1> QED BY <1>1, <1>2, <1>3, TodoStep

\* The same when neither is about a request.
LEMMA BlankStep ==
    ASSUME ContextIInv, NEW t \in Threads, todo[t] # <<>>, NEW items \in Seq(Blank),
           Replace(t, items),
           UNCHANGED <<vars, pipe, writes, tasks, listening, unconnected, requestOf, answers,
                       written>>,
           lost \subseteq lost', lost' \subseteq Requests, {up', stalled'} \subseteq BOOLEAN,
           \A r \in Requests : Head(todo[t]) \in Holding(r, requestOf) => r \in lost'
    PROVE  ContextIInv'
<1>1. items \in Seq(Talk)
  BY Kinds0, SeqMonotonic
<1>2. \A r \in Requests : LET C == Holding(r, requestOf) IN ~Has(items, C) /\ Once(items, C)
  BY Kinds0, HasNone
<1> QED BY <1>1, <1>2, ReplaceStep

LEMMA HeadHolds ==
    ASSUME ContextIInv, NEW t \in Threads, todo[t] # <<>>
    PROVE  LET x == Head(todo[t])
           IN  /\ x \in Sound /\ x \in Works
               /\ x.do \in {"tell", "call", "post", "answer"} => x.n \in Requests \cup {0} /\
                     \A r \in Requests : x \in Holding(r, requestOf) <=> x.n = r
<1>1. Head(todo[t]) \in Sound /\ Head(todo[t]) \in Works
  BY Stacks, Kinds0 DEF ContextIInv
<1> QED BY <1>1 DEF Sound, Holding

LEMMA TellFirstStep == ASSUME ContextIInv, NEW t \in Threads, tellFirst(t) PROVE ContextIInv'
<1> DEFINE x == Head(todo[t])
           e == x.what
<1>1. todo[t] # <<>> /\ x.do = "tell" /\ x.stage = FirstStage
  BY DEF tellFirst, Doing
<1>2. e \in Events /\ x.n = 0 /\ \A r \in Requests : x \notin Holding(r, requestOf)
  <2>1. /\ x \in Sound /\ x.n \in Requests \cup {0}
        /\ \A r \in Requests : x \in Holding(r, requestOf) <=> x.n = r
    BY <1>1, HeadHolds
  <2>2. e \in Events /\ x.n = 0
    BY <1>1, <2>1 DEF Sound
  <2> QED BY <2>1, <2>2, Numbers
<1> HIDE DEF x
<1>3. StreamReadStage(e) \in Seq(Blank)
  <2>1. PipeInv /\ FirstStage \in AllStages
    BY DEF ContextIInv, AllStages
  <2>2. CallOf("read", 0) \in Seq(Blank) /\ invoke(e, FirstStage, 0) \in Seq(Blank)
        /\ Notify("readComplete") \in Seq(Blank)
    BY <1>2, <2>1, Tells DEF Methods
  <2>3. CallOf("read", 0) \o invoke(e, FirstStage, 0) \in Seq(Blank)
    BY <2>2
  <2>4. StreamReadStage(e) \in {CallOf("read", 0) \o invoke(e, FirstStage, 0),
                                Notify("readComplete"), invoke(e, FirstStage, 0)}
    <3>1. /\ e \in {"active", "readComplete", "exception"} =>
                StreamReadStage(e) = CallOf("read", 0) \o invoke(e, FirstStage, 0)
          /\ e = "read" => StreamReadStage(e) = Notify("readComplete")
          /\ e \in {"inactive", "writeComplete", "write"} =>
                StreamReadStage(e) = invoke(e, FirstStage, 0)
      BY DEF StreamReadStage
    <3> QED BY <1>2, <3>1 DEF Events
  <2> QED BY <2>2, <2>3, <2>4
<1>4. /\ Replace(t, StreamReadStage(e))
      /\ UNCHANGED <<vars, pipe, writes, tasks, listening, unconnected, requestOf, answers,
                     written, lost>>
      /\ up' \in BOOLEAN /\ stalled' \in BOOLEAN
  BY DEF tellFirst, x, ContextIInv, WorkInv, ContextTypeOK
<1>5. lost \subseteq Requests
  BY DEF ContextIInv, WorkInv, ContextTypeOK
<1> QED BY <1>1, <1>2, <1>3, <1>4, <1>5, BlankStep DEF x

LEMMA TellLastStep == ASSUME ContextIInv, NEW t \in Threads, tellLast(t) PROVE ContextIInv'
<1> DEFINE x == Head(todo[t])
<1>1. todo[t] # <<>> /\ x.do = "tell" /\ x.stage = LastStage
  BY DEF tellLast, Doing
<1>2. /\ x.what \in Events /\ x.n \in Requests \cup {0} /\ (x.n # 0 => x.what = "write")
      /\ \A r \in Requests : x \in Holding(r, requestOf) <=> x.n = r
  <2>1. /\ x \in Sound /\ x.n \in Requests \cup {0}
        /\ \A r \in Requests : x \in Holding(r, requestOf) <=> x.n = r
    BY <1>1, HeadHolds
  <2> QED BY <1>1, <2>1 DEF Sound
<1> HIDE DEF x
<1> DEFINE items == IOWriteStage(x.what, x.n)
<1>3. /\ Replace(t, items)
      /\ UNCHANGED <<vars, pipe, writes, tasks, listening, unconnected, requestOf, answers,
                     written, lost>>
      /\ up' \in BOOLEAN /\ stalled' \in BOOLEAN /\ lost \subseteq Requests
  BY DEF tellLast, x, ContextIInv, WorkInv, ContextTypeOK
<1>4. PipeInv /\ LastStage \in AllStages
  BY DEF ContextIInv, AllStages
<1>5. CASE x.n = 0
  <2>1. items \in Seq(Blank)
    <3>1. CallOf("write", 0) \in Seq(Blank) /\ invoke(x.what, LastStage, 0) \in Seq(Blank)
      BY <1>2, <1>4, Tells DEF Methods
    <3>2. items \in {CallOf("write", 0), invoke(x.what, LastStage, 0)}
      BY <1>5 DEF IOWriteStage
    <3> QED BY <3>1, <3>2
  <2> HIDE DEF items
  <2>2. \A r \in Requests : x \notin Holding(r, requestOf)
    BY <1>2, <1>5, Numbers
  <2> QED BY <1>1, <1>3, <2>1, <2>2, BlankStep DEF x
<1>6. CASE x.n # 0
  <2>1. items = <<Work("call", "write", NoStage, x.n)>> /\ x.n \in Requests
    BY <1>2, <1>6 DEF IOWriteStage, CallOf
  <2> DEFINE y == Work("call", "write", NoStage, x.n)
  <2>2. y \in Talk /\ y \in Works /\ \A r \in Requests : y \in Holding(r, requestOf) <=> x.n = r
    <3>1. y \in Talk /\ y.do = "call" /\ y.n = x.n
      BY <2>1, Made2 DEF Work
    <3>2. y \in Works
      BY <3>1, Kinds0
    <3> HIDE DEF y
    <3> QED BY <3>1, <3>2 DEF Holding
  <2> HIDE DEF y
  <2>3. items = <<y>>
    BY <2>1 DEF y
  <2> HIDE DEF items
  <2>4. items \in Seq(Talk)
    BY <2>2, <2>3
  <2>5. \A r \in Requests :
           LET C == Holding(r, requestOf)
           IN  /\ Once(items, C)
               /\ Has(items, C) <=> x \in C
    BY <1>2, <2>2, <2>3, HasOne
  <2> QED BY <1>1, <1>3, <2>4, <2>5, ReplaceStep DEF x
<1> QED BY <1>5, <1>6

LEMMA TellStageStep ==
    ASSUME ContextIInv, NEW t \in Threads, NEW reaction \in ReactionNames, tellStage(t, reaction)
    PROVE  ContextIInv'
<1> DEFINE x == Head(todo[t])
           items == UserStage(x.what, x.stage, x.n, reaction)
<1>1. todo[t] # <<>> /\ x.do = "tell" /\ x.stage \in Stages /\ reaction # "write"
  BY DEF tellStage, Doing
<1>2. /\ x.what \in Events /\ x.n \in Requests \cup {0}
      /\ x.n # 0 => x.what = "write" /\ InPipe(x.stage)
      /\ \A r \in Requests : x \in Holding(r, requestOf) <=> x.n = r
  <2>1. /\ x \in Sound /\ x.n \in Requests \cup {0}
        /\ \A r \in Requests : x \in Holding(r, requestOf) <=> x.n = r
    BY <1>1, HeadHolds
  <2> QED BY <1>1, <2>1 DEF Sound
<1>3. /\ Replace(t, items)
      /\ UNCHANGED <<vars, pipe, writes, tasks, listening, unconnected, requestOf, answers,
                     written, up>>
      /\ up' \in BOOLEAN /\ stalled' \in BOOLEAN
      /\ lost' = IF PassesOn(reaction) THEN lost ELSE (lost \cup {x.n}) \ {0}
      /\ lost \subseteq Requests
  BY DEF tellStage, ContextIInv, WorkInv, ContextTypeOK
<1> HIDE DEF x
<1>4. PipeInv /\ x.stage \in AllStages /\ x.stage # LastStage
  BY <1>1, PipelineAssumption DEF ContextIInv, AllStages
<1>5. lost \subseteq lost' /\ lost' \subseteq Requests
      /\ (~PassesOn(reaction) /\ x.n # 0 => x.n \in lost')
  BY <1>2, <1>3, Numbers
<1>6. /\ CallOf("connect", 0) \in Seq(Blank) /\ CallOf("disconnect", 0) \in Seq(Blank)
      /\ Throw \in Seq(Blank) /\ <<>> \in Seq(Blank)
      /\ invoke("readComplete", x.stage, 0) \in Seq(Blank)
      /\ invoke(x.what, x.stage, 0) \in Seq(Blank)
      /\ invoke(x.what, x.stage, 0) \o Throw \in Seq(Blank)
      /\ CallOf("connect", 0) \o invoke(x.what, x.stage, 0) \in Seq(Blank)
  <2>1. CallOf("connect", 0) \in Seq(Blank) /\ CallOf("disconnect", 0) \in Seq(Blank)
    BY <1>4, Tells DEF Methods
  <2>2. Throw \in Seq(Blank)
    BY <1>4, Tells
  <2>3. <<>> \in Seq(Blank)
    OBVIOUS
  <2>4. invoke("readComplete", x.stage, 0) \in Seq(Blank)
    BY <1>4, Tells DEF Events
  <2>5. invoke(x.what, x.stage, 0) \in Seq(Blank)
    BY <1>2, <1>4, Tells
  <2>6. /\ invoke(x.what, x.stage, 0) \o Throw \in Seq(Blank)
        /\ CallOf("connect", 0) \o invoke(x.what, x.stage, 0) \in Seq(Blank)
    BY <2>1, <2>2, <2>5
  <2> QED BY <2>1, <2>2, <2>3, <2>4, <2>5, <2>6
<1>7. \/ reaction = "forward" /\ items = invoke(x.what, x.stage, x.n)
      \/ reaction = "keep" /\ items = <<>>
      \/ reaction = "skip" /\ items = invoke("readComplete", x.stage, 0)
      \/ reaction = "throw" /\ items = Throw
      \/ reaction = "throwAfter" /\ items = invoke(x.what, x.stage, x.n) \o Throw
      \/ reaction = "connect" /\ items = CallOf("connect", 0) \o invoke(x.what, x.stage, x.n)
      \/ reaction = "disconnect" /\ items = CallOf("disconnect", 0)
  <2>1. /\ reaction = "forward" => items = invoke(x.what, x.stage, x.n)
        /\ reaction = "keep" => items = <<>>
        /\ reaction = "skip" => items = invoke("readComplete", x.stage, 0)
        /\ reaction = "throw" => items = Throw
        /\ reaction = "throwAfter" => items = invoke(x.what, x.stage, x.n) \o Throw
        /\ reaction = "connect" => items = CallOf("connect", 0) \o invoke(x.what, x.stage, x.n)
        /\ reaction = "disconnect" => items = CallOf("disconnect", 0)
    BY DEF UserStage
  <2> QED BY <1>1, <2>1 DEF ReactionNames
<1> HIDE DEF items
<1>8. CASE x.n = 0 \/ ~PassesOn(reaction)
  <2>1. items \in Seq(Blank)
    <3>1. CASE x.n = 0
      BY <1>6, <1>7, <3>1
    <3>2. CASE ~PassesOn(reaction)
      BY <1>6, <1>7, <3>2 DEF PassesOn
    <3> QED BY <1>8, <3>1, <3>2
  <2>2. \A r \in Requests : x \in Holding(r, requestOf) => r \in lost'
    BY <1>2, <1>5, <1>8, Numbers
  <2> QED BY <1>1, <1>3, <1>5, <2>1, <2>2, BlankStep DEF x
<1>9. CASE x.n # 0 /\ PassesOn(reaction)
  <2>1. PICK y \in Talk : /\ y \in Holding(x.n, requestOf)
                          /\ invoke("write", x.stage, x.n) = <<y>>
                          /\ \A q \in Requests : y \in Holding(q, requestOf) => q = x.n
    BY <1>2, <1>4, <1>9, GoesOn
  <2>2. CallOf("connect", 0) \in Seq(Talk) /\ Throw \in Seq(Talk) /\ <<y>> \in Seq(Talk)
    BY <1>6, Kinds0, SeqMonotonic
  <2>3. items \in {<<y>>, <<y>> \o Throw, CallOf("connect", 0) \o <<y>>}
    BY <1>2, <1>7, <1>9, <2>1 DEF PassesOn
  <2>4. items \in Seq(Talk)
    <3>1. <<y>> \o Throw \in Seq(Talk) /\ CallOf("connect", 0) \o <<y>> \in Seq(Talk)
      BY <2>2
    <3> QED BY <2>2, <2>3, <3>1
  <2>5. ASSUME NEW r \in Requests, NEW C, C = Holding(r, requestOf)
        PROVE  Once(items, C) /\ (Has(items, C) <=> x \in C)
    <3>1. ~Has(Throw, C) /\ Once(Throw, C)
      BY <1>6, <2>5, Kinds0, HasNone
    <3>2. ~Has(CallOf("connect", 0), C) /\ Once(CallOf("connect", 0), C)
      BY <1>6, <2>5, Kinds0, HasNone
    <3>3. Once(<<y>>, C) /\ (Has(<<y>>, C) <=> y \in C)
      BY HasOne
    <3>4. /\ Has(<<y>> \o Throw, C) <=> Has(<<y>>, C)
          /\ Once(<<y>> \o Throw, C)
      BY <2>2, <3>1, <3>3, HasConcat
    <3>5. /\ Has(CallOf("connect", 0) \o <<y>>, C) <=> Has(<<y>>, C)
          /\ Once(CallOf("connect", 0) \o <<y>>, C)
      BY <2>2, <3>2, <3>3, HasConcat
    <3>6. y \in C <=> x \in C
      BY <1>2, <2>1, <2>5
    <3> QED BY <2>3, <3>3, <3>4, <3>5, <3>6
  <2> QED BY <1>1, <1>3, <1>5, <2>4, <2>5, ReplaceStep DEF x
<1> QED BY <1>8, <1>9

------------------------------------------------------------------------------
\* A request moves between the queues, the listeners and what one thread has to do,
\* or comes, or is lost or answered.

At(t, r) == InWrites(r) \/ InTasks(r) \/ Heard(r) \/ InTodo(t, r)

Single(t, r) ==
    /\ ~(InWrites(r) /\ InTasks(r)) /\ ~(InWrites(r) /\ Heard(r)) /\ ~(InTasks(r) /\ Heard(r))
    /\ InTodo(t, r) => ~InWrites(r) /\ ~InTasks(r) /\ ~Heard(r)

Stays(t, r) ==
    (At(t, r)' <=> At(t, r)) /\ answers'[r] = answers[r] /\ (r <= written' <=> r <= written)
IsLost(t, r) ==
    /\ At(t, r) /\ ~At(t, r)' /\ r \in lost'
    /\ answers'[r] = answers[r] /\ (r <= written' <=> r <= written)
Comes(t, r) ==
    /\ ~Held(r) /\ At(t, r)' /\ r > written /\ r <= written'
    /\ answers'[r] = answers[r]
IsAnswered(t, r) ==
    At(t, r) /\ ~At(t, r)' /\ answers'[r] = answers[r] + 1 /\ written' = written

LEMMA RequestStep ==
    ASSUME NEW t \in Threads, NEW r \in Requests, HeldAlone(r), AnswerInv(r),
           written \in Nat, written' \in Nat, lost \subseteq lost',
           \A u \in Threads : u # t => (InTodo(u, r)' <=> InTodo(u, r)),
           Single(t, r)',
           Stays(t, r) \/ IsLost(t, r) \/ Comes(t, r) \/ IsAnswered(t, r)
    PROVE  HeldAlone(r)' /\ AnswerInv(r)'
<1> DEFINE others == \E u \in Threads : u # t /\ InTodo(u, r)
<1>1. Held(r) <=> At(t, r) \/ others
  BY DEF Held, At
<1>2. Held(r)' <=> At(t, r)' \/ others
  BY DEF Held, At
<1>3. At(t, r) => ~others
  BY DEF HeldAlone, At
<1>4. At(t, r)' => ~others
  BY <1>1, <1>3 DEF Stays, IsLost, Comes, IsAnswered
<1>5. HeldAlone(r)'
  <2>1. ASSUME NEW u \in Threads, InTodo(u, r)', NEW v \in Threads, InTodo(v, r)' PROVE v = u
    <3>1. CASE u = t \/ v = t
      BY <1>4, <2>1, <3>1 DEF At
    <3>2. CASE u # t /\ v # t
      BY <2>1, <3>2 DEF HeldAlone
    <3> QED BY <3>1, <3>2
  <2>2. ASSUME NEW u \in Threads, InTodo(u, r)' PROVE ~InWrites(r)' /\ ~InTasks(r)' /\ ~Heard(r)'
    <3>1. CASE u = t
      BY <2>2, <3>1 DEF Single
    <3>2. CASE u # t
      BY <1>4, <2>2, <3>2 DEF At
    <3> QED BY <3>1, <3>2
  <2> QED BY <2>1, <2>2 DEF HeldAlone, Single
<1> HIDE DEF others
<1>6. r \in Nat
  BY Numbers
<1>7. AnswerInv(r)'
  <2>1. CASE Stays(t, r)
    BY <1>1, <1>2, <1>6, <2>1 DEF Stays, AnswerInv
  <2>2. CASE IsLost(t, r)
    BY <1>1, <1>2, <1>3, <1>6, <2>2 DEF IsLost, AnswerInv
  <2>3. CASE Comes(t, r)
    BY <1>1, <1>2, <1>6, <2>3 DEF Comes, AnswerInv
  <2>4. CASE IsAnswered(t, r)
    <3>1. answers[r] = 0 /\ r <= written
      BY <1>1, <1>6, <2>4 DEF IsAnswered, AnswerInv
    <3>2. ~Held(r)' /\ answers'[r] = 1 /\ r <= written'
      BY <1>2, <1>3, <2>4, <3>1 DEF IsAnswered
    <3> QED BY <1>6, <3>2 DEF AnswerInv
  <2> QED BY <2>1, <2>2, <2>3, <2>4
<1> QED BY <1>5, <1>7

LEMMA HasAppend ==
    ASSUME NEW S, NEW s \in Seq(S), NEW x \in S, NEW C
    PROVE  /\ Append(s, x) \in Seq(S)
           /\ Has(Append(s, x), C) <=> Has(s, C) \/ x \in C
           /\ Once(s, C) /\ ~(Has(s, C) /\ x \in C) => Once(Append(s, x), C)
<1> DEFINE y == <<x>>
<1>1. y \in Seq(S) /\ Append(s, x) = s \o y
  BY AppendIsConcat
<1>2. (Has(y, C) <=> x \in C) /\ Once(y, C)
  BY HasOne
<1> HIDE DEF y
<1>3. /\ s \o y \in Seq(S) /\ (Has(s \o y, C) <=> Has(s, C) \/ Has(y, C))
      /\ Once(s, C) /\ Once(y, C) /\ ~(Has(s, C) /\ Has(y, C)) => Once(s \o y, C)
  BY <1>1, HasConcat
<1> QED BY <1>1, <1>2, <1>3

LEMMA Answers ==
    ASSUME NEW q \in Requests
    PROVE  /\ Answer(q) \in Seq(Talk) /\ Answer(q) \in Seq(Works)
           /\ \A r \in Requests :
                 LET C == Holding(r, requestOf)
                 IN  /\ Answer(q) = Answer(r) <=> q = r
                     /\ Once(Answer(q), C) /\ (Has(Answer(q), C) <=> q = r)
           /\ \A x : x.do = "tell" => <<x>> # Answer(q)
<1> DEFINE y(r) == Work("answer", "none", NoStage, r)
<1>1. \A r \in Requests : Answer(r) = <<y(r)>>
  BY Numbers DEF Answer
<1>2. \A r \in Requests : y(r) \in Talk /\ y(r) \in Works /\ y(r).n = r /\ y(r).do = "answer"
  <2> TAKE r \in Requests
  <2>1. y(r) \in Talk
    BY Made2
  <2> QED BY <2>1, Kinds0 DEF Work
<1> HIDE DEF y
<1>3. Answer(q) \in Seq(Talk) /\ Answer(q) \in Seq(Works)
  <2>1. Answer(q) = <<y(q)>> /\ y(q) \in Talk /\ y(q) \in Works
    BY <1>1, <1>2
  <2>2. <<y(q)>> \in Seq(Talk) /\ <<y(q)>> \in Seq(Works)
    BY <2>1
  <2> QED BY <2>1, <2>2
<1>4. ASSUME NEW r \in Requests
      PROVE  /\ Answer(q) = Answer(r) <=> q = r
             /\ Once(Answer(q), Holding(r, requestOf))
             /\ Has(Answer(q), Holding(r, requestOf)) <=> q = r
  <2>1. Answer(q) = Answer(r) <=> q = r
    <3>1. y(q) = <<y(q)>>[1] /\ y(r) = <<y(r)>>[1]
      OBVIOUS
    <3> QED BY <1>1, <1>2, <3>1
  <2>2. y(q) \in Holding(r, requestOf) <=> q = r
    BY <1>2 DEF Holding
  <2>3. /\ Once(<<y(q)>>, Holding(r, requestOf))
        /\ Has(<<y(q)>>, Holding(r, requestOf)) <=> y(q) \in Holding(r, requestOf)
    BY HasOne
  <2> QED BY <1>1, <2>1, <2>2, <2>3
<1>5. ASSUME NEW x, x.do = "tell" PROVE <<x>> # Answer(q)
  <2>1. x = <<x>>[1] /\ y(q) = <<y(q)>>[1]
    OBVIOUS
  <2> QED BY <1>1, <1>2, <1>5, <2>1
<1> QED BY <1>3, <1>4, <1>5

\* A step that is about what one thread has to do and the two queues.
LEMMA QueueStep ==
    ASSUME ContextIInv, NEW t \in Threads, NEW s \in Seq(Talk), Becomes(t, s),
           UNCHANGED <<vars, pipe, listening, unconnected, requestOf>>,
           writes' \in Seq(Requests), tasks' \in Seq(Seq(Works)),
           answers' \in [Requests -> Nat], written' \in 0..MaxWrites,
           \A i \in 1..Len(tasks') :
              \/ \E x \in Sound : x.do = "tell" /\ x.n = 0 /\ tasks'[i] = <<x>>
              \/ \E r \in Requests : tasks'[i] = Answer(r),
           lost \subseteq lost', lost' \subseteq Requests, {up', stalled'} \subseteq BOOLEAN,
           \A r \in Requests :
              /\ Once(s, Holding(r, requestOf))
              /\ Once(writes', {r}) /\ Once(tasks', {Answer(r)})
              /\ (InTodo(t, r)' <=> Has(s, Holding(r, requestOf))) /\ (Heard(r)' <=> Heard(r))
                 => /\ Single(t, r)'
                    /\ Stays(t, r) \/ IsLost(t, r) \/ Comes(t, r) \/ IsAnswered(t, r)
    PROVE  ContextIInv'
<1>1. /\ PipeInv' /\ RequestOfInv' /\ ListenInv' /\ Sound' = Sound
      /\ todo' \in [Threads -> Seq(Works)] /\ \A u \in Threads : todo'[u] \in Seq(Sound)
      /\ \A u \in Threads : u # t => todo'[u] = todo[u]
      /\ \A r \in Requests :
            LET C == Holding(r, requestOf)
            IN  /\ InTodo(t, r)' <=> Has(s, C)
                /\ Once(s, C) => Once(todo'[t], C)
                /\ Heard(r)' <=> Heard(r)
                /\ \A u \in Threads : u # t => (InTodo(u, r)' <=> InTodo(u, r))
  BY Becoming DEF ContextIInv
<1>2. WorkInv'
  <2>1. ContextTypeOK'
    BY <1>1 DEF ContextIInv, WorkInv, ContextTypeOK
  <2>2. TasksInv'
    BY <1>1 DEF TasksInv
  <2> QED BY <1>1, <2>1, <2>2 DEF WorkInv
<1>3. ASSUME NEW r \in Requests PROVE HeldOnce(r)' /\ HeldAlone(r)' /\ AnswerInv(r)'
  <2>1. HeldOnce(r) /\ HeldAlone(r) /\ AnswerInv(r)
    BY DEF ContextIInv, RequestInv
  <2>2. /\ InTodo(t, r)' <=> Has(s, Holding(r, requestOf))
        /\ Heard(r)' <=> Heard(r)
        /\ \A u \in Threads : u # t => (InTodo(u, r)' <=> InTodo(u, r))
        /\ Once(todo'[t], Holding(r, requestOf))
    BY <1>1
  <2>3. \A u \in Threads : Once(todo'[u], Holding(r, requestOf))
    BY <1>1, <2>1, <2>2 DEF HeldOnce
  <2>4. HeldOnce(r)'
    BY <2>1, <2>3 DEF HeldOnce
  <2>5. Single(t, r)' /\ (Stays(t, r) \/ IsLost(t, r) \/ Comes(t, r) \/ IsAnswered(t, r))
    BY <2>2
  <2>6. written \in Nat /\ written' \in Nat
    BY IOPipelineAssumption DEF ContextIInv, WorkInv, ContextTypeOK
  <2>7. HeldAlone(r)' /\ AnswerInv(r)'
    BY <2>1, <2>2, <2>5, <2>6, RequestStep
  <2> QED BY <2>4, <2>7
<1>4. RequestInv'
  BY <1>3 DEF RequestInv
<1> QED BY <1>1, <1>2, <1>4 DEF ContextIInv

\* The first item is done.
LEMMA Dropping ==
    ASSUME ContextIInv, NEW t \in Threads, todo[t] # <<>>
    PROVE  LET s == <<>> \o Tail(todo[t])
           IN  /\ s \in Seq(Talk)
               /\ \A r \in Requests :
                     LET C == Holding(r, requestOf)
                     IN  Once(s, C) /\ (Has(s, C) <=> InTodo(t, r) /\ Head(todo[t]) \notin C)
<1> DEFINE items == <<>>
           s == items \o Tail(todo[t])
<1>1. items \in Seq(Talk) /\ items \in Seq(Blank)
  OBVIOUS
<1> HIDE DEF items
<1>2. \A r \in Requests : LET C == Holding(r, requestOf) IN ~Has(items, C) /\ Once(items, C)
  BY <1>1, Kinds0, HasNone
<1>3. /\ s \in Seq(Talk)
      /\ \A r \in Requests :
            LET C == Holding(r, requestOf)
            IN  /\ Once(todo[t], C) /\ Once(items, C)
                /\ Has(items, C) => Head(todo[t]) \in C
                => /\ Once(s, C)
                   /\ Has(s, C) => InTodo(t, r)
                   /\ InTodo(t, r) => Has(s, C) \/ (Head(todo[t]) \in C /\ ~Has(items, C))
                   /\ Head(todo[t]) \in C => (Has(s, C) <=> Has(items, C))
  BY <1>1, Replacing DEF ContextIInv
<1> HIDE DEF s
<1>4. ASSUME NEW r \in Requests, NEW C, C = Holding(r, requestOf)
      PROVE  Once(s, C) /\ (Has(s, C) <=> InTodo(t, r) /\ Head(todo[t]) \notin C)
  <2>1. Once(todo[t], C)
    BY <1>4 DEF ContextIInv, RequestInv, HeldOnce
  <2> QED BY <1>2, <1>3, <1>4, <2>1
<1> QED BY <1>3, <1>4 DEF s, items

LEMMA Alone ==
    ASSUME ContextIInv, NEW t \in Threads, NEW r \in Requests
    PROVE  /\ HeldOnce(r) /\ HeldAlone(r) /\ AnswerInv(r) /\ Single(t, r)
           /\ InWrites(r) \/ InTasks(r) \/ InTodo(t, r) \/ At(t, r) => Held(r)
BY DEF ContextIInv, RequestInv, HeldAlone, Single, Held, At

LEMMA StagePostStep == ASSUME ContextIInv, NEW t \in Threads, post(t) PROVE ContextIInv'
<1> DEFINE x == Head(todo[t])
           y == Work("tell", RemoteEvent(x.what), x.stage, 0)
<1>1. todo[t] # <<>> /\ x.do = "post"
  BY DEF post, Doing
<1>2. /\ x.what \in Events /\ x.stage \in AllStages /\ x.n \in Requests \cup {0}
      /\ \A r \in Requests : x \in Holding(r, requestOf) <=> x.n = r
  <2>1. /\ x \in Sound /\ x.n \in Requests \cup {0}
        /\ \A r \in Requests : x \in Holding(r, requestOf) <=> x.n = r
    BY <1>1, HeadHolds
  <2> QED BY <1>1, <2>1 DEF Sound
<1>3. y \in Blank /\ y \in Sound /\ y \in Works /\ y.do = "tell" /\ y.n = 0
  <2>1. RemoteEvent(x.what) \in Events
    BY <1>2 DEF RemoteEvent, Events
  <2>2. y \in Blank
    BY <1>2, <2>1, Made1
  <2> QED BY <2>2, Kinds0 DEF Work
<1>4. /\ \/ t = Worker /\ Replace(t, <<y>>) /\ UNCHANGED tasks
         \/ t # Worker /\ Replace(t, <<>>) /\ tasks' = Append(tasks, <<y>>)
      /\ lost' = (lost \cup {x.n}) \ {0}
      /\ UNCHANGED <<vars, pipe, writes, listening, unconnected, requestOf, answers, written, up>>
      /\ up' \in BOOLEAN /\ stalled' \in BOOLEAN /\ lost \subseteq Requests
  BY DEF post, Tell, ContextIInv, WorkInv, ContextTypeOK
<1> HIDE DEF x, y
<1>5. lost \subseteq lost' /\ lost' \subseteq Requests
      /\ \A r \in Requests : x.n = r => r \in lost'
  BY <1>2, <1>4, Numbers
<1>6. CASE t = Worker
  <2>1. <<y>> \in Seq(Blank)
    BY <1>3
  <2>2. \A r \in Requests : x \in Holding(r, requestOf) => r \in lost'
    BY <1>2, <1>5
  <2> QED BY <1>1, <1>4, <1>5, <1>6, <2>1, <2>2, BlankStep DEF x
<1>7. CASE t # Worker
  <2> DEFINE s == <<>> \o Tail(todo[t])
  <2>1. /\ s \in Seq(Talk) /\ Becomes(t, s)
        /\ \A r \in Requests :
              /\ Once(s, Holding(r, requestOf))
              /\ Has(s, Holding(r, requestOf)) <=> InTodo(t, r) /\ x.n # r
    BY <1>1, <1>2, <1>4, <1>7, Dropping DEF Replace, x
  <2> HIDE DEF s
  <2> DEFINE z == <<y>>
  <2>2. z \in Seq(Works) /\ tasks \in Seq(Seq(Works)) /\ tasks' = Append(tasks, z)
    BY <1>3, <1>4, <1>7 DEF ContextIInv, WorkInv, ContextTypeOK
  <2>3. \A r \in Requests : z # Answer(r)
    BY <1>3, Answers
  <2>4. \E w \in Sound : w.do = "tell" /\ w.n = 0 /\ z = <<w>>
    BY <1>3
  <2> HIDE DEF z
  <2>5. ASSUME NEW r \in Requests
        PROVE  Once(tasks', {Answer(r)}) /\ (Has(tasks', {Answer(r)}) <=> Has(tasks, {Answer(r)}))
    <3>1. Once(tasks, {Answer(r)})
      BY Alone DEF HeldOnce
    <3> QED BY <2>2, <2>3, <3>1, HasAppend
  <2>6. \A i \in 1..Len(tasks') :
           \/ \E w \in Sound : w.do = "tell" /\ w.n = 0 /\ tasks'[i] = <<w>>
           \/ \E r \in Requests : tasks'[i] = Answer(r)
    <3> TAKE i \in 1..Len(tasks')
    <3>1. \/ i \in 1..Len(tasks) /\ tasks'[i] = tasks[i]
          \/ tasks'[i] = z
      BY <2>2
    <3> QED BY <2>4, <3>1 DEF ContextIInv, WorkInv, TasksInv
  <2>7. ASSUME NEW r \in Requests
        PROVE  /\ Once(s, Holding(r, requestOf))
               /\ Once(writes', {r}) /\ Once(tasks', {Answer(r)})
               /\ (InTodo(t, r)' <=> Has(s, Holding(r, requestOf))) /\ (Heard(r)' <=> Heard(r))
                  => /\ Single(t, r)'
                     /\ Stays(t, r) \/ IsLost(t, r) \/ Comes(t, r) \/ IsAnswered(t, r)
    <3>1. /\ HeldOnce(r) /\ Single(t, r)
      BY Alone
    <3>2. Once(writes', {r})
      BY <1>4, <3>1 DEF HeldOnce
    <3>3. (InTasks(r)' <=> InTasks(r)) /\ (InWrites(r)' <=> InWrites(r))
      BY <1>4, <2>5 DEF InTasks, InWrites
    <3>4. ASSUME InTodo(t, r)' <=> Has(s, Holding(r, requestOf)), Heard(r)' <=> Heard(r)
          PROVE  Single(t, r)' /\ (Stays(t, r) \/ IsLost(t, r))
      <4>1. InTodo(t, r)' <=> InTodo(t, r) /\ x.n # r
        BY <2>1, <3>4
      <4>2. Single(t, r)'
        BY <3>1, <3>3, <3>4, <4>1 DEF Single
      <4>3. answers' = answers /\ written' = written
        BY <1>4
      <4>4. CASE x.n # r \/ ~InTodo(t, r)
        <5>1. InTodo(t, r)' <=> InTodo(t, r)
          BY <4>1, <4>4
        <5> QED BY <3>3, <3>4, <4>2, <4>3, <5>1 DEF Stays, At
      <4>5. CASE x.n = r /\ InTodo(t, r)
        <5>1. At(t, r) /\ ~At(t, r)'
          BY <3>1, <3>3, <3>4, <4>1, <4>5 DEF Single, At
        <5> QED BY <1>5, <4>2, <4>3, <4>5, <5>1 DEF IsLost
      <4> QED BY <4>4, <4>5
    <3> QED BY <2>1, <2>5, <3>2, <3>4
  <2>8. writes' \in Seq(Requests) /\ answers' \in [Requests -> Nat] /\ written' \in 0..MaxWrites
        /\ tasks' \in Seq(Seq(Works)) /\ {up', stalled'} \subseteq BOOLEAN
    BY <1>4, <2>2 DEF ContextIInv, WorkInv, ContextTypeOK
  <2> QED BY <1>4, <1>5, <2>1, <2>6, <2>7, <2>8, QueueStep
<1> QED BY <1>6, <1>7

LEMMA UserTaskStep == ASSUME ContextIInv, NEW m \in TaskCalls, userTask(m) PROVE ContextIInv'
<1> DEFINE s == CallOf(m, 0)
<1>1. Io \in Threads /\ m \in Methods
  BY IOPipelineAssumption DEF Threads, Methods
<1>2. s \in Seq(Blank) /\ s \in Seq(Talk)
  <2>1. s \in Seq(Blank)
    BY <1>1, Tells DEF ContextIInv
  <2> QED BY <2>1, Kinds0, SeqMonotonic
<1> HIDE DEF s
<1>3. /\ todo[Io] = <<>> /\ Becomes(Io, s)
      /\ UNCHANGED <<vars, pipe, writes, tasks, listening, unconnected, requestOf, answers,
                     written, lost, up, stalled>>
  BY DEF userTask, Free, s
<1>4. lost \subseteq lost' /\ lost' \subseteq Requests /\ {up', stalled'} \subseteq BOOLEAN
  BY <1>3 DEF ContextIInv, WorkInv, ContextTypeOK
<1>5. \A r \in Requests :
         LET C == Holding(r, requestOf)
         IN  Once(s, C) /\ ~Has(s, C) /\ ~InTodo(Io, r)
  <2>1. \A r \in Requests : LET C == Holding(r, requestOf) IN ~Has(s, C) /\ Once(s, C)
    BY <1>2, Kinds0, HasNone
  <2>2. \A r \in Requests : ~InTodo(Io, r)
    BY <1>3 DEF InTodo, Has
  <2> QED BY <2>1, <2>2
<1> QED BY <1>1, <1>2, <1>3, <1>4, <1>5, TodoStep

LEMMA WorkerTakesStep == ASSUME ContextIInv, workerTakes PROVE ContextIInv'
<1> DEFINE s == Head(tasks)
<1>1. Worker \in Threads
  BY IOPipelineAssumption DEF Threads
<1>2. /\ todo[Worker] = <<>> /\ tasks # <<>> /\ Becomes(Worker, s) /\ tasks' = Tail(tasks)
      /\ UNCHANGED <<vars, pipe, writes, listening, unconnected, requestOf, answers, written,
                     lost, up, stalled>>
  BY DEF workerTakes, Free
<1>3. tasks \in Seq(Seq(Works))
  BY DEF ContextIInv, WorkInv, ContextTypeOK
<1>4. /\ tasks' \in Seq(Seq(Works)) /\ Len(tasks') = Len(tasks) - 1 /\ Len(tasks) \in Nat
      /\ 1 \in 1..Len(tasks) /\ s = tasks[1]
      /\ \A i \in 1..Len(tasks') : i + 1 \in 1..Len(tasks) /\ tasks'[i] = tasks[i + 1]
  <2>1. /\ Len(tasks) \in Nat /\ Len(tasks) >= 1 /\ Tail(tasks) \in Seq(Seq(Works))
        /\ Len(Tail(tasks)) = Len(tasks) - 1 /\ Head(tasks) = tasks[1]
        /\ \A i \in 1..Len(tasks) - 1 : Tail(tasks)[i] = tasks[i + 1]
    BY <1>2, <1>3, HeadTailProperties
  <2>2. 1 \in 1..Len(tasks) /\ \A i \in 1..Len(tasks) - 1 : i + 1 \in 1..Len(tasks)
    BY <2>1
  <2> QED BY <1>2, <2>1, <2>2
<1> HIDE DEF s
<1>5. \A i \in 1..Len(tasks) :
         \/ \E x \in Sound : x.do = "tell" /\ x.n = 0 /\ tasks[i] = <<x>>
         \/ \E r \in Requests : tasks[i] = Answer(r)
  BY DEF ContextIInv, WorkInv, TasksInv
<1>6. \A i \in 1..Len(tasks') :
         \/ \E x \in Sound : x.do = "tell" /\ x.n = 0 /\ tasks'[i] = <<x>>
         \/ \E r \in Requests : tasks'[i] = Answer(r)
  BY <1>4, <1>5
<1>7. /\ s \in Seq(Talk)
      /\ \A r \in Requests :
            LET C == Holding(r, requestOf)
            IN  Once(s, C) /\ (Has(s, C) <=> s = Answer(r))
  <2>1. CASE \E x \in Sound : x.do = "tell" /\ x.n = 0 /\ s = <<x>>
    <3>1. PICK x \in Sound : x.do = "tell" /\ x.n = 0 /\ s = <<x>>
      BY <2>1
    <3>2. x \in Blank /\ x \in Talk
      BY <3>1 DEF Blank, Talk
    <3>3. s \in Seq(Blank) /\ s \in Seq(Talk)
      BY <3>1, <3>2
    <3>4. \A r \in Requests : s # Answer(r)
      BY <3>1, Answers
    <3>5. \A r \in Requests : LET C == Holding(r, requestOf) IN ~Has(s, C) /\ Once(s, C)
      BY <3>3, Kinds0, HasNone
    <3> QED BY <3>3, <3>4, <3>5
  <2>2. CASE \E r \in Requests : s = Answer(r)
    BY <2>2, Answers
  <2> QED BY <1>4, <1>5, <2>1, <2>2
<1>8. ASSUME NEW r \in Requests
      PROVE  /\ Once(s, Holding(r, requestOf))
             /\ Once(writes', {r}) /\ Once(tasks', {Answer(r)})
             /\ (InTodo(Worker, r)' <=> Has(s, Holding(r, requestOf))) /\ (Heard(r)' <=> Heard(r))
                => /\ Single(Worker, r)'
                   /\ \/ Stays(Worker, r) \/ IsLost(Worker, r) \/ Comes(Worker, r)
                      \/ IsAnswered(Worker, r)
  <2>1. HeldOnce(r) /\ Single(Worker, r) /\ ~InTodo(Worker, r)
    <3>1. ~InTodo(Worker, r)
      BY <1>2 DEF InTodo, Has
    <3> QED BY <1>1, <3>1, Alone
  <2>2. Once(writes', {r}) /\ (InWrites(r)' <=> InWrites(r))
    BY <1>2, <2>1 DEF HeldOnce, InWrites
  <2>3. /\ Once(tasks', {Answer(r)})
        /\ InTasks(r) <=> s = Answer(r) \/ InTasks(r)'
        /\ s = Answer(r) => ~InTasks(r)'
    <3>1. Once(tasks, {Answer(r)})
      BY <2>1 DEF HeldOnce
    <3>2. /\ Once(Tail(tasks), {Answer(r)})
          /\ Has(tasks, {Answer(r)}) <=> Head(tasks) \in {Answer(r)} \/ Has(Tail(tasks), {Answer(r)})
          /\ Head(tasks) \in {Answer(r)} => ~Has(Tail(tasks), {Answer(r)})
      BY <1>2, <1>3, <3>1, HasTail
    <3> QED BY <1>2, <3>2 DEF InTasks, s
  <2>4. ASSUME InTodo(Worker, r)' <=> Has(s, Holding(r, requestOf)), Heard(r)' <=> Heard(r)
        PROVE  Single(Worker, r)' /\ Stays(Worker, r)
    <3>1. InTodo(Worker, r)' <=> s = Answer(r)
      BY <1>7, <2>4
    <3>2. Single(Worker, r)'
      BY <2>1, <2>2, <2>3, <2>4, <3>1 DEF Single
    <3>3. At(Worker, r)' <=> At(Worker, r)
      BY <2>1, <2>2, <2>3, <2>4, <3>1 DEF At
    <3> QED BY <1>2, <3>2, <3>3 DEF Stays
  <2> QED BY <1>7, <2>2, <2>3, <2>4
<1>9. /\ writes' \in Seq(Requests) /\ answers' \in [Requests -> Nat] /\ written' \in 0..MaxWrites
      /\ lost \subseteq lost' /\ lost' \subseteq Requests /\ {up', stalled'} \subseteq BOOLEAN
  BY <1>2 DEF ContextIInv, WorkInv, ContextTypeOK
<1> QED BY <1>1, <1>2, <1>4, <1>6, <1>7, <1>8, <1>9, QueueStep

LEMMA WriteTaskStep == ASSUME ContextIInv, writeTask PROVE ContextIInv'
<1> DEFINE h == Head(writes)
           s == WriteTask(h)
<1>1. Io \in Threads
  BY DEF Threads
<1>2. /\ todo[Io] = <<>> /\ writes # <<>> /\ Becomes(Io, s) /\ writes' = Tail(writes)
      /\ UNCHANGED <<vars, pipe, tasks, listening, unconnected, requestOf, answers, written,
                     lost, up, stalled>>
  BY DEF writeTask, Free
<1>3. writes \in Seq(Requests) /\ h \in Requests /\ writes' \in Seq(Requests)
  <2>1. writes \in Seq(Requests)
    BY DEF ContextIInv, WorkInv, ContextTypeOK
  <2> QED BY <1>2, <2>1
<1> HIDE DEF h
<1>4. /\ s \in Seq(Talk)
      /\ \A r \in Requests :
            LET C == Holding(r, requestOf)
            IN  Once(s, C) /\ (Has(s, C) <=> h = r)
  BY <1>3, Begun DEF ContextIInv
<1> HIDE DEF s
<1>5. ASSUME NEW r \in Requests
      PROVE  /\ Once(s, Holding(r, requestOf))
             /\ Once(writes', {r}) /\ Once(tasks', {Answer(r)})
             /\ (InTodo(Io, r)' <=> Has(s, Holding(r, requestOf))) /\ (Heard(r)' <=> Heard(r))
                => /\ Single(Io, r)'
                   /\ Stays(Io, r) \/ IsLost(Io, r) \/ Comes(Io, r) \/ IsAnswered(Io, r)
  <2>1. HeldOnce(r) /\ Single(Io, r) /\ ~InTodo(Io, r)
    <3>1. ~InTodo(Io, r)
      BY <1>2 DEF InTodo, Has
    <3> QED BY <1>1, <3>1, Alone
  <2>2. Once(tasks', {Answer(r)}) /\ (InTasks(r)' <=> InTasks(r))
    BY <1>2, <2>1 DEF HeldOnce, InTasks
  <2>3. /\ Once(writes', {r})
        /\ InWrites(r) <=> h = r \/ InWrites(r)'
        /\ h = r => ~InWrites(r)'
    <3>1. Once(writes, {r})
      BY <2>1 DEF HeldOnce
    <3>2. /\ Once(Tail(writes), {r})
          /\ Has(writes, {r}) <=> Head(writes) \in {r} \/ Has(Tail(writes), {r})
          /\ Head(writes) \in {r} => ~Has(Tail(writes), {r})
      BY <1>2, <1>3, <3>1, HasTail
    <3> QED BY <1>2, <3>2 DEF InWrites, h
  <2>4. ASSUME InTodo(Io, r)' <=> Has(s, Holding(r, requestOf)), Heard(r)' <=> Heard(r)
        PROVE  Single(Io, r)' /\ Stays(Io, r)
    <3>1. InTodo(Io, r)' <=> h = r
      BY <1>4, <2>4
    <3>2. Single(Io, r)'
      BY <2>1, <2>2, <2>3, <2>4, <3>1 DEF Single
    <3>3. At(Io, r)' <=> At(Io, r)
      BY <2>1, <2>2, <2>3, <2>4, <3>1 DEF At
    <3> QED BY <1>2, <3>2, <3>3 DEF Stays
  <2> QED BY <1>4, <2>2, <2>3, <2>4
<1>6. \A i \in 1..Len(tasks') :
         \/ \E x \in Sound : x.do = "tell" /\ x.n = 0 /\ tasks'[i] = <<x>>
         \/ \E r \in Requests : tasks'[i] = Answer(r)
  BY <1>2 DEF ContextIInv, WorkInv, TasksInv
<1>7. /\ tasks' \in Seq(Seq(Works)) /\ answers' \in [Requests -> Nat] /\ written' \in 0..MaxWrites
      /\ lost \subseteq lost' /\ lost' \subseteq Requests /\ {up', stalled'} \subseteq BOOLEAN
  BY <1>2 DEF ContextIInv, WorkInv, ContextTypeOK
<1> QED BY <1>1, <1>2, <1>3, <1>4, <1>5, <1>6, <1>7, QueueStep

LEMMA RequestAnswerStep == ASSUME ContextIInv, NEW t \in Threads, answer(t) PROVE ContextIInv'
<1> DEFINE x == Head(todo[t])
           s == <<>> \o Tail(todo[t])
           n == x.n
<1>1. /\ todo[t] # <<>> /\ x.do = "answer" /\ Replace(t, <<>>)
      /\ \/ tasks' = Append(tasks, Answer(n)) /\ UNCHANGED answers
         \/ answers' = [answers EXCEPT ![n] = @ + 1] /\ UNCHANGED tasks
      /\ UNCHANGED <<vars, pipe, writes, listening, unconnected, requestOf, written, lost, up,
                     stalled>>
  BY DEF answer, Doing
<1>2. n \in Requests /\ \A r \in Requests : x \in Holding(r, requestOf) <=> n = r
  <2>1. x \in Sound /\ \A r \in Requests : x \in Holding(r, requestOf) <=> x.n = r
    BY <1>1, HeadHolds
  <2> QED BY <1>1, <2>1 DEF Sound
<1>3. /\ s \in Seq(Talk) /\ Becomes(t, s)
      /\ \A r \in Requests :
            /\ Once(s, Holding(r, requestOf))
            /\ Has(s, Holding(r, requestOf)) <=> InTodo(t, r) /\ n # r
  BY <1>1, <1>2, Dropping DEF Replace
<1>4. InTodo(t, n)
  <2>1. todo[t][1] = x /\ 1 \in 1..Len(todo[t])
    BY <1>1, Stacks DEF ContextIInv
  <2> QED BY <1>2, <2>1 DEF InTodo, Has
<1> HIDE DEF s, n, x
<1>5. /\ writes' \in Seq(Requests) /\ written' \in 0..MaxWrites
      /\ lost \subseteq lost' /\ lost' \subseteq Requests /\ {up', stalled'} \subseteq BOOLEAN
      /\ tasks \in Seq(Seq(Works)) /\ answers \in [Requests -> Nat]
  BY <1>1 DEF ContextIInv, WorkInv, ContextTypeOK
<1>6. \A i \in 1..Len(tasks) :
         \/ \E y \in Sound : y.do = "tell" /\ y.n = 0 /\ tasks[i] = <<y>>
         \/ \E r \in Requests : tasks[i] = Answer(r)
  BY DEF ContextIInv, WorkInv, TasksInv
<1>7. CASE tasks' = Append(tasks, Answer(n)) /\ UNCHANGED answers
  <2> DEFINE z == Answer(n)
  <2>1. z \in Seq(Works) /\ \A r \in Requests : z = Answer(r) <=> n = r
    BY <1>2, Answers
  <2>2. \E r \in Requests : z = Answer(r)
    BY <1>2
  <2>3. tasks' = Append(tasks, z)
    BY <1>7
  <2> HIDE DEF z
  <2>4. \A i \in 1..Len(tasks') :
           \/ \E y \in Sound : y.do = "tell" /\ y.n = 0 /\ tasks'[i] = <<y>>
           \/ \E r \in Requests : tasks'[i] = Answer(r)
    <3> TAKE i \in 1..Len(tasks')
    <3>1. (i \in 1..Len(tasks) /\ tasks'[i] = tasks[i]) \/ tasks'[i] = z
      BY <1>5, <2>1, <2>3
    <3> QED BY <1>6, <2>2, <3>1
  <2>5. ASSUME NEW r \in Requests
        PROVE  /\ Once(s, Holding(r, requestOf))
               /\ Once(writes', {r}) /\ Once(tasks', {Answer(r)})
               /\ (InTodo(t, r)' <=> Has(s, Holding(r, requestOf))) /\ (Heard(r)' <=> Heard(r))
                  => /\ Single(t, r)'
                     /\ Stays(t, r) \/ IsLost(t, r) \/ Comes(t, r) \/ IsAnswered(t, r)
    <3>1. HeldOnce(r) /\ Single(t, r)
      BY Alone
    <3>2. Once(writes', {r}) /\ (InWrites(r)' <=> InWrites(r))
      BY <1>1, <3>1 DEF HeldOnce, InWrites
    <3>3. /\ Once(tasks', {Answer(r)})
          /\ InTasks(r)' <=> InTasks(r) \/ n = r
      <4>1. Once(tasks, {Answer(r)})
        BY <3>1 DEF HeldOnce
      <4>2. n = r => ~Has(tasks, {Answer(r)})
        BY <1>4, <3>1 DEF Single, InTasks
      <4>3. /\ Has(Append(tasks, z), {Answer(r)}) <=> Has(tasks, {Answer(r)}) \/ z \in {Answer(r)}
            /\ Once(tasks, {Answer(r)}) /\ ~(Has(tasks, {Answer(r)}) /\ z \in {Answer(r)})
               => Once(Append(tasks, z), {Answer(r)})
        BY <1>5, <2>1, HasAppend
      <4> QED BY <2>1, <2>3, <4>1, <4>2, <4>3 DEF InTasks
    <3>4. ASSUME InTodo(t, r)' <=> Has(s, Holding(r, requestOf)), Heard(r)' <=> Heard(r)
          PROVE  Single(t, r)' /\ Stays(t, r)
      <4>1. InTodo(t, r)' <=> InTodo(t, r) /\ n # r
        BY <1>3, <3>4
      <4>2. Single(t, r)'
        BY <1>4, <3>1, <3>2, <3>3, <3>4, <4>1 DEF Single
      <4>3. At(t, r)' <=> At(t, r)
        BY <1>4, <3>1, <3>2, <3>3, <3>4, <4>1 DEF At
      <4> QED BY <1>1, <1>7, <4>2, <4>3 DEF Stays
    <3> QED BY <1>3, <3>2, <3>3, <3>4
  <2>6. tasks' \in Seq(Seq(Works)) /\ answers' \in [Requests -> Nat]
    BY <1>5, <1>7, <2>1, <2>3
  <2> QED BY <1>1, <1>3, <1>5, <2>4, <2>5, <2>6, QueueStep
<1>8. CASE answers' = [answers EXCEPT ![n] = @ + 1] /\ UNCHANGED tasks
  <2>1. \A i \in 1..Len(tasks') :
           \/ \E y \in Sound : y.do = "tell" /\ y.n = 0 /\ tasks'[i] = <<y>>
           \/ \E r \in Requests : tasks'[i] = Answer(r)
    BY <1>6, <1>8
  <2>2. ASSUME NEW r \in Requests
        PROVE  /\ Once(s, Holding(r, requestOf))
               /\ Once(writes', {r}) /\ Once(tasks', {Answer(r)})
               /\ (InTodo(t, r)' <=> Has(s, Holding(r, requestOf))) /\ (Heard(r)' <=> Heard(r))
                  => /\ Single(t, r)'
                     /\ Stays(t, r) \/ IsLost(t, r) \/ Comes(t, r) \/ IsAnswered(t, r)
    <3>1. HeldOnce(r) /\ Single(t, r)
      BY Alone
    <3>2. /\ Once(writes', {r}) /\ (InWrites(r)' <=> InWrites(r))
          /\ Once(tasks', {Answer(r)}) /\ (InTasks(r)' <=> InTasks(r))
      BY <1>1, <1>8, <3>1 DEF HeldOnce, InWrites, InTasks
    <3>3. ASSUME InTodo(t, r)' <=> Has(s, Holding(r, requestOf)), Heard(r)' <=> Heard(r)
          PROVE  Single(t, r)' /\ (Stays(t, r) \/ IsAnswered(t, r))
      <4>1. InTodo(t, r)' <=> InTodo(t, r) /\ n # r
        BY <1>3, <3>3
      <4>2. Single(t, r)'
        BY <3>1, <3>2, <3>3, <4>1 DEF Single
      <4>3. CASE n # r
        <5>1. (At(t, r)' <=> At(t, r)) /\ answers'[r] = answers[r]
          BY <1>2, <1>5, <1>8, <3>2, <3>3, <4>1, <4>3 DEF At
        <5> QED BY <1>1, <4>2, <5>1 DEF Stays
      <4>4. CASE n = r
        <5>1. At(t, r) /\ ~At(t, r)'
          BY <1>4, <3>1, <3>2, <3>3, <4>1, <4>4 DEF Single, At
        <5>2. answers'[r] = answers[r] + 1
          BY <1>2, <1>5, <1>8, <4>4
        <5> QED BY <1>1, <4>2, <5>1, <5>2 DEF IsAnswered
      <4> QED BY <4>3, <4>4
    <3> QED BY <1>3, <3>2, <3>3
  <2>3. tasks' \in Seq(Seq(Works)) /\ answers' \in [Requests -> Nat]
    BY <1>2, <1>5, <1>8
  <2> QED BY <1>1, <1>3, <1>5, <2>1, <2>2, <2>3, QueueStep
<1> QED BY <1>1, <1>7, <1>8

\* A call of write() makes a request that nobody holds yet.
LEMMA NewRequest ==
    ASSUME ContextIInv, written < MaxWrites, written' = written + 1
    PROVE  /\ written + 1 \in Requests /\ written' \in 0..MaxWrites
           /\ ~Held(written + 1)
           /\ \A r \in Requests : r # written + 1 => (r <= written' <=> r <= written)
           /\ written + 1 > written /\ written + 1 <= written'
<1>1. written \in Nat /\ MaxWrites \in Nat
  BY IOPipelineAssumption DEF ContextIInv, WorkInv, ContextTypeOK
<1>2. written + 1 \in Requests /\ written + 1 > written /\ written' \in 0..MaxWrites
      /\ written + 1 <= written'
  BY <1>1 DEF Requests
<1>3. ~Held(written + 1)
  BY <1>2 DEF ContextIInv, RequestInv, AnswerInv
<1>4. \A r \in Requests : r # written + 1 => (r <= written' <=> r <= written)
  BY <1>1 DEF Requests
<1> QED BY <1>2, <1>3, <1>4

LEMMA StageWritesStep == ASSUME ContextIInv, NEW t \in Threads, stageWrites(t) PROVE ContextIInv'
<1> DEFINE x == Head(todo[t])
           w == written + 1
           n == x.n
<1>1. /\ todo[t] # <<>> /\ x.do = "tell"
      /\ written < MaxWrites /\ written' = w
      /\ \/ t = Io /\ Replace(t, WriteTask(w)) /\ UNCHANGED writes
         \/ Replace(t, <<>>) /\ writes' = Append(writes, w)
      /\ lost' = (lost \cup {n}) \ {0}
      /\ UNCHANGED <<vars, pipe, tasks, listening, unconnected, requestOf, answers, up>>
  BY DEF stageWrites, Doing
<1>2. /\ n \in Requests \cup {0} /\ x \in Sound
      /\ \A r \in Requests : x \in Holding(r, requestOf) <=> n = r
  BY <1>1, HeadHolds
<1>3. /\ w \in Requests /\ written' \in 0..MaxWrites /\ ~Held(w)
      /\ \A r \in Requests : r # w => (r <= written' <=> r <= written)
      /\ w > written /\ w <= written'
  BY <1>1, NewRequest
<1>4. n \in Requests => InTodo(t, n)
  <2>1. todo[t][1] = x /\ 1 \in 1..Len(todo[t])
    BY <1>1, Stacks DEF ContextIInv
  <2> QED BY <1>2, <2>1 DEF InTodo, Has
<1>5. n # w
  BY <1>3, <1>4, Alone
<1>6. stalled' \in BOOLEAN
  BY DEF stageWrites, ContextIInv, WorkInv, ContextTypeOK
<1>7. /\ tasks' \in Seq(Seq(Works)) /\ answers' \in [Requests -> Nat]
      /\ {up', stalled'} \subseteq BOOLEAN /\ lost \subseteq Requests
      /\ writes \in Seq(Requests)
  BY <1>1, <1>6 DEF ContextIInv, WorkInv, ContextTypeOK
<1>8. \A i \in 1..Len(tasks') :
         \/ \E y \in Sound : y.do = "tell" /\ y.n = 0 /\ tasks'[i] = <<y>>
         \/ \E r \in Requests : tasks'[i] = Answer(r)
  BY <1>1 DEF ContextIInv, WorkInv, TasksInv
<1> HIDE DEF x, n, w
<1>9. lost \subseteq lost' /\ lost' \subseteq Requests /\ (n \in Requests => n \in lost')
  BY <1>1, <1>2, <1>7, Numbers
<1>10. CASE t = Io /\ Replace(t, WriteTask(w)) /\ UNCHANGED writes
  <2> DEFINE b == WriteTask(w)
             e == Tail(todo[t])
             s == b \o e
  <2>1. /\ b \in Seq(Talk)
        /\ \A r \in Requests :
              LET C == Holding(r, requestOf)
              IN  Once(b, C) /\ (Has(b, C) <=> w = r)
    BY <1>3, Begun DEF ContextIInv
  <2>2. /\ e \in Seq(Talk) /\ todo[t] \in Seq(Sound)
    BY <1>1, Stacks DEF ContextIInv
  <2>3. Becomes(t, s)
    BY <1>10 DEF Replace
  <2> HIDE DEF b
  <2>4. ASSUME NEW r \in Requests, NEW C, C = Holding(r, requestOf)
        PROVE  Once(s, C) /\ (Has(s, C) <=> w = r \/ (InTodo(t, r) /\ n # r))
    <3>1. Once(todo[t], C)
      BY <2>4, Alone DEF HeldOnce
    <3>2. /\ Once(e, C)
          /\ Has(todo[t], C) <=> x \in C \/ Has(e, C)
          /\ x \in C => ~Has(e, C)
      BY <1>1, <2>2, <3>1, HasTail DEF x
    <3>3. Has(e, C) <=> InTodo(t, r) /\ n # r
      BY <1>2, <2>4, <3>2 DEF InTodo
    <3>4. ~InTodo(t, w)
      BY <1>3, Alone
    <3> HIDE DEF e
    <3>5. /\ Has(b \o e, C) <=> Has(b, C) \/ Has(e, C)
          /\ Once(b, C) /\ Once(e, C) /\ ~(Has(b, C) /\ Has(e, C)) => Once(b \o e, C)
      BY <2>1, <2>2, HasConcat
    <3> QED BY <2>1, <2>4, <3>2, <3>3, <3>4, <3>5
  <2>5. s \in Seq(Talk)
    BY <2>1, <2>2
  <2> HIDE DEF s
  <2>6. ASSUME NEW r \in Requests
        PROVE  /\ Once(s, Holding(r, requestOf))
               /\ Once(writes', {r}) /\ Once(tasks', {Answer(r)})
               /\ (InTodo(t, r)' <=> Has(s, Holding(r, requestOf))) /\ (Heard(r)' <=> Heard(r))
                  => /\ Single(t, r)'
                     /\ Stays(t, r) \/ IsLost(t, r) \/ Comes(t, r) \/ IsAnswered(t, r)
    <3>1. HeldOnce(r) /\ Single(t, r)
      BY Alone
    <3>2. /\ Once(writes', {r}) /\ (InWrites(r)' <=> InWrites(r))
          /\ Once(tasks', {Answer(r)}) /\ (InTasks(r)' <=> InTasks(r))
      BY <1>1, <1>10, <3>1 DEF HeldOnce, InWrites, InTasks
    <3>3. ASSUME InTodo(t, r)' <=> Has(s, Holding(r, requestOf)), Heard(r)' <=> Heard(r)
          PROVE  Single(t, r)' /\ (Stays(t, r) \/ IsLost(t, r) \/ Comes(t, r))
      <4>1. InTodo(t, r)' <=> w = r \/ (InTodo(t, r) /\ n # r)
        BY <2>4, <3>3
      <4>2. answers'[r] = answers[r]
        BY <1>1
      <4>3. CASE w = r
        <5>1. ~At(t, r) /\ ~Held(r)
          BY <1>3, <4>3, Alone
        <5>2. Single(t, r)' /\ At(t, r)'
          BY <3>2, <3>3, <4>1, <4>3, <5>1 DEF Single, At
        <5> QED BY <1>3, <4>2, <4>3, <5>1, <5>2 DEF Comes
      <4>4. CASE w # r /\ n # r
        <5>1. Single(t, r)' /\ (At(t, r)' <=> At(t, r))
          BY <3>1, <3>2, <3>3, <4>1, <4>4 DEF Single, At
        <5> QED BY <1>3, <4>2, <4>4, <5>1 DEF Stays
      <4>5. CASE w # r /\ n = r
        <5>1. Single(t, r)' /\ At(t, r) /\ ~At(t, r)'
          BY <1>4, <3>1, <3>2, <3>3, <4>1, <4>5 DEF Single, At
        <5> QED BY <1>3, <1>9, <4>2, <4>5, <5>1 DEF IsLost
      <4> QED BY <4>3, <4>4, <4>5
    <3> QED BY <2>4, <3>2, <3>3
  <2>7. writes' \in Seq(Requests)
    BY <1>7, <1>10
  <2> QED BY <1>1, <1>3, <1>7, <1>8, <1>9, <2>3, <2>5, <2>6, <2>7, QueueStep
<1>11. CASE Replace(t, <<>>) /\ writes' = Append(writes, w)
  <2> DEFINE s == <<>> \o Tail(todo[t])
  <2>1. /\ s \in Seq(Talk) /\ Becomes(t, s)
        /\ \A r \in Requests :
              /\ Once(s, Holding(r, requestOf))
              /\ Has(s, Holding(r, requestOf)) <=> InTodo(t, r) /\ n # r
    BY <1>1, <1>2, <1>11, Dropping DEF Replace, x
  <2> HIDE DEF s
  <2>2. ASSUME NEW r \in Requests
        PROVE  /\ Once(s, Holding(r, requestOf))
               /\ Once(writes', {r}) /\ Once(tasks', {Answer(r)})
               /\ (InTodo(t, r)' <=> Has(s, Holding(r, requestOf))) /\ (Heard(r)' <=> Heard(r))
                  => /\ Single(t, r)'
                     /\ Stays(t, r) \/ IsLost(t, r) \/ Comes(t, r) \/ IsAnswered(t, r)
    <3>1. HeldOnce(r) /\ Single(t, r)
      BY Alone
    <3>2. Once(tasks', {Answer(r)}) /\ (InTasks(r)' <=> InTasks(r))
      BY <1>1, <3>1 DEF HeldOnce, InTasks
    <3>3. Once(writes', {r}) /\ (InWrites(r)' <=> InWrites(r) \/ w = r)
      <4>1. Once(writes, {r})
        BY <3>1 DEF HeldOnce
      <4>2. w = r => ~Has(writes, {r})
        BY <1>3, Alone DEF InWrites
      <4>3. /\ Has(Append(writes, w), {r}) <=> Has(writes, {r}) \/ w \in {r}
            /\ Once(writes, {r}) /\ ~(Has(writes, {r}) /\ w \in {r})
               => Once(Append(writes, w), {r})
        BY <1>3, <1>7, HasAppend
      <4> QED BY <1>11, <4>1, <4>2, <4>3 DEF InWrites
    <3>4. ASSUME InTodo(t, r)' <=> Has(s, Holding(r, requestOf)), Heard(r)' <=> Heard(r)
          PROVE  Single(t, r)' /\ (Stays(t, r) \/ IsLost(t, r) \/ Comes(t, r))
      <4>1. InTodo(t, r)' <=> InTodo(t, r) /\ n # r
        BY <2>1, <3>4
      <4>2. answers'[r] = answers[r]
        BY <1>1
      <4>3. CASE w = r
        <5>1. ~At(t, r) /\ ~Held(r)
          BY <1>3, <4>3, Alone
        <5>2. Single(t, r)' /\ At(t, r)'
          BY <3>2, <3>3, <3>4, <4>1, <4>3, <5>1 DEF Single, At
        <5> QED BY <1>3, <4>2, <4>3, <5>1, <5>2 DEF Comes
      <4>4. CASE w # r /\ n # r
        <5>1. Single(t, r)' /\ (At(t, r)' <=> At(t, r))
          BY <3>1, <3>2, <3>3, <3>4, <4>1, <4>4 DEF Single, At
        <5> QED BY <1>3, <4>2, <4>4, <5>1 DEF Stays
      <4>5. CASE w # r /\ n = r
        <5>1. Single(t, r)' /\ At(t, r) /\ ~At(t, r)'
          BY <1>4, <3>1, <3>2, <3>3, <3>4, <4>1, <4>5 DEF Single, At
        <5> QED BY <1>3, <1>9, <4>2, <4>5, <5>1 DEF IsLost
      <4> QED BY <4>3, <4>4, <4>5
    <3> QED BY <2>1, <3>2, <3>3, <3>4
  <2>3. writes' \in Seq(Requests)
    BY <1>3, <1>7, <1>11
  <2> QED BY <1>1, <1>3, <1>7, <1>8, <1>9, <2>1, <2>2, <2>3, QueueStep
<1> QED BY <1>1, <1>10, <1>11

LEMMA CallWriteStep == ASSUME ContextIInv, callWrite PROVE ContextIInv'
<1> DEFINE w == written + 1
<1>1. /\ written < MaxWrites /\ written' = w /\ writes' = Append(writes, w)
      /\ UNCHANGED <<vars, pipe, todo, tasks, listening, unconnected, requestOf, answers, lost,
                     up, stalled>>
  BY DEF callWrite
<1>2. /\ w \in Requests /\ written' \in 0..MaxWrites /\ ~Held(w)
      /\ \A r \in Requests : r # w => (r <= written' <=> r <= written)
      /\ w > written /\ w <= written'
  BY <1>1, NewRequest
<1> HIDE DEF w
<1>3. writes \in Seq(Requests) /\ written \in Nat
  BY IOPipelineAssumption DEF ContextIInv, WorkInv, ContextTypeOK
<1>4. UNCHANGED <<calls, method, future, pc, job>>
  BY <1>1 DEF vars, record, thread
<1>5. PipeInv' /\ ListenInv' /\ RequestOfInv' /\ Sound' = Sound
  BY <1>1, <1>4 DEF ContextIInv, PipeInv, ListenInv, RequestOfInv, Sound, InPipe
<1>6. WorkInv'
  <2>1. writes' \in Seq(Requests)
    BY <1>1, <1>2, <1>3
  <2>2. ContextTypeOK'
    BY <1>1, <1>2, <2>1 DEF ContextIInv, WorkInv, ContextTypeOK
  <2> QED BY <1>1, <1>5, <2>2 DEF ContextIInv, WorkInv, TasksInv
<1>7. ASSUME NEW r \in Requests PROVE HeldOnce(r)' /\ HeldAlone(r)' /\ AnswerInv(r)'
  <2>1. Io \in Threads
    BY DEF Threads
  <2>2. HeldOnce(r) /\ HeldAlone(r) /\ AnswerInv(r) /\ Single(Io, r)
    BY <2>1, Alone
  <2>3. Once(writes', {r}) /\ (InWrites(r)' <=> InWrites(r) \/ w = r)
    <3>1. Once(writes, {r})
      BY <2>2 DEF HeldOnce
    <3>2. w = r => ~Has(writes, {r})
      BY <1>2, <2>1, Alone DEF InWrites
    <3>3. /\ Has(Append(writes, w), {r}) <=> Has(writes, {r}) \/ w \in {r}
          /\ Once(writes, {r}) /\ ~(Has(writes, {r}) /\ w \in {r})
             => Once(Append(writes, w), {r})
      BY <1>2, <1>3, HasAppend
    <3> QED BY <1>1, <3>1, <3>2, <3>3 DEF InWrites
  <2>4. /\ InTasks(r)' <=> InTasks(r)
        /\ Heard(r)' <=> Heard(r)
        /\ \A u \in Threads : InTodo(u, r)' <=> InTodo(u, r)
    BY <1>1 DEF InTasks, Heard, InTodo
  <2>5. HeldOnce(r)'
    BY <1>1, <2>2, <2>3 DEF HeldOnce
  <2>6. answers'[r] = answers[r]
    BY <1>1
  <2>7. Single(Io, r)' /\ (Stays(Io, r) \/ Comes(Io, r))
    <3>1. CASE w = r
      <4>1. ~At(Io, r) /\ ~Held(r)
        BY <1>2, <2>1, <3>1, Alone
      <4>2. Single(Io, r)' /\ At(Io, r)'
        BY <2>1, <2>3, <2>4, <3>1, <4>1 DEF Single, At
      <4> QED BY <1>2, <2>6, <3>1, <4>1, <4>2 DEF Comes
    <3>2. CASE w # r
      <4>1. Single(Io, r)' /\ (At(Io, r)' <=> At(Io, r))
        BY <2>1, <2>2, <2>3, <2>4, <3>2 DEF Single, At
      <4> QED BY <1>2, <2>6, <3>2, <4>1 DEF Stays
    <3> QED BY <3>1, <3>2
  <2>8. written' \in Nat /\ lost \subseteq lost'
    BY <1>1, <1>2
  <2>9. HeldAlone(r)' /\ AnswerInv(r)'
    BY <1>3, <2>1, <2>2, <2>4, <2>7, <2>8, RequestStep
  <2> QED BY <2>5, <2>9
<1>8. RequestInv'
  BY <1>7 DEF RequestInv
<1> QED BY <1>5, <1>6, <1>8 DEF ContextIInv

\* What is left of a sequence behind a place.
LEMMA Behind ==
    ASSUME NEW S, NEW s \in Seq(S), NEW i \in 1..Len(s)
    PROVE  LET b == SubSeq(s, i + 1, Len(s))
           IN  /\ Len(b) = Len(s) - i
               /\ \A j \in 1..Len(b) : i + j \in i + 1..Len(s) /\ b[j] = s[i + j]
               /\ \A j \in i + 1..Len(s) : j - i \in 1..Len(b) /\ b[j - i] = s[j]
               /\ b \in Seq(S)
<1> DEFINE n == Len(s)
           b == SubSeq(s, i + 1, n)
<1>1. n \in Nat /\ i \in Nat /\ i >= 1 /\ i <= n /\ n - i \in Nat /\ (n - (i + 1)) + 1 = n - i
  OBVIOUS
<1>2. b = [j \in 1..(n - (i + 1)) + 1 |-> s[((i + 1) + j) - 1]]
  BY <1>1
<1>3. \A j \in 1..n - i : ((i + 1) + j) - 1 = i + j /\ i + j \in i + 1..n /\ i + j \in 1..n
  BY <1>1
<1>4. b = [j \in 1..n - i |-> s[i + j]]
  BY <1>1, <1>2, <1>3
<1> HIDE DEF b
<1>5. \A j \in 1..n - i : b[j] = s[i + j] /\ s[i + j] \in S
  BY <1>3, <1>4
<1>6. b \in Seq(S) /\ Len(b) = n - i
  <2>1. b = [j \in 1..n - i |-> b[j]]
    BY <1>4
  <2>2. b \in Seq(S)
    <3> DEFINE m == n - i
    <3>1. m \in Nat /\ b = [j \in 1..m |-> b[j]] /\ \A j \in 1..m : b[j] \in S
      BY <1>1, <1>5, <2>1
    <3> HIDE DEF m
    <3> QED BY <3>1, IsASeq
  <2> QED BY <1>1, <2>1, <2>2
<1>7. \A j \in i + 1..n : j - i \in 1..n - i /\ i + (j - i) = j
  BY <1>1
<1>8. \A j \in i + 1..n : j - i \in 1..Len(b) /\ b[j - i] = s[j]
  <2> TAKE j \in i + 1..n
  <2>1. j - i \in 1..n - i /\ i + (j - i) = j
    BY <1>7
  <2> QED BY <1>5, <1>6, <2>1
<1> QED BY <1>3, <1>5, <1>6, <1>8 DEF b

LEMMA ThrowStep == ASSUME ContextIInv, NEW t \in Threads, throw(t) PROVE ContextIInv'
<1> DEFINE d == todo[t]
           n == Len(d)
           i == SelectInSeq(d, LAMBDA x : x.do = "endTry")
           above == IF i = 0 THEN d ELSE SubSeq(d, 1, i)
           below == SubSeq(d, i + 1, n)
           s == IF i = 0 THEN <<>> ELSE Exceptions \o below
           gone == {above[k].n : k \in {k \in DOMAIN above :
                        above[k].do \in {"tell", "call", "post", "answer"}}}
<1>1. /\ d # <<>> /\ Head(d).do = "throw" /\ Becomes(t, s) /\ lost' = (lost \cup gone) \ {0}
      /\ UNCHANGED <<vars, pipe, tasks, writes, listening, unconnected, requestOf, answers,
                     written, up, stalled>>
  BY DEF throw, Doing
<1>2. /\ d \in Seq(Sound) /\ n \in Nat /\ 1 \in 1..n /\ d[1].do = "throw"
      /\ \A j \in 1..n : d[j] \in Sound
  <2>1. d \in Seq(Sound) /\ d[1] = Head(d) /\ 1 \in 1..n
    BY <1>1, Stacks DEF ContextIInv
  <2>2. n \in Nat /\ \A j \in 1..n : d[j] \in Sound
    BY <2>1
  <2> QED BY <1>1, <2>1, <2>2
<1>3. \A j \in 1..n : d[j].do # "listen"
  <2> TAKE j \in 1..n
  <2>1. d[j].do = "listen" => j = 1
    BY DEF ContextIInv, ListenInv
  <2> QED BY <1>2, <2>1
<1>4. i = 0 \/ i \in 1..n
  <2> DEFINE I == {j \in 1..n : d[j].do = "endTry"}
  <2>1. i = IF I = {} THEN 0 ELSE Min(I)
    BY DEF SelectInSeq
  <2>2. I # {} => Min(I) \in I
    <3>1. I \subseteq Nat
      BY <1>2
    <3> QED BY <3>1, LeastElement DEF Min
  <2> QED BY <2>1, <2>2
<1> HIDE DEF i, d
<1>5. \A j \in 1..n : i = 0 \/ j <= i => j \in DOMAIN above /\ above[j] = d[j]
  <2>1. CASE i = 0
    BY <1>2, <2>1
  <2>2. CASE i \in 1..n
    <3>1. i # 0 /\ i \in Nat /\ i <= n
      BY <1>2, <2>2
    <3>2. above = SubSeq(d, 1, i)
      BY <3>1
    <3>3. above = [j \in 1..(i - 1) + 1 |-> d[(1 + j) - 1]]
      BY <1>2, <3>1, <3>2
    <3>4. \A j \in 1..n : j <= i => j \in 1..(i - 1) + 1 /\ (1 + j) - 1 = j
      BY <1>2, <3>1
    <3> QED BY <3>1, <3>3, <3>4
  <2> QED BY <1>4, <2>1, <2>2
<1>6. \A k \in DOMAIN above : above[k] \in Sound
  <2>1. CASE i = 0
    BY <1>2, <2>1
  <2>2. CASE i \in 1..n
    <3>1. i # 0 /\ i \in Nat /\ i <= n
      BY <1>2, <2>2
    <3>2. above = SubSeq(d, 1, i)
      BY <3>1
    <3>3. above = [j \in 1..(i - 1) + 1 |-> d[(1 + j) - 1]]
      BY <1>2, <3>1, <3>2
    <3>4. \A j \in 1..(i - 1) + 1 : (1 + j) - 1 \in 1..n
      BY <1>2, <3>1
    <3> QED BY <1>2, <3>3, <3>4
  <2> QED BY <1>4, <2>1, <2>2
<1> HIDE DEF above
<1>7. gone \subseteq Requests \cup {0}
  BY <1>6 DEF Sound
<1>8. \A j \in 1..n, r \in Requests :
         (i = 0 \/ j <= i) /\ d[j] \in Holding(r, requestOf) => r \in gone
  <2> SUFFICES ASSUME NEW j \in 1..n, NEW r \in Requests, i = 0 \/ j <= i,
                      d[j] \in Holding(r, requestOf)
               PROVE  r \in gone
    OBVIOUS
  <2>1. d[j].do \in {"tell", "call", "post", "answer"} /\ d[j].n = r
    BY <1>3 DEF Holding
  <2>2. j \in DOMAIN above /\ above[j] = d[j]
    BY <1>5
  <2> QED BY <2>1, <2>2
<1> HIDE DEF gone
<1>9. lost \subseteq lost' /\ lost' \subseteq Requests /\ {up', stalled'} \subseteq BOOLEAN
      /\ \A r \in Requests : r \in gone => r \in lost'
  BY <1>1, <1>7, Numbers DEF ContextIInv, WorkInv, ContextTypeOK
<1>10. /\ s \in Seq(Talk)
       /\ \A r \in Requests :
             LET C == Holding(r, requestOf)
             IN  /\ Once(s, C)
                 /\ Has(s, C) => InTodo(t, r)
                 /\ InTodo(t, r) => Has(s, C) \/ r \in lost'
  <2>1. CASE i = 0
    <3>1. s = <<>> /\ s \in Seq(Talk) /\ Len(s) = 0
      BY <2>1
    <3> HIDE DEF s
    <3>2. \A C : ~Has(s, C) /\ Once(s, C)
      BY <3>1 DEF Has, Once
    <3>3. \A r \in Requests : InTodo(t, r) => r \in lost'
      BY <1>8, <1>9, <2>1 DEF InTodo, Has, d
    <3> QED BY <3>1, <3>2, <3>3
  <2>2. CASE i \in 1..n
    <3>1. s = Exceptions \o below
      BY <2>2
    <3>2. Exceptions \in Seq(Blank) /\ Exceptions \in Seq(Talk)
      <4>1. Exceptions \in Seq(Blank)
        BY Tells DEF ContextIInv
      <4> QED BY <4>1, Kinds0, SeqMonotonic
    <3>3. /\ \A j \in 1..Len(below) : i + j \in i + 1..n /\ below[j] = d[i + j]
          /\ \A j \in i + 1..n : j - i \in 1..Len(below) /\ below[j - i] = d[j]
          /\ below \in Seq(Sound)
      BY <1>2, <2>2, Behind
    <3>4. i \in Nat /\ (\A j \in i + 1..n : j \in 1..n /\ j - i \in Int)
          /\ (\A j \in 1..n : j <= i \/ j \in i + 1..n)
      BY <1>2, <2>2
    <3> HIDE DEF s, below
    <3>5. below \in Seq(Talk)
      <4>1. Len(below) \in Nat /\ below = [j \in 1..Len(below) |-> below[j]]
            /\ \A j \in 1..Len(below) : below[j] \in Sound
        BY <3>3
      <4>2. \A j \in 1..Len(below) : below[j] \in Talk
        BY <1>3, <3>3, <3>4, <4>1 DEF Talk
      <4> QED BY <4>1, <4>2, IsASeq
    <3>6. s \in Seq(Talk)
      BY <3>1, <3>2, <3>5
    <3>7. ASSUME NEW r \in Requests, NEW C, C = Holding(r, requestOf)
          PROVE  /\ Once(s, C)
                 /\ Has(s, C) => InTodo(t, r)
                 /\ InTodo(t, r) => Has(s, C) \/ r \in lost'
      <4>1. ~Has(Exceptions, C) /\ Once(Exceptions, C)
        BY <3>2, <3>7, Kinds0, HasNone
      <4>2. Once(d, C) /\ (InTodo(t, r) <=> Has(d, C))
        BY <3>7, Alone DEF HeldOnce, InTodo, d
      <4>3. Once(below, C)
        <5> SUFFICES ASSUME NEW j \in 1..Len(below), NEW k \in 1..Len(below),
                            below[j] \in C, below[k] \in C
                     PROVE  j = k
          BY DEF Once
        <5>1. i + j = i + k
          BY <3>3, <3>4, <4>2 DEF Once
        <5>2. Len(below) \in Nat
          BY <3>5
        <5> QED BY <3>4, <5>1, <5>2
      <4>4. Has(below, C) => Has(d, C)
        BY <3>3, <3>4 DEF Has
      <4>5. Has(d, C) => Has(below, C) \/ r \in lost'
        BY <1>8, <1>9, <3>3, <3>4, <3>7 DEF Has
      <4>6. /\ Has(Exceptions \o below, C) <=> Has(Exceptions, C) \/ Has(below, C)
            /\ Once(Exceptions, C) /\ Once(below, C) /\ ~(Has(Exceptions, C) /\ Has(below, C))
               => Once(Exceptions \o below, C)
        BY <3>2, <3>5, HasConcat
      <4> QED BY <3>1, <4>1, <4>2, <4>3, <4>4, <4>5, <4>6
    <3> QED BY <3>6, <3>7
  <2> QED BY <1>4, <2>1, <2>2
<1> HIDE DEF s
<1> QED BY <1>1, <1>9, <1>10, TodoStep

------------------------------------------------------------------------------
\* Listening.

LEMMA Turned ==
    ASSUME todo \in [Threads -> Seq(Works)], NEW t \in Threads, NEW S, S \subseteq Works,
           NEW s \in Seq(S), Becomes(t, s)
    PROVE  /\ todo' \in [Threads -> Seq(Works)] /\ todo'[t] = Left(s) /\ Left(s) \in Seq(S)
           /\ \A u \in Threads : u # t => todo'[u] = todo[u]
           /\ \A r \in Requests :
                 LET C == Holding(r, requestOf')
                 IN  (InTodo(t, r)' <=> Has(s, C)) /\ (Once(s, C) => Once(todo'[t], C))
<1>1. todo' = [todo EXCEPT ![t] = Left(s)]
  BY DEF Becomes
<1>2. /\ Left(s) \in Seq(S)
      /\ \A C : (\A x \in C : x.do # "endTry") =>
            (Has(Left(s), C) <=> Has(s, C)) /\ (Once(s, C) => Once(Left(s), C))
  BY LeftKeeps
<1>3. Left(s) \in Seq(Works)
  BY <1>2, SeqMonotonic
<1>4. todo' \in [Threads -> Seq(Works)] /\ todo'[t] = Left(s)
      /\ \A u \in Threads : u # t => todo'[u] = todo[u]
  BY <1>1, <1>3
<1>5. ASSUME NEW r \in Requests, NEW C, C = Holding(r, requestOf')
      PROVE  (InTodo(t, r)' <=> Has(s, C)) /\ (Once(s, C) => Once(todo'[t], C))
  <2>1. \A x \in C : x.do # "endTry"
    BY <1>5, Kinds0
  <2>2. InTodo(t, r)' <=> Has(todo'[t], C)
    BY <1>5 DEF InTodo
  <2> QED BY <1>2, <1>4, <2>1, <2>2
<1> QED BY <1>2, <1>4, <1>5

\* What a listener has told is about the request of the future.
LEMMA Heeds ==
    ASSUME ContextIInv, NEW f \in Futures, f \in 1..calls, method[f] \in Methods,
           method[f] # "close", NEW outcome
    PROVE  /\ Listener(f, outcome) \in Seq(Talk)
           /\ \A r \in Requests :
                 LET C == Holding(r, requestOf)
                 IN  /\ Once(Listener(f, outcome), C)
                     /\ Has(Listener(f, outcome), C) <=> requestOf[f] = r
<1> DEFINE q == requestOf[f]
           l == Listener(f, outcome)
           a == Answer(q)
<1>1. PipeInv /\ q \in Requests \cup {0} /\ (q # 0 => method[f] = "write")
  BY DEF ContextIInv, WorkInv, ContextTypeOK, RequestOfInv
<1>2. /\ \A e \in {"active", "inactive", "read", "writeComplete"} : Notify(e) \in Seq(Blank)
      /\ EndTry \in Seq(Blank)
  BY <1>1, Tells
<1>3. <<>> \in Seq(Blank)
  OBVIOUS
<1>4. Inactive(f) \in Seq(Blank)
  BY <1>2, <1>3 DEF Inactive
<1>5. \A e \in {"active", "inactive", "read", "writeComplete"} : Notify(e) \o EndTry \in Seq(Blank)
  BY <1>2
<1>6. \/ q = 0 /\ l \in Seq(Blank)
      \/ \E b \in Seq(Blank) : l = b \o a
  <2>1. CASE method[f] = "connect"
    <3>1. l = IF outcome = "finished" THEN Notify("active") \o EndTry ELSE <<>>
      BY <2>1 DEF Listener
    <3>2. q = 0
      BY <1>1, <2>1
    <3> HIDE DEF l, q
    <3> QED BY <1>3, <1>5, <3>1, <3>2
  <2>2. CASE method[f] = "disconnect"
    <3>1. l = IF outcome = "finished" THEN Notify("inactive") \o EndTry ELSE <<>>
      BY <2>2 DEF Listener
    <3>2. q = 0
      BY <1>1, <2>2
    <3> HIDE DEF l, q
    <3> QED BY <1>3, <1>5, <3>1, <3>2
  <2>3. CASE method[f] = "read"
    <3>1. l = IF outcome = "finished" THEN Notify("read") \o EndTry ELSE Inactive(f)
      BY <2>3 DEF Listener, readFailed
    <3>2. q = 0
      BY <1>1, <2>3
    <3> HIDE DEF l, q
    <3> QED BY <1>4, <1>5, <3>1, <3>2
  <2>4. CASE method[f] = "write"
    <3>1. l = IF outcome = "finished" THEN Notify("writeComplete") \o a ELSE Inactive(f) \o a
      BY <2>4 DEF Listener, writeFailed
    <3> HIDE DEF l, a
    <3> QED BY <1>2, <1>4, <3>1
  <2> QED BY <2>1, <2>2, <2>3, <2>4 DEF Methods
<1> HIDE DEF l, q
<1>7. ASSUME q = 0, l \in Seq(Blank)
      PROVE  /\ l \in Seq(Talk)
             /\ \A r \in Requests :
                   LET C == Holding(r, requestOf) IN Once(l, C) /\ (Has(l, C) <=> q = r)
  <2>1. l \in Seq(Talk)
    BY <1>7, Kinds0, SeqMonotonic
  <2>2. \A r \in Requests : LET C == Holding(r, requestOf) IN ~Has(l, C) /\ Once(l, C)
    BY <1>7, Kinds0, HasNone
  <2> QED BY <1>7, <2>1, <2>2, Numbers
<1>8. ASSUME NEW b \in Seq(Blank), l = b \o a
      PROVE  /\ l \in Seq(Talk)
             /\ \A r \in Requests :
                   LET C == Holding(r, requestOf) IN Once(l, C) /\ (Has(l, C) <=> q = r)
  <2>1. b \in Seq(Talk)
    BY <1>8, Kinds0, SeqMonotonic
  <2>2. /\ a \in Seq(Talk)
        /\ \A r \in Requests :
              LET C == Holding(r, requestOf) IN Once(a, C) /\ (Has(a, C) <=> q = r)
    <3>1. CASE q = 0
      <4>1. a = <<>> /\ a \in Seq(Blank) /\ a \in Seq(Talk)
        BY <3>1 DEF Answer
      <4> HIDE DEF a
      <4>2. \A r \in Requests : LET C == Holding(r, requestOf) IN ~Has(a, C) /\ Once(a, C)
        BY <4>1, Kinds0, HasNone
      <4> QED BY <3>1, <4>1, <4>2, Numbers
    <3>2. CASE q \in Requests
      BY <3>2, Answers
    <3> QED BY <1>1, <3>1, <3>2
  <2> HIDE DEF a
  <2>3. l \in Seq(Talk)
    BY <1>8, <2>1, <2>2
  <2>4. ASSUME NEW r \in Requests, NEW C, C = Holding(r, requestOf)
        PROVE  Once(l, C) /\ (Has(l, C) <=> q = r)
    <3>1. ~Has(b, C) /\ Once(b, C)
      BY <1>8, <2>4, Kinds0, HasNone
    <3>2. /\ Has(b \o a, C) <=> Has(b, C) \/ Has(a, C)
          /\ Once(b, C) /\ Once(a, C) /\ ~(Has(b, C) /\ Has(a, C)) => Once(b \o a, C)
      BY <2>1, <2>2, HasConcat
    <3> QED BY <1>8, <2>2, <2>4, <3>1, <3>2
  <2> QED BY <2>3, <2>4
<1>9. /\ l \in Seq(Talk)
      /\ \A r \in Requests :
            LET C == Holding(r, requestOf) IN Once(l, C) /\ (Has(l, C) <=> q = r)
  BY <1>6, <1>7, <1>8
<1> QED BY <1>9 DEF l, q

LEMMA ListenStep ==
    ASSUME ContextIInv, TypeOK, NEW t \in Threads, listen(t)
    PROVE  ContextIInv'
<1> DEFINE x == Head(todo[t])
           f == x.n
<1>1. /\ todo[t] # <<>> /\ x.do = "listen"
      /\ UNCHANGED <<vars, pipe, tasks, writes, unconnected, requestOf, answers, written, lost,
                     up, stalled>>
  BY DEF listen, Doing
<1>2. /\ x \in Sound /\ f \in 1..calls /\ method[f] # "close" /\ f \in Futures
      /\ method[f] \in Methods
      /\ \A r \in Requests : x \in Holding(r, requestOf) <=> requestOf[f] = r
  <2>1. x \in Sound /\ x \in Works
    BY <1>1, HeadHolds
  <2>2. f \in 1..calls /\ method[f] # "close"
    BY <1>1, <2>1 DEF Sound
  <2>3. f \in Futures
    <3>1. \A g \in 1..calls : g \in Futures
      BY SocketAssumption DEF TypeOK, Futures
    <3> QED BY <2>2, <3>1
  <2>4. method[f] \in Methods
    BY <2>3 DEF TypeOK
  <2>5. \A r \in Requests : x \in Holding(r, requestOf) <=> requestOf[f] = r
    BY <1>1, <2>1 DEF Holding
  <2> QED BY <2>1, <2>2, <2>3, <2>4, <2>5
<1>3. \/ /\ future[f] = "pending" /\ listening' = listening \cup {f} /\ Replace(t, <<>>)
      \/ Replace(t, Listener(f, future[f])) /\ UNCHANGED listening
  BY DEF listen
<1>4. /\ todo[t][1] = x /\ 1 \in 1..Len(todo[t])
  BY <1>1, Stacks DEF ContextIInv
<1>5. \A r \in Requests : requestOf[f] = r => InTodo(t, r)
  BY <1>2, <1>4 DEF InTodo, Has
<1>6. f \notin listening
  BY <1>1, <1>4 DEF ContextIInv, ListenInv
<1> HIDE DEF x, f
<1>7. CASE Replace(t, Listener(f, future[f])) /\ UNCHANGED listening
  <2> DEFINE items == Listener(f, future[f])
  <2>1. /\ items \in Seq(Talk)
        /\ \A r \in Requests :
              LET C == Holding(r, requestOf)
              IN  Once(items, C) /\ (Has(items, C) <=> x \in C)
    BY <1>2, Heeds
  <2>2. lost \subseteq lost' /\ lost' \subseteq Requests /\ {up', stalled'} \subseteq BOOLEAN
    BY <1>1 DEF ContextIInv, WorkInv, ContextTypeOK
  <2>3. Replace(t, items)
    BY <1>7
  <2> HIDE DEF items
  <2> QED BY <1>1, <1>7, <2>1, <2>2, <2>3, ReplaceStep DEF x
<1>8. CASE future[f] = "pending" /\ listening' = listening \cup {f} /\ Replace(t, <<>>)
  <2> DEFINE s == <<>> \o Tail(todo[t])
  <2>1. /\ s \in Seq(Talk) /\ Becomes(t, s)
        /\ \A r \in Requests :
              /\ Once(s, Holding(r, requestOf))
              /\ Has(s, Holding(r, requestOf)) <=> InTodo(t, r) /\ requestOf[f] # r
    BY <1>1, <1>2, <1>8, Dropping DEF Replace, x
  <2> HIDE DEF s
  <2>2. todo \in [Threads -> Seq(Works)] /\ Talk \subseteq Works /\ requestOf' = requestOf
    BY <1>1, Kinds0 DEF ContextIInv, WorkInv, ContextTypeOK
  <2>3. /\ todo' \in [Threads -> Seq(Works)] /\ todo'[t] = Left(s) /\ Left(s) \in Seq(Talk)
        /\ \A u \in Threads : u # t => todo'[u] = todo[u]
        /\ \A r \in Requests :
              LET C == Holding(r, requestOf)
              IN  (InTodo(t, r)' <=> Has(s, C)) /\ (Once(s, C) => Once(todo'[t], C))
    BY <2>1, <2>2, Turned
  <2>4. UNCHANGED <<calls, method, future, pc, job>>
    BY <1>1 DEF vars, record, thread
  <2>5. PipeInv' /\ RequestOfInv' /\ Sound' = Sound
    BY <1>1, <2>4 DEF ContextIInv, PipeInv, RequestOfInv, Sound, InPipe
  <2>6. WorkInv'
    <3>1. \A u \in Threads : todo'[u] \in Seq(Sound)
      <4>1. Left(s) \in Seq(Sound)
        BY <2>3, Kinds0, SeqMonotonic
      <4> QED BY <2>3, <4>1 DEF ContextIInv, WorkInv
    <3>2. ContextTypeOK'
      BY <1>1, <1>2, <1>8, <2>3 DEF ContextIInv, WorkInv, ContextTypeOK
    <3> QED BY <1>1, <2>5, <3>1, <3>2 DEF ContextIInv, WorkInv, TasksInv
  <2>7. ListenInv'
    <3>1. \A g \in listening' : g \in 1..calls /\ future[g] = "pending" /\ method[g] # "close"
      BY <1>2, <1>8 DEF ContextIInv, ListenInv
    <3>2. \A i \in 1..Len(todo'[t]) : todo'[t][i] \in Talk
      BY <2>3
    <3>3. todo'[t] # <<>> => Head(todo'[t]).do # "listen"
      BY <2>3 DEF Talk
    <3>4. ASSUME NEW u \in Threads, NEW i \in 1..Len(todo'[u]), todo'[u][i].do = "listen"
          PROVE  /\ i = 1 /\ todo'[u][i].n \notin listening'
                 /\ pc[u] # "idle" => job[u].future = todo'[u][i].n
                 /\ \A v \in Threads : todo'[v] # <<>> /\ Head(todo'[v]).do = "listen"
                                          /\ Head(todo'[v]).n = todo'[u][i].n => v = u
      <4>1. u # t /\ todo'[u] = todo[u]
        BY <2>3, <3>2, <3>4 DEF Talk
      <4>2. /\ i = 1 /\ todo[u][i].n \notin listening
            /\ pc[u] # "idle" => job[u].future = todo[u][i].n
            /\ \A v \in Threads : todo[v] # <<>> /\ Head(todo[v]).do = "listen"
                                     /\ Head(todo[v]).n = todo[u][i].n => v = u
        BY <3>4, <4>1 DEF ContextIInv, ListenInv
      <4>3. todo[u][i].n # f
        BY <1>1, <4>1, <4>2 DEF x, f
      <4> QED BY <1>8, <2>3, <3>3, <4>1, <4>2, <4>3
    <3> QED BY <2>4, <3>1, <3>4 DEF ListenInv
  <2>8. ASSUME NEW r \in Requests PROVE HeldOnce(r)' /\ HeldAlone(r)' /\ AnswerInv(r)'
    <3>1. HeldOnce(r) /\ HeldAlone(r) /\ AnswerInv(r) /\ Single(t, r)
      BY Alone
    <3>2. /\ InTasks(r)' <=> InTasks(r)
          /\ InWrites(r)' <=> InWrites(r)
          /\ InTodo(t, r)' <=> InTodo(t, r) /\ requestOf[f] # r
          /\ Heard(r)' <=> Heard(r) \/ requestOf[f] = r
          /\ \A u \in Threads : u # t => (InTodo(u, r)' <=> InTodo(u, r))
      <4>1. (InTasks(r)' <=> InTasks(r)) /\ (InWrites(r)' <=> InWrites(r))
        BY <1>1 DEF InTasks, InWrites
      <4>2. Heard(r)' <=> Heard(r) \/ requestOf[f] = r
        BY <1>8, <2>2 DEF Heard
      <4>3. \A u \in Threads : u # t => (InTodo(u, r)' <=> InTodo(u, r))
        BY <2>2, <2>3 DEF InTodo
      <4> QED BY <2>1, <2>3, <4>1, <4>2, <4>3
    <3>3. requestOf[f] = r => ~Heard(r)
      BY <1>5, <3>1 DEF Single
    <3>4. HeldOnce(r)'
      <4>1. \A g, h \in listening' : requestOf'[g] = r /\ requestOf'[h] = r => g = h
        BY <1>8, <2>2, <3>1, <3>3 DEF HeldOnce, Heard
      <4>2. \A u \in Threads : Once(todo'[u], Holding(r, requestOf'))
        BY <2>1, <2>2, <2>3, <3>1 DEF HeldOnce
      <4>3. Once(writes', {r}) /\ Once(tasks', {Answer(r)})
        BY <1>1, <3>1 DEF HeldOnce
      <4> QED BY <4>1, <4>2, <4>3 DEF HeldOnce
    <3>5. Single(t, r)' /\ (At(t, r)' <=> At(t, r))
      BY <1>5, <3>1, <3>2 DEF Single, At
    <3>6. Stays(t, r)
      BY <1>1, <3>5 DEF Stays
    <3>7. written \in Nat /\ written' \in Nat /\ lost \subseteq lost'
      BY <1>1, IOPipelineAssumption DEF ContextIInv, WorkInv, ContextTypeOK
    <3>8. HeldAlone(r)' /\ AnswerInv(r)'
      BY <3>1, <3>2, <3>5, <3>6, <3>7, RequestStep
    <3> QED BY <3>4, <3>8
  <2> QED BY <2>5, <2>6, <2>7, <2>8 DEF ContextIInv, RequestInv
<1> QED BY <1>3, <1>7, <1>8

------------------------------------------------------------------------------
\* Calling the handler.

LEMMA Called ==
    ASSUME TypeOK, NEW t \in Threads, NEW m,
           \/ m = "connect" /\ connect(t)
           \/ m = "disconnect" /\ disconnect(t)
           \/ m = "close" /\ close(t)
           \/ m \in {"read", "write"} /\ readOrWrite(t, m)
    PROVE  LET f == calls + 1
           IN  /\ f \in Futures /\ calls \in Nat /\ calls' = f /\ m \in Methods
               /\ method' = [method EXCEPT ![f] = m]
               /\ \A g \in Futures : g # f => future'[g] = future[g]
               /\ \A u \in Threads : u # t => pc'[u] = pc[u] /\ job'[u] = job[u]
               /\ m # "close" /\ pc'[t] # "idle" => job'[t].future = f
<1> DEFINE f == calls + 1
<1>1. calls \in Nat /\ calls < MaxCalls /\ MaxCalls \in Nat
  BY SocketAssumption DEF TypeOK, connect, disconnect, close, readOrWrite, NewCall
<1>2. f \in Futures
  BY <1>1 DEF Futures
<1>3. calls' = f /\ method' = [method EXCEPT ![f] = m] /\ pc[t] = "idle"
  BY DEF connect, disconnect, close, readOrWrite, NewCall
<1>4. m \in Methods
  BY DEF Methods
<1>5. \A g \in Futures : g # f => future'[g] = future[g]
  BY <1>2 DEF connect, disconnect, close, readOrWrite, Refuse, Accept, TypeOK
<1>6. \A u \in Threads : u # t => pc'[u] = pc[u] /\ job'[u] = job[u]
  BY DEF connect, disconnect, close, readOrWrite, Refuse, Accept, closeSocketWithState,
         setConnectivityState, thread, TypeOK
<1>7. ASSUME m # "close", pc'[t] # "idle" PROVE job'[t].future = f
  <2>1. \/ Accept(t, f, "checked", NoJob)
        \/ Accept(t, f, "start", [NoJob EXCEPT !.next = "start", !.kind = m])
        \/ setConnectivityState(t, "TransitentFailure", "postClose", f)
    BY <1>3, <1>7 DEF connect, disconnect, readOrWrite, Refuse, closeSocketWithState, thread
  <2>2. job \in [Threads -> Jobs]
    BY DEF TypeOK
  <2>3. CASE Accept(t, f, "checked", NoJob)
    BY <2>2, <2>3 DEF Accept, NoJob
  <2>4. CASE Accept(t, f, "start", [NoJob EXCEPT !.next = "start", !.kind = m])
    BY <2>2, <2>4 DEF Accept, NoJob
  <2>5. CASE setConnectivityState(t, "TransitentFailure", "postClose", f)
    BY <2>2, <2>5 DEF setConnectivityState
  <2> QED BY <2>1, <2>3, <2>4, <2>5
<1> QED BY <1>1, <1>2, <1>3, <1>4, <1>5, <1>6, <1>7

LEMMA CallHandlerStep ==
    ASSUME ContextIInv, TypeOK, NEW t \in Threads, callHandler(t)
    PROVE  ContextIInv'
<1> DEFINE x == Head(todo[t])
           m == x.what
           f == calls + 1
           rest == Tail(todo[t])
           items == IF m = "close" THEN <<>> ELSE Listen(f)
           s == items \o rest
<1>1. /\ todo[t] # <<>> /\ x.do = "call" /\ Becomes(t, s)
      /\ requestOf' = [requestOf EXCEPT ![f] = x.n]
      /\ unconnected' = unconnected \/ unconnected' = unconnected \cup {f}
      /\ UNCHANGED <<pipe, tasks, writes, listening, answers, written, lost, up, stalled>>
  BY DEF callHandler, Doing, Replace
<1>2. /\ f \in Futures /\ calls \in Nat /\ calls' = f /\ m \in Methods
      /\ method' = [method EXCEPT ![f] = m]
      /\ \A g \in Futures : g # f => future'[g] = future[g]
      /\ \A u \in Threads : u # t => pc'[u] = pc[u] /\ job'[u] = job[u]
      /\ m # "close" /\ pc'[t] # "idle" => job'[t].future = f
  <2>1. \/ m = "connect" /\ connect(t)
        \/ m = "disconnect" /\ disconnect(t)
        \/ m = "close" /\ close(t)
        \/ m \in {"read", "write"} /\ readOrWrite(t, m)
    BY DEF callHandler
  <2> HIDE DEF m
  <2> QED BY <2>1, Called
<1>3. /\ x \in Sound /\ x.n \in Requests \cup {0} /\ (x.n # 0 => m = "write")
      /\ \A r \in Requests : x \in Holding(r, requestOf) <=> x.n = r
  <2>1. /\ x \in Sound /\ x.n \in Requests \cup {0}
        /\ \A r \in Requests : x \in Holding(r, requestOf) <=> x.n = r
    BY <1>1, HeadHolds
  <2> QED BY <1>1, <2>1 DEF Sound
<1>4. rest \in Seq(Talk) /\ todo[t] \in Seq(Sound)
  BY <1>1, Stacks DEF ContextIInv
<1>5. /\ \A g \in 1..calls : g \in Futures /\ g # f /\ g \in 1..calls'
      /\ f \in 1..calls' /\ f # 0
  <2>1. \A g \in 1..calls : g \in Futures /\ g \in 1..calls + 1 /\ g # calls + 1
    BY <1>2, SocketAssumption DEF TypeOK, Futures
  <2>2. calls + 1 \in 1..calls + 1 /\ calls + 1 # 0
    BY <1>2
  <2> QED BY <1>2, <2>1, <2>2
<1>6. /\ method \in [Futures -> Methods] /\ requestOf \in [Futures -> Requests \cup {0}]
      /\ todo \in [Threads -> Seq(Works)]
  BY DEF TypeOK, ContextIInv, WorkInv, ContextTypeOK
<1>7. /\ \A g \in Futures : g # f => method'[g] = method[g] /\ requestOf'[g] = requestOf[g]
      /\ method'[f] = m /\ requestOf'[f] = x.n
  BY <1>1, <1>2, <1>6
<1> HIDE DEF f, m, x, rest
<1>8. Sound \subseteq Sound'
  BY <1>1, <1>5, <1>7 DEF Sound, InPipe
<1>9. PipeInv'
  BY <1>1 DEF ContextIInv, PipeInv
<1>10. RequestOfInv'
  <2> SUFFICES ASSUME NEW g \in Futures, requestOf'[g] # 0
               PROVE  g \in 1..calls' /\ method'[g] = "write"
    BY DEF RequestOfInv
  <2>1. CASE g = f
    BY <1>3, <1>5, <1>7, <2>1
  <2>2. CASE g # f
    BY <1>5, <1>7, <2>2 DEF ContextIInv, RequestOfInv
  <2> QED BY <2>1, <2>2
\* The future to be listened to, and its request.
<1> DEFINE y == Work("listen", "none", NoStage, f)
<1>11. y \in Works /\ y.do = "listen" /\ y.n = f
  BY <1>2 DEF Work, Works
<1>12. m # "close" => y \in Sound'
  BY <1>5, <1>7, <1>11 DEF Sound
<1>13. \A r \in Requests : y \in Holding(r, requestOf') <=> x.n = r
  BY <1>7, <1>11 DEF Holding
<1>14. items = IF m = "close" THEN <<>> ELSE <<y>>
  BY DEF Listen
<1> HIDE DEF y, items
<1>15. /\ items \in Seq(Sound') /\ rest \in Seq(Sound') /\ s \in Seq(Sound')
  <2>1. items \in Seq(Sound')
    <3>1. <<>> \in Seq(Sound')
      OBVIOUS
    <3>2. m # "close" => <<y>> \in Seq(Sound')
      BY <1>12
    <3> QED BY <1>14, <3>1, <3>2
  <2>2. rest \in Seq(Sound')
    <3>1. Talk \subseteq Sound'
      BY <1>8, Kinds0
    <3> QED BY <1>4, <3>1, SeqMonotonic
  <2> QED BY <2>1, <2>2
\* On what was there, requests are held as they were.
<1>16. \A r \in Requests : \A z \in Sound :
          z \in Holding(r, requestOf') <=> z \in Holding(r, requestOf)
  <2> TAKE r \in Requests
  <2> TAKE z \in Sound
  <2>1. z.do = "listen" => requestOf'[z.n] = requestOf[z.n]
    BY <1>5, <1>7 DEF Sound
  <2> QED BY <2>1 DEF Holding
<1>17. ASSUME NEW q \in Seq(Sound), NEW r \in Requests
       PROVE  /\ Has(q, Holding(r, requestOf')) <=> Has(q, Holding(r, requestOf))
              /\ Once(q, Holding(r, requestOf)) => Once(q, Holding(r, requestOf'))
  <2>1. \A i \in 1..Len(q) : q[i] \in Sound
    OBVIOUS
  <2>2. \A i \in 1..Len(q) :
           q[i] \in Holding(r, requestOf') <=> q[i] \in Holding(r, requestOf)
    BY <1>16, <2>1
  <2> QED BY <2>2 DEF Has, Once
<1>18. ASSUME NEW r \in Requests, NEW C, C = Holding(r, requestOf')
       PROVE  Once(s, C) /\ (Has(s, C) <=> InTodo(t, r))
  <2> DEFINE D == Holding(r, requestOf)
  <2>1. Once(todo[t], D) /\ (InTodo(t, r) <=> Has(todo[t], D))
    BY Alone DEF HeldOnce, InTodo
  <2> HIDE DEF D
  <2>2. /\ Once(rest, D)
        /\ Has(todo[t], D) <=> x \in D \/ Has(rest, D)
        /\ x \in D => ~Has(rest, D)
    BY <1>1, <1>4, <2>1, HasTail DEF x, rest
  <2>3. x \in D <=> x.n = r
    BY <1>3 DEF D
  <2>4. (Has(rest, C) <=> Has(rest, D)) /\ Once(rest, C)
    <3>1. rest \in Seq(Sound)
      BY <1>4, Kinds0, SeqMonotonic
    <3> QED BY <1>17, <1>18, <2>2, <3>1 DEF D
  <2>5. Once(items, C) /\ (Has(items, C) <=> x.n = r)
    <3>1. CASE m = "close"
      <4>1. items = <<>> /\ x.n = 0
        BY <1>3, <1>14, <3>1
      <4>2. Len(items) = 0
        BY <4>1
      <4>3. ~Has(items, C) /\ Once(items, C)
        BY <4>2 DEF Has, Once
      <4> QED BY <4>1, <4>3, Numbers
    <3>2. CASE m # "close"
      BY <1>13, <1>14, <1>18, <3>2, HasOne
    <3> QED BY <3>1, <3>2
  <2>6. /\ Has(items \o rest, C) <=> Has(items, C) \/ Has(rest, C)
        /\ Once(items, C) /\ Once(rest, C) /\ ~(Has(items, C) /\ Has(rest, C))
           => Once(items \o rest, C)
    BY <1>15, HasConcat
  <2> QED BY <2>1, <2>2, <2>3, <2>4, <2>5, <2>6
<1>19. /\ todo' \in [Threads -> Seq(Works)] /\ todo'[t] = Left(s) /\ Left(s) \in Seq(Sound')
       /\ \A u \in Threads : u # t => todo'[u] = todo[u]
       /\ \A r \in Requests :
             LET C == Holding(r, requestOf')
             IN  (InTodo(t, r)' <=> Has(s, C)) /\ (Once(s, C) => Once(todo'[t], C))
  <2>1. Sound' \subseteq Works
    BY DEF Sound, Works, Work, Futures, Requests
  <2> HIDE DEF s
  <2> QED BY <1>1, <1>6, <1>15, <2>1, Turned
<1>20. WorkInv'
  <2>1. \A u \in Threads : todo'[u] \in Seq(Sound')
    <3> TAKE u \in Threads
    <3>1. todo[u] \in Seq(Sound')
      BY <1>8, SeqMonotonic DEF ContextIInv, WorkInv
    <3> QED BY <1>19, <3>1
  <2>2. ContextTypeOK'
    <3>1. requestOf' \in [Futures -> Requests \cup {0}] /\ unconnected' \subseteq Futures
      BY <1>1, <1>2, <1>3, <1>6 DEF ContextIInv, WorkInv, ContextTypeOK
    <3> QED BY <1>1, <1>19, <3>1 DEF ContextIInv, WorkInv, ContextTypeOK
  <2>3. TasksInv'
    BY <1>1, <1>8 DEF ContextIInv, WorkInv, TasksInv
  <2> QED BY <2>1, <2>2, <2>3 DEF WorkInv
<1>21. ListenInv'
  <2>1. \A g \in listening : g \in 1..calls' /\ future'[g] = "pending" /\ method'[g] # "close"
    BY <1>2, <1>5, <1>7 DEF ContextIInv, ListenInv
  <2>2. \A u \in Threads : \A i \in 1..Len(todo[u]) :
           todo[u][i].do = "listen" => todo[u][i].n \in 1..calls
    <3> TAKE u \in Threads
    <3>1. todo[u] \in Seq(Sound)
      BY DEF ContextIInv, WorkInv
    <3>2. \A i \in 1..Len(todo[u]) : todo[u][i] \in Sound
      BY <3>1
    <3> QED BY <3>2 DEF Sound
  <2>3. \A u \in Threads : u # t /\ todo'[u] # <<>> /\ Head(todo'[u]).do = "listen" =>
           Head(todo'[u]).n # f
    <3> SUFFICES ASSUME NEW u \in Threads, u # t, todo'[u] # <<>>, Head(todo'[u]).do = "listen"
                 PROVE  Head(todo'[u]).n # f
      OBVIOUS
    <3>1. todo'[u] = todo[u] /\ Head(todo[u]) = todo[u][1] /\ 1 \in 1..Len(todo[u])
      <4>1. todo'[u] = todo[u]
        BY <1>19
      <4>2. todo[u] # <<>>
        BY <4>1
      <4> QED BY <4>1, <4>2, Stacks DEF ContextIInv
    <3> QED BY <1>5, <2>2, <3>1
  <2>4. ASSUME NEW i \in 1..Len(todo'[t]), todo'[t][i].do = "listen"
        PROVE  i = 1 /\ todo'[t][i].n = f /\ m # "close"
    <3>1. CASE m = "close"
      <4>1. s = <<>> \o rest
        BY <1>14, <3>1
      <4>2. s \in Seq(Talk)
        BY <1>4, <4>1
      <4> HIDE DEF s
      <4>3. todo'[t] \in Seq(Talk)
        <5>1. Talk \subseteq Works
          BY Kinds0
        <5> QED BY <1>19, <4>2, <5>1, LeftKeeps
      <4>4. todo'[t][i] \in Talk
        BY <4>3
      <4> QED BY <2>4, <4>4 DEF Talk
    <3>2. CASE m # "close"
      <4>1. s = <<y>> \o rest
        BY <1>14, <3>2
      <4>2. s \in Seq(Works)
        <5>1. Sound' \subseteq Works
          BY DEF Sound, Works, Work, Futures, Requests
        <5> QED BY <1>15, <5>1, SeqMonotonic
      <4>3. /\ Len(rest) \in Nat /\ Len(s) = 1 + Len(rest) /\ s[1] = y
            /\ \A j \in 1..1 + Len(rest) : j # 1 => j - 1 \in 1..Len(rest) /\ s[j] = rest[j - 1]
            /\ \A j \in 1..Len(rest) : rest[j] \in Talk
        BY <1>4, <1>11, <4>1
      <4>4. s # <<>> /\ Head(s) = y
        BY <4>2, <4>3
      <4>5. Left(s) = s
        BY <1>11, <4>2, <4>4, LeftKeeps
      <4>6. i \in 1..1 + Len(rest) /\ todo'[t][i] = s[i]
        BY <1>19, <4>3, <4>5
      <4>7. i = 1
        BY <2>4, <4>3, <4>6 DEF Talk
      <4> QED BY <1>11, <3>2, <4>3, <4>6, <4>7
    <3> QED BY <3>1, <3>2
  <2>5. f \notin listening
    BY <1>5 DEF ContextIInv, ListenInv
  <2>6. ASSUME NEW u \in Threads, NEW i \in 1..Len(todo'[u]), todo'[u][i].do = "listen"
        PROVE  /\ i = 1 /\ todo'[u][i].n \notin listening'
               /\ pc'[u] # "idle" => job'[u].future = todo'[u][i].n
               /\ \A v \in Threads : todo'[v] # <<>> /\ Head(todo'[v]).do = "listen"
                                        /\ Head(todo'[v]).n = todo'[u][i].n => v = u
    <3>1. CASE u = t
      <4>1. i = 1 /\ todo'[u][i].n = f /\ m # "close"
        BY <2>4, <2>6, <3>1
      <4> QED BY <1>1, <1>2, <2>3, <2>5, <3>1, <4>1
    <3>2. CASE u # t
      <4>1. todo'[u] = todo[u] /\ pc'[u] = pc[u] /\ job'[u] = job[u]
        BY <1>2, <1>19, <3>2
      <4>2. /\ i = 1 /\ todo[u][i].n \notin listening
            /\ pc[u] # "idle" => job[u].future = todo[u][i].n
            /\ \A v \in Threads : todo[v] # <<>> /\ Head(todo[v]).do = "listen"
                                     /\ Head(todo[v]).n = todo[u][i].n => v = u
        BY <2>6, <4>1 DEF ContextIInv, ListenInv
      <4>3. todo[u][i].n # f
        BY <1>5, <2>2, <2>6, <4>1
      <4>4. ASSUME todo'[t] # <<>>, Head(todo'[t]).do = "listen" PROVE Head(todo'[t]).n = f
        <5>1. todo'[t] \in Seq(Works)
          BY <1>19
        <5>2. 1 \in 1..Len(todo'[t]) /\ Head(todo'[t]) = todo'[t][1]
          BY <4>4, <5>1, HeadTailProperties
        <5> QED BY <2>4, <4>4, <5>2
      <4> QED BY <1>1, <1>19, <4>1, <4>2, <4>3, <4>4
    <3> QED BY <3>1, <3>2
  <2> QED BY <1>1, <2>1, <2>6 DEF ListenInv
<1>22. ASSUME NEW r \in Requests PROVE HeldOnce(r)' /\ HeldAlone(r)' /\ AnswerInv(r)'
  <2>1. HeldOnce(r) /\ HeldAlone(r) /\ AnswerInv(r) /\ Single(t, r)
    BY Alone
  <2>2. \A g \in listening : requestOf'[g] = requestOf[g]
    BY <1>5, <1>7 DEF ContextIInv, ListenInv
  <2>3. /\ InTasks(r)' <=> InTasks(r)
        /\ InWrites(r)' <=> InWrites(r)
        /\ Heard(r)' <=> Heard(r)
    BY <1>1, <2>2 DEF InTasks, InWrites, Heard
  <2>4. \A u \in Threads : u # t => InTodo(u, r)' <=> InTodo(u, r)
    BY <1>17, <1>19 DEF InTodo, ContextIInv, WorkInv
  <2>5. InTodo(t, r)' <=> InTodo(t, r)
    BY <1>18, <1>19
  <2>6. HeldOnce(r)'
    <3>1. \A u \in Threads : Once(todo'[u], Holding(r, requestOf'))
      <4> TAKE u \in Threads
      <4>1. CASE u = t
        BY <1>18, <1>19, <4>1
      <4>2. CASE u # t
        <5>1. Once(todo[u], Holding(r, requestOf)) /\ todo[u] \in Seq(Sound)
          BY <2>1 DEF HeldOnce, ContextIInv, WorkInv
        <5> QED BY <1>17, <1>19, <4>2, <5>1
      <4> QED BY <4>1, <4>2
    <3>2. \A g, h \in listening' : requestOf'[g] = r /\ requestOf'[h] = r => g = h
      BY <1>1, <2>1, <2>2 DEF HeldOnce
    <3>3. Once(writes', {r}) /\ Once(tasks', {Answer(r)})
      BY <1>1, <2>1 DEF HeldOnce
    <3> QED BY <3>1, <3>2, <3>3 DEF HeldOnce
  <2>7. Single(t, r)' /\ Stays(t, r)
    BY <1>1, <2>1, <2>3, <2>5 DEF Single, At, Stays
  <2>8. written \in Nat /\ written' \in Nat /\ lost \subseteq lost'
    BY <1>1, IOPipelineAssumption DEF ContextIInv, WorkInv, ContextTypeOK
  <2>9. HeldAlone(r)' /\ AnswerInv(r)'
    BY <2>1, <2>4, <2>7, <2>8, RequestStep
  <2> QED BY <2>6, <2>9
<1> QED BY <1>9, <1>10, <1>20, <1>21, <1>22 DEF ContextIInv, RequestInv

------------------------------------------------------------------------------
\* The handler settles one future at a time.

LEMMA RequestsRest ==
    ASSUME RequestInv,
           UNCHANGED <<todo, tasks, writes, listening, requestOf, answers, written, lost>>
    PROVE  RequestInv'
<1> SUFFICES ASSUME NEW r \in Requests PROVE HeldOnce(r)' /\ HeldAlone(r)' /\ AnswerInv(r)'
  BY DEF RequestInv
<1>1. HeldOnce(r) /\ HeldAlone(r) /\ AnswerInv(r)
  BY DEF RequestInv
<1>2. /\ (InWrites(r)' <=> InWrites(r)) /\ (InTasks(r)' <=> InTasks(r)) /\ (Heard(r)' <=> Heard(r))
      /\ \A t \in Threads : InTodo(t, r)' <=> InTodo(t, r)
  BY DEF InWrites, InTasks, Heard, InTodo
<1>3. HeldOnce(r)'
  BY <1>1 DEF HeldOnce
<1>4. HeldAlone(r)'
  BY <1>1, <1>2 DEF HeldAlone
<1>5. Held(r)' <=> Held(r)
  BY <1>2 DEF Held
<1>6. AnswerInv(r)'
  BY <1>1, <1>5 DEF AnswerInv
<1> QED BY <1>3, <1>4, <1>6

LEMMA HandlerSettles ==
    ASSUME ContextIInv, TypeOK, NEW t \in Threads, NEW f \in Futures,
           UNCHANGED <<calls, method>>,
           \A g \in Futures : g # f => future'[g] = future[g],
           \A u \in Threads : u # t => pc'[u] = pc[u] /\ job'[u] = job[u],
           todo[t] # <<>> => /\ pc[t] # "idle" /\ job[t].future = f
                             /\ pc'[t] # "idle" => job'[t].future = f,
           RunListeners(t), unconnected' \subseteq Futures,
           UNCHANGED <<pipe, tasks, writes, requestOf, answers, written, lost, up, stalled>>
    PROVE  ContextIInv'
<1>1. /\ todo \in [Threads -> Seq(Works)] /\ todo[t] \in Seq(Sound)
      /\ listening \subseteq Futures /\ method \in [Futures -> Methods]
  BY DEF ContextIInv, WorkInv, ContextTypeOK, TypeOK
<1>2. PipeInv' /\ RequestOfInv' /\ Sound' = Sound
  BY DEF ContextIInv, PipeInv, RequestOfInv, Sound, InPipe
<1>3. /\ \A g \in listening : g \in 1..calls /\ future[g] = "pending" /\ method[g] # "close"
      /\ \A u \in Threads : \A i \in 1..Len(todo[u]) : todo[u][i].do = "listen" =>
            /\ i = 1 /\ todo[u][i].n \notin listening
            /\ pc[u] # "idle" => job[u].future = todo[u][i].n
            /\ \A v \in Threads : todo[v] # <<>> /\ Head(todo[v]).do = "listen"
                                     /\ Head(todo[v]).n = todo[u][i].n => v = u
  BY DEF ContextIInv, ListenInv
<1>4. \A g \in listening : g # f => g \notin Settled
  BY <1>1 DEF Settled
<1>5. listening' = listening \ Settled
  BY DEF RunListeners
<1>6. \A g \in listening' : g \in 1..calls' /\ future'[g] = "pending" /\ method'[g] # "close"
  BY <1>3, <1>5 DEF Settled
<1>7. CASE Settled = {}
  <2>1. todo' = todo /\ listening' = listening
    BY <1>5, <1>7 DEF RunListeners
  <2>2. ListenInv'
    <3>1. ASSUME NEW u \in Threads, NEW i \in 1..Len(todo[u]), todo[u][i].do = "listen"
          PROVE  pc'[u] # "idle" => job'[u].future = todo[u][i].n
      <4>1. CASE u = t
        <5>1. todo[t] # <<>>
          BY <3>1, <4>1
        <5> QED BY <1>3, <3>1, <4>1, <5>1
      <4>2. CASE u # t
        BY <1>3, <3>1, <4>2
      <4> QED BY <4>1, <4>2
    <3> QED BY <1>3, <1>6, <2>1, <3>1 DEF ListenInv
  <2>3. WorkInv'
    <3>1. ContextTypeOK'
      BY <2>1 DEF ContextIInv, WorkInv, ContextTypeOK
    <3> QED BY <1>2, <2>1, <3>1 DEF ContextIInv, WorkInv, TasksInv
  <2>4. RequestInv'
    BY <2>1, RequestsRest DEF ContextIInv
  <2> QED BY <1>2, <2>2, <2>3, <2>4 DEF ContextIInv
<1>8. CASE Settled # {}
  <2>1. Settled = {f} /\ f \in listening
    BY <1>4, <1>8 DEF Settled
  <2>2. f \in 1..calls /\ method[f] \in Methods /\ method[f] # "close"
    BY <1>1, <1>3, <2>1
  <2> DEFINE l == Listener(f, future'[f])
             s == l \o todo[t]
  <2>3. Becomes(t, s)
    BY <1>8, <2>1 DEF RunListeners
  <2>4. /\ l \in Seq(Talk)
        /\ \A r \in Requests :
              LET C == Holding(r, requestOf)
              IN  Once(l, C) /\ (Has(l, C) <=> requestOf[f] = r)
    BY <2>2, Heeds
  <2> HIDE DEF l
  <2>5. todo[t] \in Seq(Talk)
    <3>1. \A i \in 1..Len(todo[t]) : todo[t][i].do # "listen"
      <4> SUFFICES ASSUME NEW i \in 1..Len(todo[t]), todo[t][i].do = "listen"
                   PROVE  FALSE
        OBVIOUS
      <4>1. todo[t] # <<>>
        BY <1>1
      <4>2. todo[t][i].n \notin listening /\ job[t].future = todo[t][i].n
        BY <1>3, <4>1
      <4> QED BY <2>1, <4>1, <4>2
    <3> DEFINE d == todo[t]
    <3>2. Len(d) \in Nat /\ d = [i \in 1..Len(d) |-> d[i]] /\ \A i \in 1..Len(d) : d[i] \in Sound
      BY <1>1
    <3>3. \A i \in 1..Len(d) : d[i] \in Talk
      BY <3>1, <3>2 DEF Talk
    <3> HIDE DEF d
    <3>4. d \in Seq(Talk)
      BY <3>2, <3>3, IsASeq
    <3> QED BY <3>4 DEF d
  <2>6. s \in Seq(Talk)
    BY <2>4, <2>5
  <2>7. ASSUME NEW r \in Requests, NEW C, C = Holding(r, requestOf)
        PROVE  Once(s, C) /\ (Has(s, C) <=> InTodo(t, r) \/ requestOf[f] = r)
    <3>1. Once(todo[t], C) /\ (InTodo(t, r) <=> Has(todo[t], C))
      BY <2>7, Alone DEF HeldOnce, InTodo
    <3>2. Once(l, C) /\ (Has(l, C) <=> requestOf[f] = r)
      BY <2>4, <2>7
    <3>3. requestOf[f] = r => ~InTodo(t, r)
      BY <2>1, Alone DEF Single, Heard
    <3>4. /\ Has(l \o todo[t], C) <=> Has(l, C) \/ Has(todo[t], C)
          /\ Once(l, C) /\ Once(todo[t], C) /\ ~(Has(l, C) /\ Has(todo[t], C))
             => Once(l \o todo[t], C)
      BY <2>4, <2>5, HasConcat
    <3> QED BY <3>1, <3>2, <3>3, <3>4
  <2> HIDE DEF s
  <2>8. /\ todo' \in [Threads -> Seq(Works)] /\ todo'[t] = Left(s) /\ Left(s) \in Seq(Talk)
        /\ \A u \in Threads : u # t => todo'[u] = todo[u]
        /\ \A r \in Requests :
              LET C == Holding(r, requestOf)
              IN  (InTodo(t, r)' <=> Has(s, C)) /\ (Once(s, C) => Once(todo'[t], C))
    <3>1. Talk \subseteq Works /\ requestOf' = requestOf
      BY Kinds0
    <3> QED BY <1>1, <2>3, <2>6, <3>1, Turned
  <2>9. WorkInv'
    <3>1. \A u \in Threads : todo'[u] \in Seq(Sound)
      <4>1. Left(s) \in Seq(Sound)
        BY <2>8, Kinds0, SeqMonotonic
      <4> QED BY <2>8, <4>1 DEF ContextIInv, WorkInv
    <3>2. ContextTypeOK'
      BY <1>5, <2>8 DEF ContextIInv, WorkInv, ContextTypeOK
    <3> QED BY <1>2, <3>1, <3>2 DEF ContextIInv, WorkInv, TasksInv
  <2>10. ListenInv'
    <3>1. \A i \in 1..Len(todo'[t]) : todo'[t][i] \in Talk
      BY <2>8
    <3>2. todo'[t] # <<>> => Head(todo'[t]).do # "listen"
      BY <2>8 DEF Talk
    <3>3. ASSUME NEW u \in Threads, NEW i \in 1..Len(todo'[u]), todo'[u][i].do = "listen"
          PROVE  /\ i = 1 /\ todo'[u][i].n \notin listening'
                 /\ pc'[u] # "idle" => job'[u].future = todo'[u][i].n
                 /\ \A v \in Threads : todo'[v] # <<>> /\ Head(todo'[v]).do = "listen"
                                          /\ Head(todo'[v]).n = todo'[u][i].n => v = u
      <4>1. u # t /\ todo'[u] = todo[u] /\ pc'[u] = pc[u] /\ job'[u] = job[u]
        BY <2>8, <3>1, <3>3 DEF Talk
      <4>2. /\ i = 1 /\ todo[u][i].n \notin listening
            /\ pc[u] # "idle" => job[u].future = todo[u][i].n
            /\ \A v \in Threads : todo[v] # <<>> /\ Head(todo[v]).do = "listen"
                                     /\ Head(todo[v]).n = todo[u][i].n => v = u
        BY <1>3, <3>3, <4>1
      <4> QED BY <1>5, <2>8, <3>2, <4>1, <4>2
    <3> QED BY <1>6, <3>3 DEF ListenInv
  <2>11. ASSUME NEW r \in Requests PROVE HeldOnce(r)' /\ HeldAlone(r)' /\ AnswerInv(r)'
    <3>1. HeldOnce(r) /\ HeldAlone(r) /\ AnswerInv(r) /\ Single(t, r)
      BY Alone
    <3>2. /\ Heard(r) <=> Heard(r)' \/ requestOf[f] = r
          /\ requestOf[f] = r => ~Heard(r)'
      <4>1. listening' = listening \ {f} /\ requestOf' = requestOf
        BY <1>5, <2>1
      <4> QED BY <2>1, <3>1, <4>1 DEF Heard, HeldOnce
    <3>3. /\ InTasks(r)' <=> InTasks(r)
          /\ InWrites(r)' <=> InWrites(r)
          /\ InTodo(t, r)' <=> InTodo(t, r) \/ requestOf[f] = r
          /\ \A u \in Threads : u # t => (InTodo(u, r)' <=> InTodo(u, r))
      <4>1. (InTasks(r)' <=> InTasks(r)) /\ (InWrites(r)' <=> InWrites(r))
        BY DEF InTasks, InWrites
      <4>2. \A u \in Threads : u # t => (InTodo(u, r)' <=> InTodo(u, r))
        BY <2>8 DEF InTodo
      <4> QED BY <2>7, <2>8, <4>1, <4>2
    <3>4. HeldOnce(r)'
      <4>1. \A u \in Threads : Once(todo'[u], Holding(r, requestOf'))
        BY <2>7, <2>8, <3>1 DEF HeldOnce
      <4>2. \A g, h \in listening' : requestOf'[g] = r /\ requestOf'[h] = r => g = h
        BY <1>5, <3>1 DEF HeldOnce
      <4>3. Once(writes', {r}) /\ Once(tasks', {Answer(r)})
        BY <3>1 DEF HeldOnce
      <4> QED BY <4>1, <4>2, <4>3 DEF HeldOnce
    <3>5. Single(t, r)' /\ (At(t, r)' <=> At(t, r))
      BY <3>1, <3>2, <3>3 DEF Single, At
    <3>6. Stays(t, r)
      BY <3>5 DEF Stays
    <3>7. written \in Nat /\ written' \in Nat /\ lost \subseteq lost'
      BY IOPipelineAssumption DEF ContextIInv, WorkInv, ContextTypeOK
    <3>8. HeldAlone(r)' /\ AnswerInv(r)'
      BY <3>1, <3>3, <3>5, <3>6, <3>7, RequestStep
    <3> QED BY <3>4, <3>8
  <2> QED BY <1>2, <2>9, <2>10, <2>11 DEF ContextIInv, RequestInv
<1> QED BY <1>7, <1>8

\* One step of the handler is about one future: what a thread goes on with, or what
\* is taken from the queue.
LEMMA GoOnFuture ==
    ASSUME TypeOK, NEW t \in Threads, GoOn(t)
    PROVE  LET f == job[t].future
           IN  /\ f \in Futures /\ pc[t] # "idle" /\ UNCHANGED <<calls, method>>
               /\ \A g \in Futures : g # f => future'[g] = future[g]
               /\ \A u \in Threads : u # t => pc'[u] = pc[u] /\ job'[u] = job[u]
               /\ pc'[t] # "idle" => job'[t].future = f
<1> DEFINE f == job[t].future
<1>1. job \in [Threads -> Jobs] /\ pc \in [Threads -> {"idle", "checked", "store", "start"}]
      /\ future \in [Futures -> {"unused", "pending", "finished", "failed"}]
  BY DEF TypeOK
<1>2. f \in Futures
  BY <1>1 DEF Jobs
<1>3. \A o : Report(f, o) => \A g \in Futures : g # f => future'[g] = future[g]
  BY <1>1 DEF Report
<1>4. Idle(t) => /\ \A u \in Threads : u # t => pc'[u] = pc[u] /\ job'[u] = job[u]
                 /\ pc'[t] = "idle"
  BY <1>1 DEF Idle
<1>5. \A target, next : setConnectivityState(t, target, next, f) =>
         /\ \A u \in Threads : u # t => pc'[u] = pc[u] /\ job'[u] = job[u]
         /\ job'[t].future = f
  BY <1>1 DEF setConnectivityState
<1> HIDE DEF f
<1>6. CASE connectChecked(t)
  <2>1. /\ pc[t] = "checked" /\ UNCHANGED <<calls, method>>
        /\ Report(f, "failed") \/ UNCHANGED future
        /\ Idle(t) \/ setConnectivityState(t, "Connecting", "asyncConnect", f)
    BY <1>6 DEF connectChecked, StartConnect, reportErrorCode, record, f
  <2> QED BY <1>2, <1>3, <1>4, <1>5, <2>1 DEF f
<1>7. CASE StartOperation(t)
  <2>1. pc[t] = "start" /\ UNCHANGED <<calls, method, future>> /\ Idle(t)
    BY <1>7 DEF StartOperation, record
  <2> QED BY <1>2, <1>4, <2>1 DEF f
<1>8. CASE Store(t)
  <2>1. pc[t] = "store" /\ UNCHANGED <<calls, method>> /\ Idle(t)
    BY <1>8 DEF Store, record
  <2>2. Report(f, "finished") \/ Report(f, "failed") \/ UNCHANGED future
    BY <1>8 DEF Store, AsyncConnect, ReportOutcome, CloseNow, CloseLater, CloseRefused, RunClose,
                reportErrorCode, f
  <2> QED BY <1>2, <1>3, <1>4, <2>1, <2>2 DEF f
<1> QED BY <1>6, <1>7, <1>8 DEF GoOn

LEMMA HandlerFuture ==
    ASSUME TypeOK, Handler
    PROVE  \E f \in Futures :
              /\ UNCHANGED <<calls, method>>
              /\ \A g \in Futures : g # f => future'[g] = future[g]
              /\ \A u \in Threads : u # Io => pc'[u] = pc[u] /\ job'[u] = job[u]
<1> DEFINE f == Next1.future
<1>1. job \in [Threads -> Jobs] /\ pc \in [Threads -> {"idle", "checked", "store", "start"}]
      /\ future \in [Futures -> {"unused", "pending", "finished", "failed"}]
      /\ ioQueue \in Seq(Items)
  BY DEF TypeOK
<1>2. ioQueue # <<>>
  BY DEF Handler, connectTask, closeTask, addressResolved, connected, transferred, Dequeue
<1>3. f \in Futures
  <2>1. Head(ioQueue) \in Items
    BY <1>1, <1>2
  <2> QED BY <2>1 DEF Next1, Items
<1>4. \A o : Report(f, o) => \A g \in Futures : g # f => future'[g] = future[g]
  BY <1>1 DEF Report
<1> HIDE DEF f
<1>5. Idle(Io) => \A u \in Threads : u # Io => pc'[u] = pc[u] /\ job'[u] = job[u]
  BY <1>1 DEF Idle
<1>6. \A target, next : setConnectivityState(Io, target, next, f) =>
         \A u \in Threads : u # Io => pc'[u] = pc[u] /\ job'[u] = job[u]
  BY <1>1 DEF setConnectivityState
<1>7. /\ UNCHANGED <<calls, method>>
      /\ Report(f, "finished") \/ Report(f, "failed") \/ UNCHANGED future
      /\ \/ Idle(Io) \/ UNCHANGED thread
         \/ \E target, next : setConnectivityState(Io, target, next, f)
  <2>1. CASE connectTask
    BY <2>1 DEF connectTask, StartConnect, record, f
  <2>2. CASE closeTask
    BY <2>2 DEF closeTask, RunClose, reportErrorCode, record, f
  <2>3. CASE addressResolved
    BY <2>3 DEF addressResolved, reportErrorCode, record, f
  <2>4. CASE connected
    BY <2>4 DEF connected, record, f
  <2>5. CASE transferred
    BY <2>5 DEF transferred, record, f
  <2> QED BY <2>1, <2>2, <2>3, <2>4, <2>5 DEF Handler
<1>8. \A u \in Threads : u # Io => pc'[u] = pc[u] /\ job'[u] = job[u]
  BY <1>5, <1>6, <1>7 DEF thread
<1>9. \A g \in Futures : g # f => future'[g] = future[g]
  BY <1>4, <1>7
<1> QED BY <1>3, <1>7, <1>8, <1>9

LEMMA HandlerGoesOnStep ==
    ASSUME ContextIInv, TypeOK, NEW t \in Threads, handlerGoesOn(t)
    PROVE  ContextIInv'
<1>1. /\ GoOn(t) /\ RunListeners(t)
      /\ unconnected' = unconnected \/ unconnected' = unconnected \cup {job[t].future}
      /\ UNCHANGED <<pipe, tasks, writes, requestOf, answers, written, lost, up, stalled>>
  BY DEF handlerGoesOn
<1> DEFINE f == job[t].future
<1>2. /\ f \in Futures /\ pc[t] # "idle" /\ UNCHANGED <<calls, method>>
      /\ \A g \in Futures : g # f => future'[g] = future[g]
      /\ \A u \in Threads : u # t => pc'[u] = pc[u] /\ job'[u] = job[u]
      /\ pc'[t] # "idle" => job'[t].future = f
  BY <1>1, GoOnFuture
<1>3. unconnected' \subseteq Futures
  BY <1>1, <1>2 DEF ContextIInv, WorkInv, ContextTypeOK
<1> QED BY <1>1, <1>2, <1>3, HandlerSettles

LEMMA HandlerCompletesStep == ASSUME ContextIInv, TypeOK, handlerCompletes PROVE ContextIInv'
<1>1. /\ todo[Io] = <<>> /\ Handler /\ RunListeners(Io)
      /\ UNCHANGED <<pipe, tasks, writes, unconnected, requestOf, answers, written, lost, up,
                     stalled>>
  BY DEF handlerCompletes, Free
<1>2. PICK f \in Futures :
         /\ UNCHANGED <<calls, method>>
         /\ \A g \in Futures : g # f => future'[g] = future[g]
         /\ \A u \in Threads : u # Io => pc'[u] = pc[u] /\ job'[u] = job[u]
  BY <1>1, HandlerFuture
<1>3. unconnected' \subseteq Futures /\ Io \in Threads
  BY <1>1 DEF ContextIInv, WorkInv, ContextTypeOK, Threads
<1> QED BY <1>1, <1>2, <1>3, HandlerSettles

\* What leaves the context and its handler's futures alone.
LEMMA ContextRests ==
    ASSUME ContextIInv, UNCHANGED <<context, calls, method, future, pc, job>>
    PROVE  ContextIInv'
<1>1. UNCHANGED <<pipe, todo, tasks, writes, listening, unconnected, requestOf, answers, written,
                  lost, up, stalled>>
  BY DEF context
<1>2. PipeInv' /\ ListenInv' /\ RequestOfInv' /\ Sound' = Sound
  BY <1>1 DEF ContextIInv, PipeInv, ListenInv, RequestOfInv, Sound, InPipe
<1>3. WorkInv'
  <2>1. ContextTypeOK'
    BY <1>1 DEF ContextIInv, WorkInv, ContextTypeOK
  <2> QED BY <1>1, <1>2, <2>1 DEF ContextIInv, WorkInv, TasksInv
<1>4. RequestInv'
  BY <1>1, RequestsRest DEF ContextIInv
<1> QED BY <1>2, <1>3, <1>4 DEF ContextIInv

------------------------------------------------------------------------------
\* The invariant of the context.

LEMMA ContextInitially == ContextInit => ContextIInv
<1> SUFFICES ASSUME ContextInit PROVE ContextIInv
  OBVIOUS
<1>1. PipeInv
  BY DEF ContextInit, PipeInv
<1>2. /\ Init /\ todo = [t \in Threads |-> IF t = Io THEN CallOf("connect", 0) ELSE <<>>]
      /\ tasks = <<>> /\ writes = <<>> /\ listening = {} /\ unconnected = {}
      /\ requestOf = [f \in Futures |-> 0] /\ answers = [r \in Requests |-> 0]
      /\ written = 0 /\ lost = {} /\ up = FALSE /\ stalled = FALSE
  BY DEF ContextInit
<1>3. \A t \in Threads : todo[t] \in Seq(Blank)
  <2>1. CallOf("connect", 0) \in Seq(Blank)
    BY <1>1, Tells DEF Methods
  <2>2. <<>> \in Seq(Blank)
    OBVIOUS
  <2> QED BY <1>2, <2>1, <2>2
<1>4. \A t \in Threads : todo[t] \in Seq(Sound) /\ todo[t] \in Seq(Works)
  <2>1. Blank \subseteq Sound /\ Blank \subseteq Works
    BY Kinds0
  <2> QED BY <1>3, <2>1, SeqMonotonic
<1>5. WorkInv
  <2>1. written \in 0..MaxWrites
    BY <1>2, IOPipelineAssumption
  <2>2. todo \in [Threads -> Seq(Works)]
    BY <1>2, <1>4
  <2>3. ContextTypeOK
    <3>1. tasks \in Seq(Seq(Works)) /\ writes \in Seq(Requests)
      BY <1>2
    <3>2. /\ requestOf \in [Futures -> Requests \cup {0}] /\ answers \in [Requests -> Nat]
          /\ {up, stalled} \subseteq BOOLEAN
      BY <1>2
    <3>3. listening \subseteq Futures /\ unconnected \subseteq Futures /\ lost \subseteq Requests
      BY <1>2
    <3> QED BY <2>1, <2>2, <3>1, <3>2, <3>3 DEF ContextTypeOK
  <2>4. TasksInv
    BY <1>2 DEF TasksInv
  <2> QED BY <1>4, <2>3, <2>4 DEF WorkInv
<1>6. ListenInv
  <2>1. \A t \in Threads : \A i \in 1..Len(todo[t]) : todo[t][i].do # "listen"
    <3>1. \A x \in Blank : x.do # "listen"
      BY DEF Blank
    <3>2. \A t \in Threads : \A i \in 1..Len(todo[t]) : todo[t][i] \in Blank
      BY <1>3
    <3> QED BY <3>1, <3>2
  <2> QED BY <1>2, <2>1 DEF ListenInv
<1>7. RequestOfInv
  BY <1>2 DEF RequestOfInv
<1>8. ASSUME NEW r \in Requests PROVE HeldOnce(r) /\ HeldAlone(r) /\ AnswerInv(r)
  <2>1. \A t \in Threads : ~InTodo(t, r) /\ Once(todo[t], Holding(r, requestOf))
    <3> TAKE t \in Threads
    <3>1. Blank \cap Holding(r, requestOf) = {}
      BY Kinds0
    <3> QED BY <1>3, <3>1, HasNone DEF InTodo
  <2>2. Len(<<>>) = 0
    OBVIOUS
  <2>3. ~InWrites(r) /\ ~InTasks(r) /\ ~Heard(r) /\ Once(writes, {r}) /\ Once(tasks, {Answer(r)})
    BY <1>2, <2>2 DEF InWrites, InTasks, Heard, Has, Once
  <2>4. ~Held(r)
    BY <2>1, <2>3 DEF Held
  <2>5. HeldOnce(r) /\ HeldAlone(r)
    BY <1>2, <2>1, <2>3 DEF HeldOnce, HeldAlone
  <2>6. AnswerInv(r)
    <3>1. answers[r] = 0 /\ ~(r <= written)
      BY <1>2, Numbers
    <3> QED BY <2>4, <3>1 DEF AnswerInv
  <2> QED BY <2>5, <2>6
<1> QED BY <1>1, <1>5, <1>6, <1>7, <1>8 DEF ContextIInv, RequestInv

LEMMA ContextInductive == ContextIInv /\ IInv /\ [ContextNext]_<<vars, context>> => ContextIInv'
<1> SUFFICES ASSUME ContextIInv, IInv, [ContextNext]_<<vars, context>> PROVE ContextIInv'
  OBVIOUS
<1>1. TypeOK
  BY DEF IInv
<1>2. ASSUME NEW t \in Threads, ThreadGoesOn(t) PROVE ContextIInv'
  <2>1. CASE handlerGoesOn(t)
    BY <1>1, <2>1, HandlerGoesOnStep
  <2>2. CASE callHandler(t)
    BY <1>1, <2>2, CallHandlerStep
  <2>3. CASE listen(t)
    BY <1>1, <2>3, ListenStep
  <2>4. CASE tellFirst(t)
    BY <2>4, TellFirstStep
  <2>5. CASE tellLast(t)
    BY <2>5, TellLastStep
  <2>6. CASE \E reaction \in ReactionNames : tellStage(t, reaction)
    BY <2>6, TellStageStep
  <2>7. CASE stageWrites(t)
    BY <2>7, StageWritesStep
  <2>8. CASE post(t)
    BY <2>8, StagePostStep
  <2>9. CASE throw(t)
    BY <2>9, ThrowStep
  <2>10. CASE answer(t)
    BY <2>10, RequestAnswerStep
  <2> QED BY <1>2, <2>1, <2>2, <2>3, <2>4, <2>5, <2>6, <2>7, <2>8, <2>9, <2>10 DEF ThreadGoesOn
<1>3. CASE handlerCompletes
  BY <1>1, <1>3, HandlerCompletesStep
<1>4. CASE writeTask
  BY <1>4, WriteTaskStep
<1>5. CASE workerTakes
  BY <1>5, WorkerTakesStep
<1>6. CASE network
  <2>1. UNCHANGED <<context, calls, method, future, pc, job>>
    BY <1>6 DEF network, Complete, thread, record
  <2> QED BY <2>1, ContextRests
<1>7. CASE callWrite
  BY <1>7, CallWriteStep
<1>8. ASSUME NEW m \in TaskCalls, userTask(m) PROVE ContextIInv'
  BY <1>8, UserTaskStep
<1>9. CASE UNCHANGED <<vars, context>>
  <2>1. UNCHANGED <<context, calls, method, future, pc, job>>
    BY <1>9 DEF vars, thread, record
  <2> QED BY <2>1, ContextRests
<1> QED BY <1>2, <1>3, <1>4, <1>5, <1>6, <1>7, <1>8, <1>9 DEF ContextNext, IoServes

\* An answer is awaited where its request is held.
LEMMA HeldIsAwaited ==
    ASSUME ContextIInv, NEW r \in Requests
    PROVE  Awaited(r) <=> Held(r)
<1>1. InWrites(r) <=> \E i \in DOMAIN writes : writes[i] = r
  BY DEF InWrites, Has, ContextIInv, WorkInv, ContextTypeOK
<1>2. InTasks(r) <=> \E i \in DOMAIN tasks : \E j \in DOMAIN tasks[i] : tasks[i][j].n = r
  <2>1. DOMAIN tasks = 1..Len(tasks)
    BY DEF ContextIInv, WorkInv, ContextTypeOK
  <2>2. ASSUME NEW i \in 1..Len(tasks)
        PROVE  tasks[i] = Answer(r) <=> \E j \in DOMAIN tasks[i] : tasks[i][j].n = r
    <3>1. \A q \in Requests : Answer(q) = <<Work("answer", "none", NoStage, q)>>
      BY Numbers DEF Answer
    <3>2. \/ \E x \in Sound : x.do = "tell" /\ x.n = 0 /\ tasks[i] = <<x>>
          \/ \E q \in Requests : tasks[i] = Answer(q)
      BY DEF ContextIInv, WorkInv, TasksInv
    <3>3. \A x : DOMAIN <<x>> = {1} /\ <<x>>[1] = x
      OBVIOUS
    <3>4. CASE \E x \in Sound : x.do = "tell" /\ x.n = 0 /\ tasks[i] = <<x>>
      <4>1. PICK x \in Sound : x.do = "tell" /\ x.n = 0 /\ tasks[i] = <<x>>
        BY <3>4
      <4>2. tasks[i] # Answer(r)
        BY <4>1, Answers
      <4> QED BY <3>3, <4>1, <4>2, Numbers
    <3>5. CASE \E q \in Requests : tasks[i] = Answer(q)
      <4>1. PICK q \in Requests : tasks[i] = Answer(q)
        BY <3>5
      <4>2. Answer(q) = Answer(r) <=> q = r
        BY Answers
      <4>3. DOMAIN tasks[i] = {1} /\ tasks[i][1].n = q
        BY <3>1, <3>3, <4>1 DEF Work
      <4> QED BY <4>1, <4>2, <4>3
    <3> QED BY <3>2, <3>4, <3>5
  <2> QED BY <2>1, <2>2 DEF InTasks, Has
<1>3. \A t \in Threads :
         InTodo(t, r) <=>
            \E i \in DOMAIN todo[t] :
               \/ todo[t][i].do \in {"tell", "call", "post", "answer"} /\ todo[t][i].n = r
               \/ todo[t][i].do = "listen" /\ requestOf[todo[t][i].n] = r
  <2> TAKE t \in Threads
  <2>1. todo[t] \in Seq(Works)
    BY DEF ContextIInv, WorkInv, ContextTypeOK
  <2>2. DOMAIN todo[t] = 1..Len(todo[t]) /\ \A i \in 1..Len(todo[t]) : todo[t][i] \in Works
    BY <2>1
  <2> QED BY <2>2 DEF InTodo, Has, Holding
<1>4. Heard(r) <=> \E f \in listening : requestOf[f] = r /\ future[f] = "pending"
  BY DEF Heard, ContextIInv, ListenInv
<1> QED BY <1>1, <1>2, <1>3, <1>4 DEF Awaited, Held

\* Requests are answered once, on success as on failure, unless a stage did not pass
\* them on: with the types of the context and of its handler, for any pipelines,
\* reactions of the stages, exceptions, reconnects and executors.
THEOREM RequestsAreAnswered == ContextSpec => []ContextInv
<1>1. ContextIInv /\ IInv => ContextInv
  <2> SUFFICES ASSUME ContextIInv, IInv PROVE ContextInv
    OBVIOUS
  <2>1. TypeOK /\ ContextTypeOK
    BY DEF IInv, ContextIInv, WorkInv
  <2>2. ASSUME NEW r \in 1..written
        PROVE  /\ answers[r] <= 1
               /\ answers[r] = 0 => Awaited(r) \/ r \in lost
               /\ answers[r] = 1 => ~Awaited(r)
    <3>1. r \in Requests /\ r <= written
      BY <2>1, IOPipelineAssumption DEF ContextTypeOK, Requests
    <3>2. AnswerInv(r) /\ (Awaited(r) <=> Held(r))
      BY <3>1, HeldIsAwaited DEF ContextIInv, RequestInv
    <3> QED BY <3>1, <3>2 DEF AnswerInv
  <2> QED BY <2>1, <2>2 DEF ContextInv, RequestsAnswered
<1> QED BY <1>1, ContextInitially, ContextInductive, ContextUsesHandler, InductiveInvariant, PTL
        DEF ContextSpec

------------------------------------------------------------------------------
\* The reading of a connection.

\* Elements of D, and then one of C: nothing comes before C but what is in D.
Leads(s, C, D) == \E i \in 1..Len(s) : s[i] \in C /\ \A j \in 1..i - 1 : s[j] \in D

LEMMA LeadsOne ==
    ASSUME NEW x, NEW C, NEW D, x \in C
    PROVE  Leads(<<x>>, C, D)
<1>1. Len(<<x>>) = 1 /\ <<x>>[1] = x /\ 1 \in 1..1 /\ 1..1 - 1 = {}
  OBVIOUS
<1> QED BY <1>1 DEF Leads

LEMMA LeadsSame ==
    ASSUME NEW S, NEW s \in Seq(S), NEW C, NEW D, NEW C2, NEW D2, Leads(s, C, D),
           \A x \in S : (x \in C => x \in C2) /\ (x \in D => x \in D2)
    PROVE  Leads(s, C2, D2)
<1>1. PICK i \in 1..Len(s) : s[i] \in C /\ \A j \in 1..i - 1 : s[j] \in D
  BY DEF Leads
<1>2. Len(s) \in Nat /\ \A j \in 1..Len(s) : s[j] \in S
  OBVIOUS
<1>3. \A j \in 1..i - 1 : j \in 1..Len(s)
  BY <1>2
<1> QED BY <1>1, <1>2, <1>3 DEF Leads

LEMMA LeadsTail ==
    ASSUME NEW S, NEW s \in Seq(S), NEW C, NEW D
    PROVE  /\ Leads(s, C, D) => s # <<>> /\ (Head(s) \in C \/ Head(s) \in D)
           /\ Leads(s, C, D) /\ Head(s) \notin C => Leads(Tail(s), C, D)
<1> SUFFICES ASSUME Leads(s, C, D)
             PROVE  /\ s # <<>> /\ (Head(s) \in C \/ Head(s) \in D)
                    /\ Head(s) \notin C => Leads(Tail(s), C, D)
  OBVIOUS
<1>1. PICK i \in 1..Len(s) : s[i] \in C /\ \A j \in 1..i - 1 : s[j] \in D
  BY DEF Leads
<1>2. Len(s) \in Nat /\ s # <<>>
  BY <1>1
<1> DEFINE r == Tail(s)
           n == Len(s)
<1>3. /\ n >= 1 /\ Len(r) = n - 1 /\ Head(s) = s[1] /\ \A j \in 1..n - 1 : r[j] = s[j + 1]
  BY <1>2, HeadTailProperties
<1> HIDE DEF r
<1>4. i = 1 \/ (/\ 1 \in 1..i - 1 /\ i - 1 \in 1..n - 1 /\ (i - 1) + 1 = i
                /\ \A j \in 1..(i - 1) - 1 : j \in 1..n - 1 /\ j + 1 \in 1..i - 1)
  BY <1>1, <1>2, <1>3
<1>5. CASE i = 1
  BY <1>1, <1>2, <1>3, <1>5
<1>6. CASE i # 1
  <2>1. /\ 1 \in 1..i - 1 /\ i - 1 \in 1..n - 1 /\ (i - 1) + 1 = i
        /\ \A j \in 1..(i - 1) - 1 : j \in 1..n - 1 /\ j + 1 \in 1..i - 1
    BY <1>4, <1>6
  <2>2. Head(s) \in D
    BY <1>1, <1>3, <2>1
  <2>3. r[i - 1] = s[i]
    BY <1>3, <2>1
  <2>4. \A j \in 1..(i - 1) - 1 : r[j] \in D
    BY <1>1, <1>3, <2>1
  <2>5. i - 1 \in 1..Len(r)
    BY <1>3, <2>1
  <2>6. Leads(r, C, D)
    BY <1>1, <2>3, <2>4, <2>5 DEF Leads
  <2> QED BY <1>2, <2>2, <2>6 DEF r
<1> QED BY <1>5, <1>6

LEMMA LeadsConcat ==
    ASSUME NEW S, NEW a \in Seq(S), NEW b \in Seq(S), NEW C, NEW D
    PROVE  /\ Leads(a, C, D) => Leads(a \o b, C, D)
           /\ (\A i \in 1..Len(a) : a[i] \in D) /\ Leads(b, C, D) => Leads(a \o b, C, D)
<1> DEFINE m == Len(a)
           n == Len(b)
           c == a \o b
<1>1. /\ m \in Nat /\ n \in Nat /\ Len(c) = m + n
      /\ \A i \in 1..m + n : c[i] = IF i <= m THEN a[i] ELSE b[i - m]
  BY ConcatProperties
<1>2. \A i \in 1..m : i \in 1..m + n /\ c[i] = a[i]
  BY <1>1
<1>3. \A i \in 1..n : i + m \in 1..m + n /\ c[i + m] = b[i]
  <2> TAKE i \in 1..n
  <2>1. i + m \in 1..m + n /\ ~(i + m <= m) /\ (i + m) - m = i
    BY <1>1
  <2> QED BY <1>1, <2>1
<1> HIDE DEF c
<1>4. ASSUME Leads(a, C, D) PROVE Leads(c, C, D)
  <2>1. PICK i \in 1..m : a[i] \in C /\ \A j \in 1..i - 1 : a[j] \in D
    BY <1>4 DEF Leads
  <2>2. \A j \in 1..i - 1 : j \in 1..m
    BY <1>1
  <2> QED BY <1>1, <1>2, <2>1, <2>2 DEF Leads
<1>5. ASSUME \A i \in 1..m : a[i] \in D, Leads(b, C, D) PROVE Leads(c, C, D)
  <2>1. PICK i \in 1..n : b[i] \in C /\ \A j \in 1..i - 1 : b[j] \in D
    BY <1>5 DEF Leads
  <2>2. ASSUME NEW j \in 1..(i + m) - 1 PROVE c[j] \in D
    <3>1. j \in 1..m \/ (j - m \in 1..i - 1 /\ j - m \in 1..n /\ (j - m) + m = j)
      BY <1>1
    <3>2. CASE j \in 1..m
      BY <1>2, <1>5, <3>2
    <3>3. CASE j - m \in 1..i - 1 /\ j - m \in 1..n /\ (j - m) + m = j
      <4>1. c[(j - m) + m] = b[j - m]
        BY <1>3, <3>3
      <4> QED BY <2>1, <3>3, <4>1
    <3> QED BY <3>1, <3>2, <3>3
  <2> QED BY <1>1, <1>3, <2>1, <2>2 DEF Leads
<1> QED BY <1>4, <1>5 DEF c

\* Nothing of it is dropped with the try blocks that are left.
LEMMA LeadsLeft ==
    ASSUME NEW S, S \subseteq Works, NEW s \in Seq(S), NEW C, NEW D, Leads(s, C, D),
           \A x \in C \cup D : x.do # "endTry"
    PROVE  Leads(Left(s), C, D)
<1>1. s # <<>> /\ Head(s) \in C \cup D
  BY LeadsTail
<1>2. Left(s) = s
  BY <1>1, LeftKeeps
<1> QED BY <1>2

\* What starts a read, or will: a call of read, an event that has a stage start one,
\* directly or by the stages in front of it, and a listener that tells such an event.
Tokens ==
    {x \in Sound :
        \/ x.do = "call" /\ x.what = "read"
        \/ x.do = "tell" /\ x.what = "active" /\ x.stage = FirstStage
        \/ x.do \in {"tell", "post"} /\ x.what \in {"read", "readComplete"} /\ InPipe(x.stage)
        \/ x.do = "listen" /\ method[x.n] \in {"connect", "read"} /\ future[x.n] = "finished"}

\* What may come before it: it neither throws nor changes the state.
Ahead ==
    {x \in Sound : \/ x.do = "call" /\ x.what = "connect"
                   \/ x.do = "listen" /\ method[x.n] = "connect"}

WillRead(s) == s \in Seq(Sound) /\ Leads(s, Tokens, Ahead)
TasksRead == \E i \in 1..Len(tasks) : WillRead(tasks[i])

\* A connection that is Ready is read, unless a stage broke it.
ReadingInv ==
    connState = "Ready" =>
        \/ stalled
        \/ \E f \in 1..calls : method[f] = "read" /\ future[f] = "pending"
        \/ \E t \in Threads : WillRead(todo[t])
        \/ TasksRead

\* Whose future is pending will hear of it: there is a listener, or the thread of the
\* call comes to add one.
AwaitInv ==
    \A f \in 1..calls : future[f] = "pending" /\ method[f] # "close" =>
        \/ f \in listening
        \/ \E t \in Threads : /\ todo[t] # <<>>
                              /\ Head(todo[t]).do = "listen" /\ Head(todo[t]).n = f

\* A thread in a call comes to listen to it before anything else, but for close().
BusyInv ==
    \A t \in Threads : pc[t] # "idle" /\ todo[t] # <<>> =>
        Head(todo[t]).do = "listen" \/ job[t].future = CloseFuture

LEMMA TokensAre ==
    /\ Tokens \subseteq Sound /\ Ahead \subseteq Sound
    /\ \A x \in Tokens \cup Ahead : x.do \in {"call", "tell", "post", "listen"}
    /\ \A x \in Tokens \cup Ahead : x.do # "endTry"
BY DEF Tokens, Ahead

\* The items of a step that leaves the handler alone.
LEMMA SameTokens ==
    ASSUME UNCHANGED <<calls, method, future, pipe>>
    PROVE  Tokens' = Tokens /\ Ahead' = Ahead /\ Sound' = Sound
<1>1. Sound' = Sound /\ \A s : InPipe(s)' <=> InPipe(s)
  BY DEF Sound, InPipe
<1> QED BY <1>1 DEF Tokens, Ahead

\* A thread that is in no call has other things to do.
LEMMA TurnReading ==
    ASSUME ContextIInv, ReadingInv, AwaitInv, BusyInv, NEW t \in Threads, NEW s,
           Becomes(t, s), UNCHANGED <<vars, pipe>>, pc[t] = "idle", listening \subseteq listening',
           todo[t] # <<>> /\ Head(todo[t]).do = "listen" =>
              LET f == Head(todo[t]).n IN future[f] # "pending" \/ f \in listening',
           WillRead(todo[t]) => stalled' \/ WillRead(s) \/ TasksRead',
           stalled => stalled' \/ WillRead(s),
           TasksRead => WillRead(s) \/ TasksRead'
    PROVE  ReadingInv' /\ AwaitInv' /\ BusyInv'
<1>1. UNCHANGED <<calls, method, future, pc, job, connState>>
  BY DEF vars, record, thread
<1>2. todo \in [Threads -> Seq(Works)] /\ Sound \subseteq Works
  BY Kinds0 DEF ContextIInv, WorkInv, ContextTypeOK
<1>3. todo'[t] = Left(s) /\ \A u \in Threads : u # t => todo'[u] = todo[u]
  BY <1>2 DEF Becomes
<1>4. Tokens' = Tokens /\ Ahead' = Ahead /\ Sound' = Sound
  BY <1>1, SameTokens
<1>5. WillRead(s) => WillRead(todo[t])'
  <2>1. WillRead(s) => WillRead(Left(s))
    BY <1>2, LeftKeeps, LeadsLeft, TokensAre DEF WillRead
  <2> QED BY <1>3, <1>4, <2>1 DEF WillRead
<1>6. ReadingInv'
  <2> SUFFICES ASSUME connState' = "Ready"
               PROVE  \/ stalled'
                      \/ \E f \in 1..calls : method[f] = "read" /\ future[f] = "pending"
                      \/ \E u \in Threads : WillRead(todo[u])'
                      \/ TasksRead'
    BY <1>1 DEF ReadingInv
  <2>1. \/ stalled
        \/ \E f \in 1..calls : method[f] = "read" /\ future[f] = "pending"
        \/ \E u \in Threads : WillRead(todo[u])
        \/ TasksRead
    BY <1>1 DEF ReadingInv
  <2>2. ASSUME NEW u \in Threads, WillRead(todo[u])
        PROVE  stalled' \/ WillRead(todo[u])' \/ WillRead(todo[t])' \/ TasksRead'
    <3>1. CASE u = t
      BY <1>5, <2>2, <3>1
    <3>2. CASE u # t
      BY <1>3, <1>4, <2>2, <3>2 DEF WillRead
    <3> QED BY <3>1, <3>2
  <2> QED BY <1>5, <2>1, <2>2
<1>7. AwaitInv'
  BY <1>1, <1>3 DEF AwaitInv
<1>8. BusyInv'
  BY <1>1, <1>3 DEF BusyInv
<1> QED BY <1>6, <1>7, <1>8

\* It does the first of them.
LEMMA ItemReading ==
    ASSUME ContextIInv, ReadingInv, AwaitInv, BusyInv, NEW t \in Threads, NEW items,
           todo[t] # <<>>, Replace(t, items), UNCHANGED <<vars, pipe, listening>>, pc[t] = "idle",
           Head(todo[t]).do # "listen", Head(todo[t]) \notin Ahead,
           Head(todo[t]) \in Tokens => stalled' \/ WillRead(items) \/ TasksRead',
           stalled => stalled' \/ WillRead(items),
           TasksRead => TasksRead'
    PROVE  ReadingInv' /\ AwaitInv' /\ BusyInv'
<1> DEFINE rest == Tail(todo[t])
           s == items \o rest
<1>1. rest \in Seq(Talk) /\ rest \in Seq(Sound) /\ todo[t] \in Seq(Sound) /\ Becomes(t, s)
  <2>1. rest \in Seq(Talk) /\ todo[t] \in Seq(Sound)
    BY Stacks DEF ContextIInv
  <2>2. rest \in Seq(Sound)
    <3> HIDE DEF rest
    <3> QED BY <2>1, Kinds0, SeqMonotonic
  <2> QED BY <2>1, <2>2 DEF Replace
<1>2. WillRead(items) => WillRead(s)
  <2> SUFFICES ASSUME WillRead(items) PROVE s \in Seq(Sound) /\ Leads(s, Tokens, Ahead)
    BY DEF WillRead
  <2>1. items \in Seq(Sound) /\ Leads(items, Tokens, Ahead)
    BY DEF WillRead
  <2> HIDE DEF rest
  <2> QED BY <1>1, <2>1, LeadsConcat
<1>3. WillRead(todo[t]) => Head(todo[t]) \in Tokens
  BY <1>1, LeadsTail DEF WillRead
<1> HIDE DEF s
<1> QED BY <1>1, <1>2, <1>3, TurnReading

\* What the tasks of the worker will have read stays so.
LEMMA TasksStay ==
    ASSUME ContextIInv, UNCHANGED <<calls, method, future, pipe>>, NEW q,
           tasks' = tasks \/ tasks' = Append(tasks, q)
    PROVE  /\ TasksRead => TasksRead'
           /\ tasks' = Append(tasks, q) /\ WillRead(q) => TasksRead'
<1>1. Tokens' = Tokens /\ Ahead' = Ahead /\ Sound' = Sound
  BY SameTokens
<1>2. tasks \in Seq(Seq(Works))
  BY DEF ContextIInv, WorkInv, ContextTypeOK
<1>3. \A i \in 1..Len(tasks) : i \in 1..Len(tasks') /\ tasks'[i] = tasks[i]
  <2>1. CASE tasks' = tasks
    BY <2>1
  <2>2. CASE tasks' = Append(tasks, q)
    BY <1>2, <2>2, AppendProperties
  <2> QED BY <2>1, <2>2
<1>4. tasks' = Append(tasks, q) => Len(tasks) + 1 \in 1..Len(tasks') /\ tasks'[Len(tasks) + 1] = q
  BY <1>2
<1>5. TasksRead => TasksRead'
  BY <1>1, <1>3 DEF TasksRead, WillRead
<1>6. tasks' = Append(tasks, q) /\ WillRead(q) => TasksRead'
  BY <1>1, <1>4 DEF TasksRead, WillRead
<1> QED BY <1>5, <1>6

\* What makes a read, of what the code tells and calls.
LEMMA Starters ==
    ASSUME PipeInv
    PROVE  /\ WillRead(CallOf("read", 0))
           /\ \A e \in {"read", "readComplete"}, s \in AllStages : InPipe(s) =>
                 /\ WillRead(Tell(e, s, 0))
                 /\ s # FirstStage => WillRead(invoke(e, s, 0))
           /\ \A e \in {"active", "read", "readComplete"} : WillRead(Notify(e))
           /\ InPipe(FirstStage) /\ InPipe(LastStage)
<1>1. FirstStage \in AllStages /\ LastStage \in AllStages /\ InPipe(FirstStage) /\ InPipe(LastStage)
  BY DEF AllStages, InPipe
<1>2. \A x \in Tokens : WillRead(<<x>>)
  <2> SUFFICES ASSUME NEW x \in Tokens PROVE <<x>> \in Seq(Sound) /\ Leads(<<x>>, Tokens, Ahead)
    BY DEF WillRead
  <2>1. x \in Sound
    BY TokensAre
  <2> QED BY <2>1, LeadsOne
<1>3. WillRead(CallOf("read", 0))
  <2>1. Work("call", "read", NoStage, 0) \in Sound
    BY Made1, Kinds0 DEF Methods
  <2>2. Work("call", "read", NoStage, 0) \in Tokens
    BY <2>1 DEF Tokens, Work
  <2> QED BY <1>2, <2>2 DEF CallOf
<1>4. ASSUME NEW e \in {"read", "readComplete"}, NEW s \in AllStages, InPipe(s)
      PROVE  /\ WillRead(<<Work("tell", e, s, 0)>>) /\ WillRead(<<Work("post", e, s, 0)>>)
             /\ WillRead(Tell(e, s, 0))
  <2>1. Work("tell", e, s, 0) \in Sound /\ Work("post", e, s, 0) \in Sound
    BY Made1, Kinds0 DEF Events
  <2>2. Work("tell", e, s, 0) \in Tokens /\ Work("post", e, s, 0) \in Tokens
    BY <1>4, <2>1 DEF Tokens, Work
  <2> QED BY <1>2, <2>2 DEF Tell
<1>5. ASSUME NEW e \in {"read", "readComplete"}, NEW s \in AllStages, InPipe(s), s # FirstStage
      PROVE  WillRead(invoke(e, s, 0))
  <2> DEFINE f == Following(pipe, e, s)
  <2>1. f = findReadableStage(pipe, s)
    <3>1. e \in {"read", "readComplete"} => Following(pipe, e, s) = findReadableStage(pipe, s)
      BY DEF Following
    <3> QED BY <3>1
  <2>2. InPipe(f) /\ f \in Reading
    BY <1>5, <2>1, Readable
  <2>3. f \in AllStages /\ f # NoStage
    BY <2>2, PipelineAssumption
  <2>4. invoke(e, s, 0) = IF f = NoStage THEN <<>>
                          ELSE IF f \in Remote THEN <<Work("post", e, f, 0)>>
                          ELSE Tell(e, f, 0)
    BY DEF invoke
  <2> HIDE DEF f
  <2> QED BY <1>4, <2>2, <2>3, <2>4
<1>6. ASSUME NEW e \in {"active", "read", "readComplete"} PROVE WillRead(Notify(e))
  <2> DEFINE s == IF e = "active" THEN FirstStage ELSE LastStage
             x == Work("tell", e, s, 0)
  <2>1. Head(Entry(pipe, e)) = s
    <3>1. Entry(pipe, e) = <<s>>
      BY DEF Entry
    <3> QED BY <3>1
  <2>2. Notify(e) = <<x>> \o EndTry
    BY <2>1 DEF Notify, Tell
  <2>3. x \in Sound
    BY <1>1, Made1, Kinds0 DEF Events
  <2>4. x \in Tokens
    BY <1>1, <2>3 DEF Tokens, Work
  <2> HIDE DEF x
  <2>5. <<x>> \in Seq(Sound) /\ Leads(<<x>>, Tokens, Ahead)
    BY <2>4, <1>2 DEF WillRead
  <2>6. EndTry \in Seq(Sound)
    BY Tells, Kinds0, SeqMonotonic
  <2>7. Leads(<<x>> \o EndTry, Tokens, Ahead)
    BY <2>5, <2>6, LeadsConcat
  <2>8. <<x>> \o EndTry \in Seq(Sound)
    BY <2>5, <2>6
  <2> QED BY <2>2, <2>7, <2>8 DEF WillRead
<1> QED BY <1>1, <1>3, <1>4, <1>5, <1>6

LEMMA ReadsFirst ==
    ASSUME NEW a, WillRead(a), NEW b \in Seq(Sound)
    PROVE  WillRead(a \o b)
BY LeadsConcat DEF WillRead

\* A call of connect may come before.
LEMMA ConnectsFirst ==
    ASSUME NEW b, WillRead(b)
    PROVE  WillRead(CallOf("connect", 0) \o b)
<1> DEFINE x == Work("call", "connect", NoStage, 0)
<1>1. x \in Sound
  BY Made1, Kinds0 DEF Methods
<1>2. x \in Ahead
  BY <1>1 DEF Ahead, Work
<1> HIDE DEF x
<1>3. <<x>> \in Seq(Sound) /\ Len(<<x>>) = 1 /\ \A i \in 1..1 : <<x>>[i] \in Ahead
  BY <1>1, <1>2
<1>4. b \in Seq(Sound) /\ Leads(b, Tokens, Ahead)
  BY DEF WillRead
<1>5. <<x>> \o b \in Seq(Sound)
  BY <1>3, <1>4
<1>6. \A i \in 1..Len(<<x>>) : <<x>>[i] \in Ahead
  BY <1>3
<1>7. Leads(<<x>> \o b, Tokens, Ahead)
  BY <1>3, <1>4, <1>6, LeadsConcat
<1> QED BY <1>5, <1>7 DEF WillRead, CallOf, x

HearInv == ReadingInv /\ AwaitInv /\ BusyInv

LEMMA FirstReading ==
    ASSUME ContextIInv, HearInv, NEW t \in Threads, tellFirst(t)
    PROVE  HearInv'
<1> DEFINE x == Head(todo[t])
           e == x.what
           items == StreamReadStage(e)
<1>1. /\ todo[t] # <<>> /\ pc[t] = "idle" /\ x.do = "tell" /\ x.stage = FirstStage
      /\ Replace(t, items) /\ UNCHANGED <<vars, pipe, tasks, listening>>
      /\ stalled' = (stalled /\ e # "active")
  BY DEF tellFirst, Doing
<1>2. x \in Sound /\ e \in Events /\ PipeInv /\ FirstStage \in AllStages
  BY <1>1, HeadHolds DEF ContextIInv, Sound, AllStages
<1>3. x \notin Ahead
  BY <1>1 DEF Ahead
<1>4. x \in Tokens => e \in {"active", "read", "readComplete"}
  BY <1>1 DEF Tokens
<1> HIDE DEF x
<1>5. e \in {"active", "read", "readComplete"} => WillRead(items)
  <2>1. CASE e = "read"
    <3>1. items = Notify("readComplete")
      BY <2>1 DEF StreamReadStage
    <3> QED BY <1>2, <3>1, Starters
  <2>2. CASE e \in {"active", "readComplete"}
    <3>1. items = CallOf("read", 0) \o invoke(e, FirstStage, 0)
      BY <2>2 DEF StreamReadStage
    <3>2. WillRead(CallOf("read", 0))
      BY <1>2, Starters
    <3>3. invoke(e, FirstStage, 0) \in Seq(Sound)
      BY <1>2, Tells, Kinds0, SeqMonotonic
    <3> QED BY <3>1, <3>2, <3>3, ReadsFirst
  <2> QED BY <2>1, <2>2
<1>6. stalled => stalled' \/ WillRead(items)
  BY <1>1, <1>5
<1>7. TasksRead => TasksRead'
  <2>1. UNCHANGED <<calls, method, future, pipe, tasks>>
    BY <1>1 DEF vars, record
  <2> QED BY <2>1, TasksStay
<1> HIDE DEF items
<1> QED BY <1>1, <1>3, <1>4, <1>5, <1>6, <1>7, ItemReading DEF x, HearInv

LEMMA LastReading ==
    ASSUME ContextIInv, HearInv, NEW t \in Threads, tellLast(t)
    PROVE  HearInv'
<1> DEFINE x == Head(todo[t])
           items == IOWriteStage(x.what, x.n)
<1>1. /\ todo[t] # <<>> /\ pc[t] = "idle" /\ x.do = "tell" /\ x.stage = LastStage
      /\ Replace(t, items) /\ UNCHANGED <<vars, pipe, tasks, listening, stalled>>
  BY DEF tellLast, Doing
<1>2. x \in Sound /\ PipeInv /\ LastStage \in AllStages /\ LastStage # FirstStage
  BY <1>1, HeadHolds, PipelineAssumption DEF ContextIInv, AllStages
<1>3. x \notin Ahead
  BY <1>1 DEF Ahead
<1>4. x \in Tokens => x.what \in {"read", "readComplete"} /\ x.n = 0 /\ InPipe(LastStage)
  BY <1>1, <1>2 DEF Tokens, Sound
<1> HIDE DEF x
<1>5. x \in Tokens => WillRead(items)
  <2> SUFFICES ASSUME x \in Tokens PROVE WillRead(items)
    OBVIOUS
  <2>1. items = invoke(x.what, LastStage, 0)
    BY <1>4 DEF IOWriteStage
  <2> QED BY <1>2, <1>4, <2>1, Starters
<1>6. TasksRead => TasksRead'
  <2>1. UNCHANGED <<calls, method, future, pipe, tasks>>
    BY <1>1 DEF vars, record
  <2> QED BY <2>1, TasksStay
<1> HIDE DEF items
<1> QED BY <1>1, <1>3, <1>5, <1>6, ItemReading DEF x, HearInv

LEMMA StageReading ==
    ASSUME ContextIInv, HearInv, NEW t \in Threads, NEW reaction \in ReactionNames,
           tellStage(t, reaction)
    PROVE  HearInv'
<1> DEFINE x == Head(todo[t])
           items == UserStage(x.what, x.stage, x.n, reaction)
<1>1. /\ todo[t] # <<>> /\ pc[t] = "idle" /\ x.do = "tell" /\ x.stage \in Stages
      /\ reaction # "write" /\ Replace(t, items) /\ UNCHANGED <<vars, pipe, tasks, listening>>
      /\ stalled' = (stalled \/ (/\ ~PassesOn(reaction) /\ reaction # "skip"
                                 /\ x.what \in {"read", "readComplete"}))
  BY DEF tellStage, Doing
<1>2. x \in Sound /\ PipeInv /\ x.stage \in AllStages /\ x.stage # FirstStage
  BY <1>1, HeadHolds, PipelineAssumption DEF ContextIInv, AllStages
<1>3. x \notin Ahead
  BY <1>1 DEF Ahead
<1>4. x \in Tokens => x.what \in {"read", "readComplete"} /\ x.n = 0 /\ InPipe(x.stage)
  BY <1>1, <1>2 DEF Tokens, Sound
<1> HIDE DEF x
<1>5. x \in Tokens => stalled' \/ WillRead(items)
  <2> SUFFICES ASSUME x \in Tokens, ~stalled' PROVE WillRead(items)
    OBVIOUS
  <2>1. PassesOn(reaction) \/ reaction = "skip"
    BY <1>1, <1>4
  <2> DEFINE i == invoke(x.what, x.stage, 0)
  <2>2. WillRead(i) /\ WillRead(invoke("readComplete", x.stage, 0))
    BY <1>2, <1>4, Starters
  <2>3. Throw \in Seq(Sound)
    BY <1>2, Tells, Kinds0, SeqMonotonic
  <2>4. /\ reaction = "forward" => items = i
        /\ reaction = "skip" => items = invoke("readComplete", x.stage, 0)
        /\ reaction = "throwAfter" => items = i \o Throw
        /\ reaction = "connect" => items = CallOf("connect", 0) \o i
    BY <1>4 DEF UserStage
  <2> HIDE DEF items, i
  <2>5. WillRead(i \o Throw) /\ WillRead(CallOf("connect", 0) \o i)
    BY <2>2, <2>3, ReadsFirst, ConnectsFirst
  <2> QED BY <2>1, <2>2, <2>4, <2>5 DEF PassesOn
<1>6. TasksRead => TasksRead'
  <2>1. UNCHANGED <<calls, method, future, pipe, tasks>>
    BY <1>1 DEF vars, record
  <2> QED BY <2>1, TasksStay
<1> HIDE DEF items
<1> QED BY <1>1, <1>3, <1>5, <1>6, ItemReading DEF x, HearInv

LEMMA StageWritesReading ==
    ASSUME ContextIInv, HearInv, NEW t \in Threads, stageWrites(t)
    PROVE  HearInv'
<1> DEFINE x == Head(todo[t])
<1>1. /\ todo[t] # <<>> /\ pc[t] = "idle" /\ x.do = "tell" /\ x.stage \in Stages
      /\ UNCHANGED <<vars, pipe, tasks, listening>>
      /\ stalled' = (stalled \/ x.what \in {"read", "readComplete"})
  BY DEF stageWrites, Doing
<1>2. x.stage # FirstStage
  BY <1>1, PipelineAssumption
<1>3. x \notin Ahead
  BY <1>1 DEF Ahead
<1>4. x \in Tokens => stalled'
  BY <1>1, <1>2 DEF Tokens
<1>5. PICK items : Replace(t, items)
  BY DEF stageWrites
<1>6. TasksRead => TasksRead'
  <2>1. UNCHANGED <<calls, method, future, pipe, tasks>>
    BY <1>1 DEF vars, record
  <2> QED BY <2>1, TasksStay
<1> HIDE DEF x
<1> QED BY <1>1, <1>3, <1>4, <1>5, <1>6, ItemReading DEF x, HearInv

LEMMA PostReading ==
    ASSUME ContextIInv, HearInv, NEW t \in Threads, post(t)
    PROVE  HearInv'
<1> DEFINE x == Head(todo[t])
           told == Tell(RemoteEvent(x.what), x.stage, 0)
<1>1. /\ todo[t] # <<>> /\ pc[t] = "idle" /\ x.do = "post"
      /\ UNCHANGED <<vars, pipe, listening>>
      /\ stalled' = (stalled \/ x.what = "read")
      /\ \/ Replace(t, told) /\ UNCHANGED tasks
         \/ Replace(t, <<>>) /\ tasks' = Append(tasks, told)
  BY DEF post, Doing
<1>2. x \in Sound /\ PipeInv /\ x.stage \in AllStages
  BY <1>1, HeadHolds DEF ContextIInv, Sound
<1>3. x \notin Ahead
  BY <1>1 DEF Ahead
<1>4. x \in Tokens => x.what \in {"read", "readComplete"} /\ InPipe(x.stage)
  BY <1>1 DEF Tokens
<1> HIDE DEF x
<1>5. x \in Tokens => stalled' \/ WillRead(told)
  <2> SUFFICES ASSUME x \in Tokens, x.what = "readComplete" PROVE WillRead(told)
    BY <1>1, <1>4
  <2>1. told = Tell("readComplete", x.stage, 0)
    BY DEF RemoteEvent
  <2> QED BY <1>2, <1>4, <2>1, Starters
<1> HIDE DEF told
<1>6. UNCHANGED <<calls, method, future, pipe>>
  BY <1>1 DEF vars, record
<1>7. /\ TasksRead => TasksRead'
      /\ tasks' = Append(tasks, told) /\ WillRead(told) => TasksRead'
  BY <1>1, <1>6, TasksStay
<1>8. PICK items : Replace(t, items) /\ (x \in Tokens => stalled' \/ WillRead(items) \/ TasksRead')
  BY <1>1, <1>5, <1>7
<1>9. stalled => stalled'
  BY <1>1
<1> QED BY <1>1, <1>3, <1>7, <1>8, <1>9, ItemReading DEF x, HearInv

LEMMA AnswerReading ==
    ASSUME ContextIInv, HearInv, NEW t \in Threads, answer(t)
    PROVE  HearInv'
<1> DEFINE x == Head(todo[t])
<1>1. /\ todo[t] # <<>> /\ pc[t] = "idle" /\ x.do = "answer" /\ Replace(t, <<>>)
      /\ UNCHANGED <<vars, pipe, listening, stalled>>
      /\ tasks' = tasks \/ tasks' = Append(tasks, Answer(x.n))
  BY DEF answer, Doing
<1>2. x \notin Ahead /\ x \notin Tokens
  BY <1>1 DEF Ahead, Tokens
<1> HIDE DEF x
<1>3. UNCHANGED <<calls, method, future, pipe>>
  BY <1>1 DEF vars, record
<1>4. TasksRead => TasksRead'
  BY <1>1, <1>3, TasksStay
<1> QED BY <1>1, <1>2, <1>4, ItemReading DEF x, HearInv

LEMMA ThrowReading ==
    ASSUME ContextIInv, HearInv, NEW t \in Threads, throw(t)
    PROVE  HearInv'
<1> DEFINE x == Head(todo[t])
<1>1. /\ todo[t] # <<>> /\ pc[t] = "idle" /\ x.do = "throw"
      /\ UNCHANGED <<vars, pipe, tasks, listening, stalled>>
  BY DEF throw, Doing
<1>2. x \notin Ahead /\ x \notin Tokens
  BY <1>1 DEF Ahead, Tokens
<1> HIDE DEF x
<1>3. ~WillRead(todo[t])
  <2>1. todo[t] \in Seq(Sound)
    BY Stacks DEF ContextIInv
  <2> QED BY <1>2, <2>1, LeadsTail DEF WillRead, x
<1>4. PICK s : Becomes(t, s)
  BY DEF throw
<1>5. TasksRead => TasksRead'
  <2>1. UNCHANGED <<calls, method, future, pipe, tasks>>
    BY <1>1 DEF vars, record
  <2> QED BY <2>1, TasksStay
<1> QED BY <1>1, <1>3, <1>4, <1>5, TurnReading DEF x, HearInv

\* A thread with nothing to do begins something.
LEMMA FreeReading ==
    ASSUME ContextIInv, HearInv, NEW t \in Threads, Free(t), NEW s, Becomes(t, s),
           UNCHANGED <<vars, pipe, listening, stalled>>,
           TasksRead => WillRead(s) \/ TasksRead'
    PROVE  HearInv'
<1>1. ~WillRead(todo[t]) /\ pc[t] = "idle" /\ todo[t] = <<>>
  BY DEF Free, WillRead, Leads
<1> QED BY <1>1, TurnReading DEF HearInv

LEMMA WorkerTakesReading ==
    ASSUME ContextIInv, HearInv, workerTakes
    PROVE  HearInv'
<1> DEFINE s == Head(tasks)
<1>1. /\ Free(Worker) /\ tasks # <<>> /\ Becomes(Worker, s) /\ tasks' = Tail(tasks)
      /\ UNCHANGED <<vars, pipe, listening, stalled>> /\ Worker \in Threads
  BY IOPipelineAssumption DEF workerTakes, Threads
<1>2. tasks \in Seq(Seq(Works))
  BY DEF ContextIInv, WorkInv, ContextTypeOK
<1>3. TasksRead => WillRead(s) \/ TasksRead'
  <2> SUFFICES ASSUME NEW i \in 1..Len(tasks), WillRead(tasks[i]) PROVE WillRead(s) \/ TasksRead'
    BY DEF TasksRead
  <2>1. /\ Len(tasks) \in Nat /\ Len(tasks) >= 1 /\ Len(tasks') = Len(tasks) - 1 /\ s = tasks[1]
        /\ \A j \in 1..Len(tasks) - 1 : tasks'[j] = tasks[j + 1]
    BY <1>1, <1>2, HeadTailProperties
  <2>2. i = 1 \/ (i - 1 \in 1..Len(tasks) - 1 /\ (i - 1) + 1 = i)
    BY <2>1
  <2>3. CASE i = 1
    BY <2>1, <2>3
  <2>4. CASE i # 1
    <3>1. i - 1 \in 1..Len(tasks') /\ tasks'[i - 1] = tasks[i]
      BY <2>1, <2>2, <2>4
    <3>2. UNCHANGED <<calls, method, future, pipe>>
      BY <1>1 DEF vars, record
    <3>3. Tokens' = Tokens /\ Ahead' = Ahead /\ Sound' = Sound
      BY <3>2, SameTokens
    <3> QED BY <3>1, <3>3 DEF TasksRead, WillRead
  <2> QED BY <2>3, <2>4
<1> HIDE DEF s
<1> QED BY <1>1, <1>3, FreeReading

LEMMA TaskReading ==
    ASSUME ContextIInv, HearInv, writeTask \/ (\E m \in TaskCalls : userTask(m))
    PROVE  HearInv'
<1>1. PICK s : /\ Free(Io) /\ Becomes(Io, s) /\ Io \in Threads
               /\ UNCHANGED <<vars, pipe, tasks, listening, stalled>>
  BY DEF writeTask, userTask, Threads
<1>2. UNCHANGED <<calls, method, future, pipe, tasks>>
  BY <1>1 DEF vars, record
<1>3. TasksRead => TasksRead'
  BY <1>2, TasksStay
<1> QED BY <1>1, <1>3, FreeReading

\* What leaves all this alone.
LEMMA RestReading ==
    ASSUME ContextIInv, HearInv,
           UNCHANGED <<pipe, todo, tasks, listening, stalled, connState, calls, method, future,
                       pc, job>>
    PROVE  HearInv'
<1>1. Tokens' = Tokens /\ Ahead' = Ahead /\ Sound' = Sound
  BY SameTokens
<1>2. (TasksRead' <=> TasksRead) /\ \A t \in Threads : WillRead(todo[t])' <=> WillRead(todo[t])
  BY <1>1 DEF TasksRead, WillRead
<1>3. ReadingInv'
  BY <1>2 DEF HearInv, ReadingInv
<1> QED BY <1>3 DEF HearInv, AwaitInv, BusyInv

LEMMA ListenReading ==
    ASSUME ContextIInv, HearInv, NEW t \in Threads, listen(t)
    PROVE  HearInv'
<1> DEFINE x == Head(todo[t])
           f == x.n
           rest == Tail(todo[t])
<1>1. /\ todo[t] # <<>> /\ pc[t] = "idle" /\ x.do = "listen"
      /\ UNCHANGED <<vars, pipe, tasks, stalled>>
  BY DEF listen, Doing
<1>2. /\ x \in Sound /\ f \in 1..calls /\ method[f] # "close" /\ PipeInv
      /\ todo[t] \in Seq(Sound) /\ rest \in Seq(Talk)
  BY <1>1, HeadHolds, Stacks DEF ContextIInv, Sound
<1>3. /\ x \in Tokens <=> method[f] \in {"connect", "read"} /\ future[f] = "finished"
      /\ x \in Ahead <=> method[f] = "connect"
  BY <1>1, <1>2 DEF Tokens, Ahead
<1> HIDE DEF rest
<1>4. rest \in Seq(Sound)
  BY <1>2, Kinds0, SeqMonotonic
<1>5. PICK items :
         /\ Replace(t, items)
         /\ listening \subseteq listening' /\ (future[f] = "pending" => f \in listening')
         /\ \/ items = <<>> /\ future[f] = "pending"
            \/ items = Listener(f, future[f]) /\ future[f] # "pending"
  BY DEF listen
<1>6. Becomes(t, items \o rest)
  BY <1>5 DEF Replace, rest
<1>7. ASSUME WillRead(todo[t]) PROVE WillRead(items \o rest)
  <2>1. x \in Tokens \/ x \in Ahead
    BY <1>2, <1>7, LeadsTail DEF WillRead
  <2>2. CASE x \in Tokens
    <3>1. items = Listener(f, "finished") /\ method[f] \in {"connect", "read"}
      BY <1>3, <1>5, <2>2
    <3> HIDE DEF f
    <3>2. items = Notify("active") \o EndTry \/ items = Notify("read") \o EndTry
      <4>1. CASE method[f] = "connect"
        BY <3>1, <4>1 DEF Listener
      <4>2. CASE method[f] = "read"
        BY <3>1, <4>2 DEF Listener
      <4> QED BY <3>1, <4>1, <4>2
    <3>3. EndTry \in Seq(Sound)
      BY <1>2, Tells, Kinds0, SeqMonotonic
    <3>4. WillRead(Notify("active")) /\ WillRead(Notify("read"))
      BY <1>2, Starters
    <3>5. WillRead(items)
      BY <3>2, <3>3, <3>4, ReadsFirst
    <3> QED BY <1>4, <3>5, ReadsFirst
  <2>3. CASE x \notin Tokens
    <3>1. method[f] = "connect" /\ future[f] # "finished"
      BY <1>3, <2>1, <2>3
    <3>2. items = <<>>
      <4>1. method[f] = "connect" /\ future[f] # "finished" => Listener(f, future[f]) = <<>>
        BY DEF Listener
      <4> QED BY <1>5, <3>1, <4>1
    <3>3. WillRead(rest)
      BY <1>2, <1>4, <1>7, <2>3, LeadsTail DEF WillRead, rest
    <3>4. <<>> \o rest = rest
      BY <1>4
    <3> QED BY <3>2, <3>3, <3>4
  <2> QED BY <2>2, <2>3
<1>8. TasksRead => TasksRead'
  <2>1. UNCHANGED <<calls, method, future, pipe, tasks>>
    BY <1>1 DEF vars, record
  <2> QED BY <2>1, TasksStay
<1> QED BY <1>1, <1>5, <1>6, <1>7, <1>8, TurnReading DEF HearInv

LEMMA CallReading ==
    ASSUME ContextIInv, TypeOK, HearInv, NEW t \in Threads, callHandler(t)
    PROVE  HearInv'
<1> DEFINE x == Head(todo[t])
           m == x.what
           f == calls + 1
           rest == Tail(todo[t])
           y == Work("listen", "none", NoStage, f)
           s == IF m = "close" THEN <<>> \o rest ELSE <<y>> \o rest
<1>1. /\ todo[t] # <<>> /\ pc[t] = "idle" /\ x.do = "call" /\ Becomes(t, s)
      /\ UNCHANGED <<pipe, tasks, listening, stalled>>
  BY DEF callHandler, Doing, Replace, Listen
<1>2. \/ m = "connect" /\ connect(t)
      \/ m = "disconnect" /\ disconnect(t)
      \/ m = "close" /\ close(t)
      \/ m \in {"read", "write"} /\ readOrWrite(t, m)
  BY DEF callHandler
<1>3. /\ f \in Futures /\ calls \in Nat /\ calls' = f /\ m \in Methods
      /\ method' = [method EXCEPT ![f] = m]
      /\ \A g \in Futures : g # f => future'[g] = future[g]
      /\ \A u \in Threads : u # t => pc'[u] = pc[u] /\ job'[u] = job[u]
  <2> HIDE DEF m
  <2> QED BY <1>2, Called
<1>4. connState' = connState
  BY <1>2 DEF connect, disconnect, close, readOrWrite, NewCall
<1>5. m = "read" /\ connState = "Ready" => future'[f] = "pending"
  BY <1>2, <1>3 DEF readOrWrite, Accept, TypeOK
<1>6. m = "close" => job'[t].future = CloseFuture
  BY <1>2 DEF close, closeSocketWithState, setConnectivityState, TypeOK
<1>7. /\ \A g \in 1..calls : g \in Futures /\ g # f /\ g \in 1..calls'
      /\ \A g \in 1..calls' : g = f \/ g \in 1..calls
      /\ f \in 1..calls' /\ f # 0
  <2>1. \A g \in 1..calls : g \in Futures /\ g \in 1..calls + 1 /\ g # calls + 1
    BY <1>3, SocketAssumption DEF TypeOK, Futures
  <2>2. calls + 1 \in 1..calls + 1 /\ calls + 1 # 0
        /\ \A g \in 1..calls + 1 : g = calls + 1 \/ g \in 1..calls
    BY <1>3
  <2> QED BY <1>3, <2>1, <2>2
<1>8. /\ method'[f] = m /\ \A g \in Futures : g # f => method'[g] = method[g]
  BY <1>3 DEF TypeOK
<1>9. /\ todo[t] \in Seq(Sound) /\ rest \in Seq(Sound)
      /\ todo \in [Threads -> Seq(Works)]
  <2>1. todo[t] \in Seq(Sound) /\ rest \in Seq(Talk) /\ todo \in [Threads -> Seq(Works)]
    BY <1>1, Stacks DEF ContextIInv
  <2> HIDE DEF rest
  <2> QED BY <2>1, Kinds0, SeqMonotonic
<1>10. /\ x \in Tokens <=> m = "read"
       /\ x \in Ahead <=> m = "connect"
  <2>1. x \in Sound
    BY <1>1, HeadHolds
  <2> QED BY <1>1, <2>1 DEF Tokens, Ahead
<1> HIDE DEF f, m, x, rest
<1>11. /\ y \in Works /\ y.do = "listen" /\ y.n = f
       /\ m # "close" => y \in Sound'
       /\ m = "connect" => y \in Ahead'
  <2>1. y \in Works /\ y.do = "listen" /\ y.n = f
    BY <1>3 DEF Work, Works
  <2>2. m # "close" => y \in Sound'
    BY <1>7, <1>8, <2>1 DEF Sound
  <2> QED BY <1>8, <2>1, <2>2 DEF Ahead
<1>12. /\ Sound \subseteq Sound' /\ Tokens \subseteq Tokens' /\ Ahead \subseteq Ahead'
  <2>1. \A z : InPipe(z)' <=> InPipe(z)
    BY <1>1 DEF InPipe
  <2>2. Sound \subseteq Sound'
    BY <1>7, <1>8, <2>1 DEF Sound
  <2>3. \A z \in Sound : z.do = "listen" => method'[z.n] = method[z.n] /\ future'[z.n] = future[z.n]
    BY <1>3, <1>7, <1>8 DEF Sound
  <2>4. Tokens \subseteq Tokens'
    BY <2>1, <2>2, <2>3 DEF Tokens
  <2> QED BY <2>2, <2>3, <2>4 DEF Ahead
<1>13. \A q \in Seq(Sound) : q \in Seq(Sound') /\ (Leads(q, Tokens, Ahead) => Leads(q, Tokens', Ahead'))
  <2> TAKE q \in Seq(Sound)
  <2>1. q \in Seq(Sound')
    BY <1>12, SeqMonotonic
  <2> QED BY <1>12, <2>1, LeadsSame
<1> HIDE DEF y
<1>14. m # "close" => /\ <<y>> \o rest \in Seq(Sound') /\ <<y>> \o rest # <<>>
                      /\ Head(<<y>> \o rest) = y /\ <<y>> \in Seq(Sound')
  <2> SUFFICES ASSUME m # "close" PROVE /\ <<y>> \o rest \in Seq(Sound') /\ <<y>> \o rest # <<>>
                                        /\ Head(<<y>> \o rest) = y /\ <<y>> \in Seq(Sound')
    OBVIOUS
  <2>1. y \in Sound' /\ rest \in Seq(Sound')
    BY <1>9, <1>11, <1>13
  <2> QED BY <2>1
<1>15. /\ todo'[t] = Left(s) /\ \A u \in Threads : u # t => todo'[u] = todo[u]
       /\ m # "close" => todo'[t] = <<y>> \o rest
  <2>1. todo'[t] = Left(s) /\ \A u \in Threads : u # t => todo'[u] = todo[u]
    BY <1>1, <1>9 DEF Becomes
  <2>2. m # "close" => Left(s) = s /\ s = <<y>> \o rest
    <3>1. Sound' \subseteq Works
      BY DEF Sound
    <3> HIDE DEF s
    <3>2. m # "close" => s = <<y>> \o rest
      BY DEF s
    <3> QED BY <1>11, <1>14, <3>1, <3>2, LeftKeeps
  <2> QED BY <2>1, <2>2
<1> HIDE DEF s
<1>16. ReadingInv'
  <2> SUFFICES ASSUME connState = "Ready"
               PROVE  \/ stalled
                      \/ \E g \in 1..calls' : method'[g] = "read" /\ future'[g] = "pending"
                      \/ \E u \in Threads : WillRead(todo[u])'
                      \/ TasksRead'
    BY <1>1, <1>4 DEF ReadingInv
  <2>1. \/ stalled
        \/ \E g \in 1..calls : method[g] = "read" /\ future[g] = "pending"
        \/ \E u \in Threads : WillRead(todo[u])
        \/ TasksRead
    BY DEF HearInv, ReadingInv
  <2>2. CASE \E g \in 1..calls : method[g] = "read" /\ future[g] = "pending"
    BY <1>3, <1>7, <1>8, <2>2
  <2>3. CASE TasksRead
    BY <1>1, <1>13, <2>3 DEF TasksRead, WillRead
  <2>4. ASSUME NEW u \in Threads, WillRead(todo[u]), u # t
        PROVE  WillRead(todo[u])'
    BY <1>13, <1>15, <2>4 DEF WillRead
  <2>5. ASSUME WillRead(todo[t])
        PROVE  \/ \E g \in 1..calls' : method'[g] = "read" /\ future'[g] = "pending"
               \/ WillRead(todo[t])'
    <3>1. x \in Tokens \/ x \in Ahead
      BY <1>9, <2>5, LeadsTail DEF WillRead, x
    <3>2. CASE m = "read"
      BY <1>5, <1>7, <1>8, <3>2
    <3>3. CASE m # "read"
      <4>1. m = "connect" /\ x \notin Tokens
        BY <1>10, <3>1, <3>3
      <4>2. Leads(rest, Tokens, Ahead)
        BY <1>9, <2>5, <4>1, LeadsTail DEF WillRead, x, rest
      <4>3. Leads(rest, Tokens', Ahead') /\ rest \in Seq(Sound')
        BY <1>9, <1>13, <4>2
      <4>4. \A i \in 1..Len(<<y>>) : <<y>>[i] \in Ahead'
        BY <1>11, <4>1
      <4>5. Leads(<<y>> \o rest, Tokens', Ahead')
        BY <1>14, <4>1, <4>3, <4>4, LeadsConcat
      <4> QED BY <1>14, <1>15, <4>1, <4>5 DEF WillRead
    <3> QED BY <3>2, <3>3
  <2> QED BY <2>1, <2>2, <2>3, <2>4, <2>5
<1>17. AwaitInv'
  <2> SUFFICES ASSUME NEW g \in 1..calls', future'[g] = "pending", method'[g] # "close"
               PROVE  \/ g \in listening
                      \/ \E u \in Threads : /\ todo'[u] # <<>>
                                            /\ Head(todo'[u]).do = "listen" /\ Head(todo'[u]).n = g
    BY <1>1 DEF AwaitInv
  <2>1. CASE g = f
    BY <1>8, <1>11, <1>14, <1>15, <2>1
  <2>2. CASE g # f
    <3>1. g \in 1..calls /\ future[g] = "pending" /\ method[g] # "close"
      BY <1>3, <1>7, <1>8, <2>2
    <3>2. \/ g \in listening
          \/ \E u \in Threads : /\ todo[u] # <<>>
                                /\ Head(todo[u]).do = "listen" /\ Head(todo[u]).n = g
      BY <3>1 DEF HearInv, AwaitInv
    <3> QED BY <1>1, <1>15, <3>2 DEF x
  <2> QED BY <2>1, <2>2
<1>18. BusyInv'
  <2> SUFFICES ASSUME NEW u \in Threads, pc'[u] # "idle", todo'[u] # <<>>
               PROVE  Head(todo'[u]).do = "listen" \/ job'[u].future = CloseFuture
    BY DEF BusyInv
  <2>1. CASE u = t
    BY <1>6, <1>11, <1>14, <1>15, <2>1
  <2>2. CASE u # t
    BY <1>3, <1>15, <2>2 DEF HearInv, BusyInv
  <2> QED BY <2>1, <2>2
<1> QED BY <1>16, <1>17, <1>18 DEF HearInv

\* A step of the handler settles one future at most, and its listener hears of it.
LEMMA ServeReading ==
    ASSUME ContextIInv, TypeOK, HearInv, NEW t \in Threads, NEW f \in Futures,
           UNCHANGED <<calls, method, pipe, tasks, stalled>>,
           \A g \in Futures : g # f => future'[g] = future[g],
           future'[f] # future[f] => future[f] = "pending" /\ pc'[t] = "idle",
           \A u \in Threads : u # t => pc'[u] = pc[u] /\ job'[u] = job[u],
           todo[t] # <<>> => /\ pc[t] # "idle" /\ job[t].future = f
                             /\ pc'[t] # "idle" => job'[t].future = f,
           RunListeners(t),
           connState' = "Ready" =>
              \/ connState = "Ready" /\ (method[f] = "read" =>
                                            future'[f] \in {future[f], "finished"})
              \/ method[f] = "connect" /\ future'[f] = "finished" /\ future[f] # "finished"
                 /\ f \in 1..calls
    PROVE  HearInv'
<1>1. /\ todo \in [Threads -> Seq(Works)] /\ todo[t] \in Seq(Sound) /\ PipeInv
      /\ \A u \in Threads : todo[u] \in Seq(Sound)
      /\ future \in [Futures -> {"unused", "pending", "finished", "failed"}]
  BY DEF ContextIInv, WorkInv, ContextTypeOK, TypeOK
<1>2. Sound' = Sound /\ \A z : InPipe(z)' <=> InPipe(z)
  BY DEF Sound, InPipe
<1>3. \A g \in Futures : future[g] = "finished" => future'[g] = "finished"
  BY <1>1
<1>4. \A g \in 1..calls : g \in Futures
  BY SocketAssumption DEF TypeOK, Futures
<1>5. Tokens \subseteq Tokens' /\ Ahead' = Ahead
  <2>1. \A z \in Sound : z.do = "listen" => z.n \in Futures
    BY <1>4 DEF Sound
  <2> QED BY <1>2, <1>3, <2>1 DEF Tokens, Ahead
<1>6. \A q : WillRead(q) => q \in Seq(Sound') /\ Leads(q, Tokens', Ahead')
  <2> SUFFICES ASSUME NEW q, WillRead(q) PROVE q \in Seq(Sound') /\ Leads(q, Tokens', Ahead')
    OBVIOUS
  <2>1. q \in Seq(Sound) /\ Leads(q, Tokens, Ahead)
    BY DEF WillRead
  <2>2. Leads(q, Tokens', Ahead')
    BY <1>5, <2>1, LeadsSame
  <2> QED BY <1>2, <2>1, <2>2
<1>7. /\ \A g \in listening : g \in 1..calls /\ future[g] = "pending"
      /\ \A u \in Threads : todo[u] # <<>> /\ Head(todo[u]).do = "listen" =>
            /\ Head(todo[u]).n \notin listening
            /\ pc[u] # "idle" => job[u].future = Head(todo[u]).n
  <2>1. \A u \in Threads : todo[u] # <<>> => todo[u][1] = Head(todo[u]) /\ 1 \in 1..Len(todo[u])
    BY Stacks DEF ContextIInv
  <2> QED BY <2>1 DEF ContextIInv, ListenInv
<1>8. \A g \in Settled : g = f /\ future'[f] # future[f] /\ f \in listening
  BY <1>4, <1>7 DEF Settled
\* A listener that runs belongs to a thread with nothing else to do.
<1>9. f \in listening => todo[t] = <<>>
  <2> SUFFICES ASSUME f \in listening, todo[t] # <<>> PROVE FALSE
    OBVIOUS
  <2>1. pc[t] # "idle" /\ job[t].future = f
    OBVIOUS
  <2>2. f \in 1..calls /\ f # CloseFuture
    BY <1>7 DEF CloseFuture
  <2>3. Head(todo[t]).do = "listen"
    BY <2>1, <2>2 DEF HearInv, BusyInv
  <2> QED BY <1>7, <2>1, <2>3
<1>10. \/ Settled = {} /\ todo' = todo /\ listening' = listening
       \/ /\ f \in Settled /\ f \in listening /\ todo[t] = <<>>
          /\ todo'[t] = Left(Listener(f, future'[f]))
          /\ \A u \in Threads : u # t => todo'[u] = todo[u]
          /\ listening' = listening \ {f}
  <2>1. listening' = listening \ Settled
    BY DEF RunListeners
  <2>2. CASE Settled = {}
    <3>1. todo' = todo
      BY <2>2 DEF RunListeners
    <3> QED BY <2>1, <2>2, <3>1
  <2>3. CASE Settled # {}
    <3>1. f \in Settled /\ f \in listening /\ Settled = {f} /\ todo[t] = <<>>
      BY <1>8, <1>9, <2>3
    <3>2. Becomes(t, Listener(f, future'[f]) \o todo[t])
      BY <3>1 DEF RunListeners
    <3>3. Listener(f, future'[f]) \in Seq(Talk)
      <4>1. f \in 1..calls /\ method[f] \in Methods /\ method[f] # "close"
        BY <3>1 DEF ContextIInv, ListenInv, TypeOK
      <4> QED BY <4>1, Heeds
    <3>4. Listener(f, future'[f]) \o todo[t] = Listener(f, future'[f])
      BY <3>1, <3>3
    <3>5. todo' = [todo EXCEPT ![t] = Left(Listener(f, future'[f]))]
      BY <3>2, <3>4 DEF Becomes
    <3> QED BY <1>1, <2>1, <3>1, <3>5
  <2> QED BY <2>2, <2>3
\* What was to read stays so, what is made or read now will be told.
<1>11. ASSUME NEW u \in Threads, WillRead(todo[u]) PROVE WillRead(todo[u])'
  <2>1. todo[u] # <<>>
    BY <1>11 DEF WillRead, Leads
  <2>2. todo'[u] = todo[u]
    BY <1>10, <2>1
  <2> QED BY <1>6, <1>11, <2>2 DEF WillRead
<1>12. ASSUME f \in 1..calls, method[f] \in {"connect", "read"}, future'[f] = "finished",
              future[f] # "finished"
       PROVE  \E u \in Threads : WillRead(todo[u])'
  <2>1. future[f] = "pending" /\ method[f] # "close" /\ future'[f] # future[f]
    BY <1>12
  <2>2. CASE f \in listening
    <3>1. f \in Settled
      BY <2>1, <2>2 DEF Settled
    <3>2. todo'[t] = Left(Listener(f, "finished"))
      BY <1>10, <1>12, <3>1
    <3>3. PICK e \in {"active", "read"} : Listener(f, "finished") = Notify(e) \o EndTry
      <4>1. CASE method[f] = "connect"
        <5>1. Listener(f, "finished") = Notify("active") \o EndTry
          BY <4>1 DEF Listener
        <5> QED BY <5>1
      <4>2. CASE method[f] = "read"
        <5>1. Listener(f, "finished") = Notify("read") \o EndTry
          BY <4>2 DEF Listener
        <5> QED BY <5>1
      <4> QED BY <1>12, <4>1, <4>2
    <3>4. WillRead(Notify(e) \o EndTry)
      <4>1. EndTry \in Seq(Sound)
        BY <1>1, Tells, Kinds0, SeqMonotonic
      <4>2. WillRead(Notify(e))
        BY <1>1, Starters
      <4> QED BY <4>1, <4>2, ReadsFirst
    <3>5. WillRead(Left(Notify(e) \o EndTry))
      BY <3>4, Kinds0, LeftKeeps, LeadsLeft, TokensAre DEF WillRead
    <3> QED BY <1>6, <3>2, <3>3, <3>5 DEF WillRead
  <2>3. CASE f \notin listening
    <3>1. PICK u \in Threads : todo[u] # <<>> /\ Head(todo[u]).do = "listen" /\ Head(todo[u]).n = f
      BY <1>12, <2>1, <2>3 DEF HearInv, AwaitInv
    <3>2. todo'[u] = todo[u]
      BY <1>10, <2>3
    <3>3. Head(todo[u]) \in Sound /\ todo[u] \in Seq(Sound)
      BY <1>1, <3>1
    <3>4. Head(todo[u]) \in Tokens'
      BY <1>2, <1>12, <3>1, <3>3 DEF Tokens
    <3>5. Leads(todo[u], Tokens', Ahead')
      <4>1. 1 \in 1..Len(todo[u]) /\ todo[u][1] = Head(todo[u]) /\ 1..1 - 1 = {}
        BY <3>1, <3>3
      <4> QED BY <3>4, <4>1 DEF Leads
    <3> QED BY <1>2, <3>2, <3>3, <3>5 DEF WillRead
  <2> QED BY <2>2, <2>3
<1>13. ReadingInv'
  <2> SUFFICES ASSUME connState' = "Ready"
               PROVE  \/ stalled
                      \/ \E g \in 1..calls : method[g] = "read" /\ future'[g] = "pending"
                      \/ \E u \in Threads : WillRead(todo[u])'
                      \/ TasksRead'
    BY DEF ReadingInv
  <2>1. CASE connState # "Ready"
    BY <1>12, <2>1
  <2>2. CASE connState = "Ready"
    <3>1. \/ stalled
          \/ \E g \in 1..calls : method[g] = "read" /\ future[g] = "pending"
          \/ \E u \in Threads : WillRead(todo[u])
          \/ TasksRead
      BY <2>2 DEF HearInv, ReadingInv
    <3>2. ASSUME NEW g \in 1..calls, method[g] = "read", future[g] = "pending"
          PROVE  future'[g] = "pending" \/ \E u \in Threads : WillRead(todo[u])'
      <4>1. CASE g = f
        BY <1>12, <2>2, <3>2, <4>1
      <4>2. CASE g # f
        BY <1>4, <3>2, <4>2
      <4> QED BY <4>1, <4>2
    <3>3. TasksRead => TasksRead'
      BY <1>6 DEF TasksRead, WillRead
    <3> QED BY <1>11, <3>1, <3>2, <3>3
  <2> QED BY <2>1, <2>2
<1>14. AwaitInv'
  <2> SUFFICES ASSUME NEW g \in 1..calls, future'[g] = "pending", method[g] # "close"
               PROVE  \/ g \in listening'
                      \/ \E u \in Threads : /\ todo'[u] # <<>>
                                            /\ Head(todo'[u]).do = "listen" /\ Head(todo'[u]).n = g
    BY DEF AwaitInv
  <2>1. future[g] = "pending"
    BY <1>4
  <2>2. \/ g \in listening
        \/ \E u \in Threads : todo[u] # <<>> /\ Head(todo[u]).do = "listen" /\ Head(todo[u]).n = g
    BY <2>1 DEF HearInv, AwaitInv
  <2>3. f \in Settled => g # f
    BY <2>1 DEF Settled
  <2> QED BY <1>10, <2>2, <2>3
<1>15. BusyInv'
  <2> SUFFICES ASSUME NEW u \in Threads, pc'[u] # "idle", todo'[u] # <<>>
               PROVE  Head(todo'[u]).do = "listen" \/ job'[u].future = CloseFuture
    BY DEF BusyInv
  <2>1. CASE u = t
    <3>1. f \notin Settled
      BY <2>1 DEF Settled
    <3>2. todo' = todo
      BY <1>10, <3>1
    <3> QED BY <2>1, <3>2 DEF HearInv, BusyInv
  <2>2. CASE u # t
    BY <1>10, <2>2 DEF HearInv, BusyInv
  <2> QED BY <2>1, <2>2
<1> QED BY <1>13, <1>14, <1>15 DEF HearInv

\* Only the io thread is told of the end of an operation, and it leaves the state as it
\* is only if the handler was closed.
LoadInv ==
    /\ \A t \in Threads : pc[t] = "store" /\ job[t].next \in {"finish", "fail"} => t = Io
    /\ pc[Io] = "store" /\ ~job[Io].store => connState # "Ready"

LEMMA LoadStep ==
    ASSUME IInv, LoadInv, [Next]_vars
    PROVE  LoadInv'
<1>1. /\ pc \in [Threads -> {"idle", "checked", "store", "start"}] /\ job \in [Threads -> Jobs]
      /\ Io \in Threads
  BY DEF IInv, TypeOK, Threads
<1>2. ASSUME NEW t \in Threads, connState' = connState, pc'[t] # "store",
             \A u \in Threads : u # t => pc'[u] = pc[u] /\ job'[u] = job[u]
      PROVE  LoadInv'
  BY <1>1, <1>2 DEF LoadInv
<1>3. ASSUME NEW t \in Threads, connState' = connState, NEW target, NEW next, NEW f,
             setConnectivityState(t, target, next, f), next \in {"finish", "fail"} => t = Io
      PROVE  LoadInv'
  <2>1. /\ pc'[t] = "store" /\ job'[t].next = next /\ (job'[t].store <=> connState # "Shutdown")
        /\ \A u \in Threads : u # t => pc'[u] = pc[u] /\ job'[u] = job[u]
    BY <1>1, <1>3 DEF setConnectivityState
  <2> QED BY <1>1, <1>3, <2>1 DEF LoadInv
<1>4. ASSUME NEW t \in Threads, Idle(t)
      PROVE  pc'[t] # "store" /\ \A u \in Threads : u # t => pc'[u] = pc[u] /\ job'[u] = job[u]
  BY <1>1, <1>4 DEF Idle
<1>5. CASE UNCHANGED <<connState, thread>>
  BY <1>5 DEF LoadInv, thread
<1>6. ASSUME NEW t \in Threads, Call(t) PROVE LoadInv'
  <2>1. connState' = connState /\ pc[t] = "idle"
    BY <1>6 DEF Call, connect, disconnect, close, read, write, readOrWrite, NewCall
  <2>2. CASE connect(t) \/ read(t) \/ write(t)
    <3>1. ASSUME NEW at \in {"checked", "start"}, NEW do, Accept(t, calls + 1, at, do)
          PROVE  LoadInv'
      <4>1. /\ pc'[t] # "store" /\ \A u \in Threads : u # t => pc'[u] = pc[u] /\ job'[u] = job[u]
        BY <1>1, <3>1 DEF Accept
      <4> QED BY <1>2, <2>1, <4>1
    <3>2. Refuse(calls + 1) => UNCHANGED thread
      BY DEF Refuse
    <3>3. CASE connect(t)
      BY <1>5, <2>1, <3>1, <3>2, <3>3 DEF connect
    <3>4. ASSUME NEW m, readOrWrite(t, m) PROVE LoadInv'
      BY <1>5, <2>1, <3>1, <3>2, <3>4 DEF readOrWrite
    <3> QED BY <2>2, <3>3, <3>4 DEF read, write
  <2>3. CASE disconnect(t) \/ close(t)
    <3>1. \E target, f : setConnectivityState(t, target, "postClose", f)
      BY <2>3 DEF disconnect, close, closeSocketWithState
    <3> QED BY <1>3, <2>1, <3>1
  <2> QED BY <1>6, <2>2, <2>3 DEF Call
<1>7. ASSUME NEW t \in Threads, GoOn(t) PROVE LoadInv'
  <2>1. CASE connectChecked(t) \/ StartOperation(t)
    <3>1. /\ connState' = connState
          /\ Idle(t) \/ \E f : setConnectivityState(t, "Connecting", "asyncConnect", f)
      BY <2>1 DEF connectChecked, StartConnect, StartOperation
    <3> QED BY <1>2, <1>3, <1>4, <3>1
  <2>2. CASE Store(t)
    <3>1. /\ Idle(t) /\ pc[t] = "store"
          /\ connState' = IF job[t].store THEN job[t].target ELSE connState
      BY <2>2 DEF Store, Stored
    <3>2. /\ pc'[t] # "store"
          /\ \A u \in Threads : u # t => pc'[u] = pc[u] /\ job'[u] = job[u]
      BY <1>4, <3>1
    <3>3. t # Io => connState' = connState \/ connState' # "Ready"
      <4>1. t # Io => job[t].next \notin {"finish", "fail"}
        BY <3>1 DEF LoadInv
      <4>2. JobFits(t)
        BY DEF IInv, HandlingInv
      <4> QED BY <3>1, <4>1, <4>2 DEF JobFits
    <3> QED BY <1>1, <3>2, <3>3 DEF LoadInv
  <2> QED BY <1>7, <2>1, <2>2 DEF GoOn
<1>8. CASE Handler
  <2>1. /\ connState' = connState
        /\ \/ Idle(Io) \/ UNCHANGED thread
           \/ \E target, next, f : setConnectivityState(Io, target, next, f)
    BY <1>8 DEF Handler, connectTask, closeTask, addressResolved, connected, transferred,
                StartConnect
  <2> QED BY <1>1, <1>2, <1>3, <1>4, <1>5, <2>1
<1>9. CASE \E op \in pending, ok \in BOOLEAN : Complete(op, ok)
  BY <1>5, <1>9 DEF Complete
<1>10. CASE UNCHANGED vars
  BY <1>5, <1>10 DEF vars
<1> QED BY <1>6, <1>7, <1>8, <1>9, <1>10 DEF Next

\* What the calls and the completions make of their future and of the state.
LEMMA GoOnReading ==
    ASSUME IInv, LoadInv, OnceInv, NEW t \in Threads, GoOn(t)
    PROVE  LET f == job[t].future
           IN  /\ future'[f] # future[f] => future[f] = "pending" /\ pc'[t] = "idle"
               /\ connState' = "Ready" =>
                     \/ connState = "Ready" /\ (method[f] = "read" =>
                                                   future'[f] \in {future[f], "finished"})
                     \/ method[f] = "connect" /\ future'[f] = "finished"
                        /\ future[f] # "finished" /\ f \in 1..calls
<1> DEFINE f == job[t].future
<1>1. /\ pc \in [Threads -> {"idle", "checked", "store", "start"}] /\ job \in [Threads -> Jobs]
      /\ future \in [Futures -> {"unused", "pending", "finished", "failed"}]
      /\ f \in Futures /\ JobFits(t)
  BY DEF IInv, TypeOK, HandlingInv, Jobs
<1>2. \A o : Report(f, o) => future'[f] = IF future[f] = "pending" THEN o ELSE future[f]
  BY <1>1 DEF Report
<1>3. Idle(t) => pc'[t] = "idle"
  BY <1>1 DEF Idle
<1> HIDE DEF f
<1>4. CASE connectChecked(t)
  <2>1. /\ pc[t] = "checked" /\ connState' = connState
        /\ (Report(f, "failed") /\ Idle(t)) \/ UNCHANGED future
    BY <1>4 DEF connectChecked, reportErrorCode, f
  <2>2. method[f] = "connect"
    BY <1>1, <2>1 DEF JobFits, Fits, f
  <2> QED BY <1>2, <1>3, <2>1, <2>2 DEF f
<1>5. CASE StartOperation(t)
  BY <1>5 DEF StartOperation, f
<1>6. CASE Store(t)
  <2>1. /\ pc[t] = "store" /\ Idle(t)
        /\ connState' = IF job[t].store THEN job[t].target ELSE connState
        /\ Report(f, "finished") \/ Report(f, "failed") \/ UNCHANGED future
        /\ job[t].next = "finish" => Report(f, "finished")
    BY <1>6 DEF Store, Stored, AsyncConnect, ReportOutcome, CloseNow, CloseLater, CloseRefused,
                RunClose, reportErrorCode, f
  <2>2. future'[f] # future[f] => future[f] = "pending" /\ pc'[t] = "idle"
    BY <1>2, <1>3, <2>1
  <2>3. CASE job[t].store /\ job[t].target = "Ready"
    <3>1. job[t].next = "finish" /\ f \in 1..calls /\ method[f] = "connect"
      BY <1>1, <2>1, <2>3 DEF JobFits, Fits, f
    <3>2. InJob(t, f)
      BY <2>1 DEF InJob, f
    <3>3. future[f] = "pending"
      BY <3>1, <3>2, JobOnce
    <3> QED BY <1>2, <2>1, <2>2, <3>1, <3>3 DEF f
  <2>4. CASE job[t].store /\ job[t].target # "Ready"
    BY <2>1, <2>2, <2>4 DEF f
  <2>5. CASE ~job[t].store
    <3>1. connState = "Ready" => method[f] # "read"
      <4> SUFFICES ASSUME connState = "Ready" PROVE method[f] # "read"
        OBVIOUS
      <4>1. t # Io
        BY <2>1, <2>5 DEF LoadInv
      <4>2. job[t].next \notin {"finish", "fail"}
        BY <2>1, <4>1 DEF LoadInv
      <4>3. method[CloseFuture] = "close"
        BY DEF IInv, HandlingInv, ToCome
      <4> QED BY <1>1, <2>1, <4>2, <4>3 DEF JobFits, Fits, f
    <3> QED BY <2>1, <2>2, <2>5, <3>1 DEF f
  <2> QED BY <2>3, <2>4, <2>5
<1> QED BY <1>4, <1>5, <1>6 DEF GoOn

LEMMA HandlerReading ==
    ASSUME IInv, Handler
    PROVE  LET f == Next1.future
           IN  /\ f \in Futures /\ UNCHANGED <<calls, method, connState>>
               /\ \A g \in Futures : g # f => future'[g] = future[g]
               /\ \A u \in Threads : u # Io => pc'[u] = pc[u] /\ job'[u] = job[u]
               /\ future'[f] # future[f] => future[f] = "pending" /\ pc'[Io] = "idle"
               /\ method[f] = "read" => future'[f] \in {future[f], "finished"}
<1> DEFINE f == Next1.future
<1>1. /\ future \in [Futures -> {"unused", "pending", "finished", "failed"}]
      /\ ioQueue \in Seq(Items) /\ method[CloseFuture] = "close" /\ QueueFits /\ TypeOK
  BY DEF IInv, TypeOK, HandlingInv, ToCome
<1>2. ioQueue # <<>> /\ pc[Io] = "idle"
  BY DEF Handler, connectTask, closeTask, addressResolved, connected, transferred, Dequeue
<1>3. f \in Futures /\ Fits(Next1.kind, f)
  <2>1. Next1 \in Items /\ Next1 = ioQueue[1] /\ 1 \in 1..Len(ioQueue)
    BY <1>1, <1>2 DEF Next1
  <2> QED BY <1>1, <2>1 DEF QueueFits, Items
<1>4. \A o : Report(f, o) =>
         /\ future'[f] = IF future[f] = "pending" THEN o ELSE future[f]
         /\ \A g \in Futures : g # f => future'[g] = future[g]
  BY <1>1, <1>3 DEF Report
<1> HIDE DEF f
<1>5. /\ UNCHANGED <<calls, method, connState>>
      /\ \/ UNCHANGED future
         \/ Report(f, "finished") /\ UNCHANGED thread
         \/ Report(f, "failed") /\ UNCHANGED thread /\ Next1.kind \in {"resolve", "closeTask"}
  <2>1. CASE connectTask
    BY <2>1 DEF connectTask, StartConnect, record, f
  <2>2. CASE closeTask
    BY <2>2 DEF closeTask, Dequeue, Next1, RunClose, reportErrorCode, record, f
  <2>3. CASE addressResolved
    BY <2>3 DEF addressResolved, Dequeue, Next1, reportErrorCode, record, f
  <2>4. CASE connected
    BY <2>4 DEF connected, record, f
  <2>5. CASE transferred
    BY <2>5 DEF transferred, record, f
  <2> QED BY <2>1, <2>2, <2>3, <2>4, <2>5 DEF Handler
<1>6. Next1.kind \in {"resolve", "closeTask"} => method[f] # "read"
  BY <1>1, <1>3 DEF Fits
<1>7. \A u \in Threads : u # Io => pc'[u] = pc[u] /\ job'[u] = job[u]
  BY <1>1, HandlerFuture
<1>8. UNCHANGED thread => pc'[Io] = "idle"
  BY <1>2 DEF thread
<1>9. \A g \in Futures : g # f => future'[g] = future[g]
  BY <1>4, <1>5
<1>10. future'[f] # future[f] => future[f] = "pending" /\ pc'[Io] = "idle"
  BY <1>4, <1>5, <1>8
<1>11. method[f] = "read" => future'[f] \in {future[f], "finished"}
  BY <1>4, <1>5, <1>6
<1> QED BY <1>3, <1>5, <1>7, <1>9, <1>10, <1>11 DEF f

\* The invariant of the reading.
LEMMA ReadingStep ==
    ContextIInv /\ IInv /\ OnceInv /\ LoadInv /\ HearInv /\ [ContextNext]_<<vars, context>>
        => HearInv'
<1> SUFFICES ASSUME ContextIInv, IInv, OnceInv, LoadInv, HearInv,
                    [ContextNext]_<<vars, context>>
             PROVE  HearInv'
  OBVIOUS
<1>1. TypeOK /\ Io \in Threads
  BY DEF IInv, Threads
<1>2. ASSUME NEW t \in Threads, handlerGoesOn(t) PROVE HearInv'
  <2>1. GoOn(t) /\ RunListeners(t) /\ UNCHANGED <<pipe, tasks, stalled>>
    BY <1>2 DEF handlerGoesOn
  <2> DEFINE f == job[t].future
  <2>2. /\ f \in Futures /\ pc[t] # "idle" /\ UNCHANGED <<calls, method>>
        /\ \A g \in Futures : g # f => future'[g] = future[g]
        /\ \A u \in Threads : u # t => pc'[u] = pc[u] /\ job'[u] = job[u]
        /\ pc'[t] # "idle" => job'[t].future = f
    BY <1>1, <2>1, GoOnFuture
  <2>3. /\ future'[f] # future[f] => future[f] = "pending" /\ pc'[t] = "idle"
        /\ connState' = "Ready" =>
              \/ connState = "Ready" /\ (method[f] = "read" =>
                                            future'[f] \in {future[f], "finished"})
              \/ method[f] = "connect" /\ future'[f] = "finished"
                 /\ future[f] # "finished" /\ f \in 1..calls
    BY <2>1, GoOnReading
  <2> QED BY <1>1, <2>1, <2>2, <2>3, ServeReading
<1>3. CASE handlerCompletes
  <2>1. Handler /\ RunListeners(Io) /\ todo[Io] = <<>> /\ UNCHANGED <<pipe, tasks, stalled>>
    BY <1>3 DEF handlerCompletes, Free
  <2> DEFINE f == Next1.future
  <2>2. /\ f \in Futures /\ UNCHANGED <<calls, method, connState>>
        /\ \A g \in Futures : g # f => future'[g] = future[g]
        /\ \A u \in Threads : u # Io => pc'[u] = pc[u] /\ job'[u] = job[u]
        /\ future'[f] # future[f] => future[f] = "pending" /\ pc'[Io] = "idle"
        /\ method[f] = "read" => future'[f] \in {future[f], "finished"}
    BY <2>1, HandlerReading
  <2> QED BY <1>1, <2>1, <2>2, ServeReading
<1>4. ASSUME NEW t \in Threads, ThreadGoesOn(t) PROVE HearInv'
  BY <1>1, <1>2, <1>4, CallReading, ListenReading, FirstReading, LastReading, StageReading,
     StageWritesReading, PostReading, ThrowReading, AnswerReading DEF ThreadGoesOn
<1>5. CASE IoServes
  BY <1>3, <1>5, TaskReading DEF IoServes
<1>6. CASE workerTakes
  BY <1>6, WorkerTakesReading
<1>7. CASE network \/ callWrite \/ UNCHANGED <<vars, context>>
  <2>1. UNCHANGED <<pipe, todo, tasks, listening, stalled, connState, calls, method, future, pc,
                    job>>
    BY <1>7 DEF network, callWrite, Complete, vars, context, thread, record
  <2> QED BY <2>1, RestReading
<1>8. ASSUME NEW m \in TaskCalls, userTask(m) PROVE HearInv'
  BY <1>8, TaskReading
<1> QED BY <1>4, <1>5, <1>6, <1>7, <1>8 DEF ContextNext

\* A connection that is Ready is being read when all is quiet, unless a stage broke the
\* reading: for any pipelines, stages that throw, skip and reconnect, executors, and
\* calls that overlap.
THEOREM ConnectionIsRead == ContextSpec => []ReadingGoesOn
<1>1. ContextInit => HearInv
  <2> SUFFICES ASSUME ContextInit PROVE HearInv
    OBVIOUS
  <2>1. connState # "Ready" /\ calls = 0 /\ \A t \in Threads : pc[t] = "idle"
    BY DEF ContextInit, Init
  <2>2. \A f \in 1..calls : FALSE
    BY <2>1
  <2> QED BY <2>1, <2>2 DEF HearInv, ReadingInv, AwaitInv, BusyInv
<1>2. Init => LoadInv
  BY DEF Init, LoadInv, Threads
<1>3. IInv /\ LoadInv /\ [Next]_vars => LoadInv'
  BY LoadStep
<1>4. IInv /\ HearInv => ReadingGoesOn
  <2> SUFFICES ASSUME IInv, HearInv, Quiet, connState = "Ready", ~stalled
               PROVE  BufferUsers # {}
    BY DEF ReadingGoesOn
  <2>1. /\ ioQueue = <<>> /\ Len(ioQueue) = 0 /\ Len(tasks) = 0
        /\ \A t \in Threads : pc[t] = "idle" /\ todo[t] = <<>> /\ Len(todo[t]) = 0
    BY DEF Quiet, Free
  <2>2. ~TasksRead /\ \A t \in Threads : ~WillRead(todo[t])
    BY <2>1 DEF TasksRead, WillRead, Leads
  <2>3. PICK f \in 1..calls : method[f] = "read" /\ future[f] = "pending"
    BY <2>2 DEF HearInv, ReadingInv
  <2>4. PICK op \in pending : op.future = f
    BY <2>1, <2>3 DEF IInv, NoLostFuture, Carried
  <2>5. op.kind = "read"
    BY <2>3, <2>4 DEF IInv, HandlingInv, PendingFits, Fits
  <2> QED BY <2>4, <2>5 DEF BufferUsers
<1> QED BY <1>1, <1>2, <1>3, <1>4, ContextInitially, ContextInductive, ReadingStep,
        ContextUsesHandler, InductiveInvariant, FuturesCarriedOnce, PTL DEF ContextSpec, Spec

------------------------------------------------------------------------------
\* One read at a time.

NoRemote == Remote \cap Range(pipe.stages) = {}

\* What a pipeline without executors has the io thread do: nothing is posted, and
\* events are told to stages of the pipeline, but no exception to the first.
Local ==
    {x \in Works : /\ x.do # "post"
                   /\ x.do = "tell" => /\ InPipe(x.stage)
                                       /\ x.what = "exception" => x.stage # FirstStage}
Answering == {x \in Works : x.do = "answer"}

\* Of these, what starts a read or leads to one.
ReadTurns ==
    {x \in Works : \/ x.do = "call" /\ x.what = "read"
                   \/ /\ x.do = "tell"
                      /\ \/ x.what = "active" /\ x.stage = FirstStage
                         \/ x.what \in {"read", "readComplete"}}

Listens == {x \in Works : x.do = "listen"}

\* Listening to what is done already.
Late ==
    {x \in Listens : method[x.n] \in {"connect", "read"} /\ future[x.n] = "finished"}

\* Only the io thread uses the handler: the executor is for the callbacks of requests.
\* It listens to a connect or a read before this is answered, as it is the thread that
\* answers it, and when it stores the outcome of a connect it has nothing else to do.
LocalInv ==
    /\ alone
    /\ \A i \in 1..Len(tasks) : tasks[i] \in Seq(Answering)
    /\ \A u \in Users : todo[u] \in Seq(Answering)
    /\ todo[Io] \in Seq(Local)
    /\ ~Has(todo[Io], Late)
    /\ pc[Io] = "store" /\ job[Io].next = "finish" => todo[Io] = <<>>

ReadOps == {op \in pending : op.kind = "read"}
ReadItems == {i \in 1..Len(ioQueue) : ioQueue[i].kind = "read" /\ ioQueue[i].ok}
Starting == pc[Io] = "start" /\ job[Io].kind = "read"
Finishing == pc[Io] = "store" /\ job[Io].next = "finish"

Connecting ==
    \/ ConnectOps # {} \/ ConnectItems # {}
    \/ pc[Io] = "store" /\ job[Io].next \in {"asyncConnect", "finish"}

\* While a connect is under way, no read is; one that an earlier connection has
\* completed is handled before the connect is.
FreshInv ==
    /\ Connecting => ReadOps = {} /\ connState # "Ready" /\ ~Starting
    /\ \A i \in ConnectItems, j \in ReadItems : j < i
    /\ Finishing => ReadItems = {}

\* The buffer is with one read.
BufferInv ==
    /\ \A f, g \in BufferUsers : f = g
    /\ Starting => BufferUsers = {}

\* What leads to a read is there once, and no read with it.
TurnInv ==
    /\ Once(todo[Io], ReadTurns)
    /\ Has(todo[Io], ReadTurns) => BufferUsers = {} /\ ~Starting

OneInv == NoRemote => LocalInv /\ (~overlapped => FreshInv /\ BufferInv /\ TurnInv)

\* What a step of the handler on its own thread leaves of the reads.
KeepsReads ==
    /\ FreshInv' /\ ~Starting'
    /\ \/ BufferUsers' \subseteq BufferUsers
       \/ Starting /\ \E f : BufferUsers' \subseteq {f}
    /\ \A f \in Futures :
          method[f] \in {"connect", "read"} /\ future'[f] = "finished"
             => \/ future[f] = "finished"
                \/ BufferUsers' = {} /\ (pc[Io] = "idle" \/ Finishing)
    /\ Finishing' => pc[Io] = "idle" /\ future' = future

LEMMA BuffersAre ==
    ASSUME ioQueue \in Seq(Items)
    PROVE  /\ \A g : g \in BufferUsers <=> \/ \E op \in ReadOps : op.future = g
                                           \/ \E i \in ReadItems : ioQueue[i].future = g
           /\ ReadOps = {} /\ ReadItems = {} => BufferUsers = {}
<1>1. DOMAIN ioQueue = 1..Len(ioQueue)
  OBVIOUS
<1>2. \A g : g \in BufferUsers <=> \/ \E op \in ReadOps : op.future = g
                                   \/ \E i \in ReadItems : ioQueue[i].future = g
  BY <1>1 DEF BufferUsers, ReadOps, ReadItems
<1> QED BY <1>2

\* A connect is there in one place, as long as connects do not overlap.
LEMMA ConnectsAre ==
    ASSUME IInv, ~overlapped, alone
    PROVE  /\ Io \in Threads /\ TypeOK /\ OneConnect /\ AloneInv
           /\ IsFiniteSet(pending) /\ ioQueue \in Seq(Items)
           /\ pc[Io] = "checked" \/ (pc[Io] = "store" /\ job[Io].next \in {"asyncConnect", "finish"})
                 => /\ ConnectOps = {} /\ ConnectItems = {}
                    /\ method[job[Io].future] = "connect"
<1>1. /\ Io \in Threads /\ TypeOK /\ OneConnect /\ AloneInv /\ JobFits(Io)
      /\ IsFiniteSet(pending)
  BY DEF IInv, DestinationInv, HandlingInv, PendingFits, Threads
<1>2. ASSUME pc[Io] = "checked" \/ (pc[Io] = "store" /\ job[Io].next \in {"asyncConnect", "finish"})
      PROVE  method[job[Io].future] = "connect"
  BY <1>1, <1>2 DEF JobFits, Fits
<1>3. ASSUME pc[Io] = "checked" \/ (pc[Io] = "store" /\ job[Io].next \in {"asyncConnect", "finish"})
      PROVE  ConnectOps = {} /\ ConnectItems = {}
  <2>1. Io \in ConnectThreads
    BY <1>1, <1>2, <1>3 DEF ConnectThreads
  <2> QED BY <1>1, <2>1 DEF OneConnect
<1> QED BY <1>1, <1>2, <1>3 DEF TypeOK

\* An abort leaves what was read, and no read under way.
LEMMA AbortReads ==
    ASSUME IInv, AbortOperations(ioQueue)
    PROVE  /\ ioQueue' \in Seq(Items)
           /\ \A i \in ReadItems' : i \in ReadItems /\ ioQueue'[i] = ioQueue[i]
           /\ \A i \in ConnectItems' :
                 i \in ConnectItems \/ (ConnectOps # {} /\ \A j \in ReadItems' : j < i)
           /\ \A op \in pending \ OnSocket : op.kind = "resolve"
<1>1. /\ TypeOK /\ IsFiniteSet(pending) /\ ioQueue \in Seq(Items) /\ Len(ioQueue) \in Nat
  BY DEF IInv, TypeOK, HandlingInv, PendingFits
<1>2. /\ ioQueue' \in Seq(Items)
      /\ \A i \in 1..Len(ioQueue') :
            \/ i \in 1..Len(ioQueue) /\ ioQueue'[i] = ioQueue[i]
            \/ \E op \in OnSocket : /\ ioQueue'[i].kind = op.kind /\ ioQueue'[i].ok = FALSE
                                    /\ ioQueue'[i].future = op.future
  BY <1>1, Aborted
<1>3. \A i \in ReadItems' : i \in ReadItems /\ ioQueue'[i] = ioQueue[i]
  BY <1>2 DEF ReadItems
<1>4. ASSUME NEW i \in ConnectItems', i \notin ConnectItems
      PROVE  ConnectOps # {} /\ \A j \in ReadItems' : j < i
  <2>1. /\ i \in 1..Len(ioQueue') /\ ~(i \in 1..Len(ioQueue) /\ ioQueue'[i] = ioQueue[i])
        /\ ioQueue'[i].kind \in {"connectTask", "resolve", "connect"}
    BY <1>4 DEF ConnectItems
  <2>2. PICK op \in OnSocket : ioQueue'[i].kind = op.kind
    BY <1>2, <2>1
  <2>3. op \in ConnectOps
    BY <2>1, <2>2 DEF ConnectOps, OnSocket, IInv, HandlingInv, PendingFits
  <2>4. i \notin 1..Len(ioQueue)
    <3> SUFFICES ASSUME i \in 1..Len(ioQueue) PROVE FALSE
      OBVIOUS
    <3> QED BY <1>1, <1>4, <2>1, Aborted DEF ConnectItems
  <2>5. \A j \in ReadItems' : j \in 1..Len(ioQueue)
    BY <1>3 DEF ReadItems
  <2>6. i > Len(ioQueue) /\ i \in Nat
    <3>1. i \in 1..Len(ioQueue')
      BY <2>1
    <3> HIDE <2>1
    <3> QED BY <1>1, <1>2, <2>4, <3>1
  <2> QED BY <1>1, <2>3, <2>5, <2>6
<1> QED BY <1>2, <1>3, <1>4 DEF OnSocket

\* What a step takes away can only help.
LEMMA FewerBuffers ==
    ASSUME ioQueue \in Seq(Items), ioQueue' \in Seq(Items), ReadOps' \subseteq ReadOps,
           \A i \in ReadItems' : \E j \in ReadItems : ioQueue'[i].future = ioQueue[j].future
    PROVE  BufferUsers' \subseteq BufferUsers
<1>1. \A g : g \in BufferUsers' => \/ \E op \in ReadOps' : op.future = g
                                   \/ \E i \in ReadItems' : ioQueue'[i].future = g
  <2>1. DOMAIN ioQueue' = 1..Len(ioQueue')
    OBVIOUS
  <2> QED BY <2>1 DEF BufferUsers, ReadOps, ReadItems
<1> QED BY <1>1, BuffersAre

LEMMA ConnectCheckedReads ==
    ASSUME IInv, ~overlapped, alone, FreshInv, connectChecked(Io)
    PROVE  KeepsReads
<1>1. /\ Io \in Threads /\ TypeOK /\ OneConnect /\ pc[Io] = "checked" /\ ioQueue \in Seq(Items)
      /\ ConnectOps = {} /\ ConnectItems = {}
      /\ pc \in [Threads -> {"idle", "checked", "store", "start"}] /\ job \in [Threads -> Jobs]
      /\ connState' = connState
  BY ConnectsAre DEF connectChecked, TypeOK
<1>2. CASE connState = "Ready"
  <2>1. pc'[Io] = "idle" /\ UNCHANGED <<pending, ioQueue>> /\ reportErrorCode(job[Io].future)
    BY <1>1, <1>2, Idled DEF connectChecked
  <2>2. ConnectOps' = {} /\ ConnectItems' = {}
    BY <1>1, <2>1 DEF ConnectOps, ConnectItems
  <2>3. FreshInv' /\ ~Starting'
    BY <2>1, <2>2 DEF FreshInv, Connecting, Starting, Finishing
  <2>4. BufferUsers' = BufferUsers
    BY <2>1 DEF BufferUsers
  <2>5. \A f \in Futures : future'[f] = "finished" => future[f] = "finished"
    BY <1>1, <2>1 DEF reportErrorCode, Report, TypeOK
  <2> QED BY <2>1, <2>3, <2>4, <2>5 DEF KeepsReads, Finishing
<1>3. CASE connState # "Ready"
  <2>1. StartConnect(Io, job[Io].future, ioQueue) /\ future' = future
    BY <1>3 DEF connectChecked
  <2>2. /\ AbortOperations(ioQueue)
        /\ \A op \in pending' : op \in pending \ OnSocket \/ op.kind = "resolve"
        /\ pc'[Io] = "idle" \/ (pc'[Io] = "store" /\ job'[Io].next = "asyncConnect")
    <3>1. job[Io].future \in Futures
      BY <1>1 DEF Jobs
    <3>2. Idle(Io) => pc'[Io] = "idle"
      BY <1>1, Idled
    <3>3. setConnectivityState(Io, "Connecting", "asyncConnect", job[Io].future) =>
             pc'[Io] = "store" /\ job'[Io].next = "asyncConnect"
      BY <1>1 DEF setConnectivityState
    <3> QED BY <2>1, <3>2, <3>3 DEF StartConnect, resetSocket
  <2>3. ReadOps' = {}
    BY <2>2, AbortReads DEF ReadOps
  <2>4. ConnectItems' = {}
    BY <1>1, <2>2, AbortReads
  <2>5. FreshInv' /\ ~Starting'
    BY <1>1, <1>3, <2>2, <2>3, <2>4 DEF FreshInv, Starting, Finishing
  <2>6. BufferUsers' \subseteq BufferUsers
    BY <1>1, <2>2, <2>3, AbortReads, FewerBuffers
  <2> QED BY <2>1, <2>2, <2>5, <2>6 DEF KeepsReads, Finishing
<1> QED BY <1>2, <1>3

LEMMA StartReads ==
    ASSUME IInv, ~overlapped, alone, FreshInv, BufferInv, StartOperation(Io)
    PROVE  KeepsReads
<1>1. /\ Io \in Threads /\ TypeOK /\ ioQueue \in Seq(Items) /\ pc[Io] = "start"
      /\ pc'[Io] = "idle" /\ UNCHANGED <<connState, future>>
      /\ job[Io].kind \in {"read", "write"} /\ job[Io] \in Jobs /\ job[Io].future \in Futures
  BY ConnectsAre, Idled DEF StartOperation, IInv, HandlingInv, JobFits, TypeOK, Jobs
<1> DEFINE k == job[Io].kind
           f == job[Io].future
           op == [kind |-> k, future |-> f]
           x == Item(k, f, FALSE)
<1>2. x \in Items /\ x.ok = FALSE /\ x.kind = k /\ op.kind = k /\ op.future = f
  BY <1>1 DEF Item, Items, Kinds
<1>3. \/ pending' = pending \cup {op} /\ ioQueue' = ioQueue
      \/ ioQueue' = Append(ioQueue, x) /\ pending' = pending
  BY DEF StartOperation
<1> HIDE DEF k, f, op, x
<1>4. /\ ioQueue' \in Seq(Items)
      /\ \A i \in 1..Len(ioQueue) : i \in 1..Len(ioQueue') /\ ioQueue'[i] = ioQueue[i]
      /\ \A i \in 1..Len(ioQueue') : i \in 1..Len(ioQueue) \/ ioQueue'[i] = x
  BY <1>1, <1>2, <1>3, Appended
<1>5. /\ ReadItems' = ReadItems /\ ConnectItems' = ConnectItems
      /\ \A i \in ReadItems : ioQueue'[i] = ioQueue[i]
  BY <1>1, <1>2, <1>4 DEF ReadItems, ConnectItems, k
<1>6. ConnectOps' = ConnectOps
  BY <1>1, <1>2, <1>3 DEF ConnectOps, k
<1>7. /\ k = "write" => ReadOps' = ReadOps
      /\ ReadOps' \subseteq ReadOps \cup {op}
  BY <1>2, <1>3 DEF ReadOps
<1>8. Connecting' => Connecting /\ k = "write"
  <2>1. Connecting' => Connecting
    BY <1>1, <1>5, <1>6 DEF Connecting
  <2>2. Connecting => ~Starting
    BY DEF FreshInv
  <2> QED BY <1>1, <2>1, <2>2 DEF Starting, k
<1>9. FreshInv' /\ ~Starting'
  BY <1>1, <1>5, <1>7, <1>8 DEF FreshInv, Starting, Finishing
<1>10. k = "write" => BufferUsers' \subseteq BufferUsers
  BY <1>1, <1>4, <1>5, <1>7, FewerBuffers
<1>11. k = "read" => Starting /\ BufferUsers' \subseteq {f}
  <2> SUFFICES ASSUME k = "read" PROVE Starting /\ BufferUsers' \subseteq {f}
    OBVIOUS
  <2>1. Starting /\ BufferUsers = {}
    BY <1>1 DEF Starting, BufferInv, k
  <2>2. ReadOps = {} /\ ReadItems = {}
    BY <1>1, <2>1, BuffersAre
  <2>3. DOMAIN ioQueue' = 1..Len(ioQueue')
    BY <1>4
  <2>4. \A g : g \in BufferUsers' => \E o \in ReadOps' : o.future = g
    BY <1>5, <2>2, <2>3 DEF BufferUsers, ReadOps, ReadItems
  <2> QED BY <1>2, <1>7, <2>1, <2>2, <2>4
<1> QED BY <1>1, <1>9, <1>10, <1>11 DEF KeepsReads, Finishing, k

\* The io thread stores the state, and goes on with a connect, a report or a close.
LEMMA StoreReads ==
    ASSUME IInv, ~overlapped, alone, FreshInv, Store(Io)
    PROVE  KeepsReads
<1> DEFINE do == job[Io]
<1>1. /\ Io \in Threads /\ TypeOK /\ OneConnect /\ pc[Io] = "store" /\ ioQueue \in Seq(Items)
      /\ pc'[Io] = "idle" /\ ~Starting' /\ ~Finishing'
      /\ connState' = IF do.store THEN do.target ELSE connState
      /\ do.future \in Futures /\ JobFits(Io)
  BY ConnectsAre, Idled DEF Store, Stored, IInv, HandlingInv, TypeOK, Jobs, Starting, Finishing
<1>2. connState' = "Ready" => connState = "Ready" \/ do.next = "finish"
  BY <1>1 DEF JobFits
<1>3. do.next \in {"asyncConnect", "finish"} => ConnectOps = {} /\ ConnectItems = {} /\ Connecting
  BY <1>1, ConnectsAre DEF Connecting
<1>4. /\ Report(do.future, "failed") =>
            \A f \in Futures : future'[f] = "finished" => future[f] = "finished"
      /\ \A o : Report(do.future, o) =>
            \A f \in Futures : f # do.future => future'[f] = future[f]
  BY <1>1 DEF Report, TypeOK
<1>5. ASSUME UNCHANGED <<pending, ioQueue>>
      PROVE  /\ ReadOps' = ReadOps /\ ReadItems' = ReadItems /\ BufferUsers' = BufferUsers
             /\ ConnectOps' = ConnectOps /\ ConnectItems' = ConnectItems
  BY <1>5 DEF ReadOps, ReadItems, BufferUsers, ConnectOps, ConnectItems
<1> HIDE DEF do
<1>6. CASE AsyncConnect(Io)
  <2>1. /\ AbortOperations(ioQueue) /\ future' = future /\ do.next = "asyncConnect"
        /\ \A op \in pending' : op \in pending \ OnSocket \/ op.kind = "connect"
    BY <1>6 DEF AsyncConnect, do
  <2>2. ReadOps' = {}
    BY <2>1, AbortReads DEF ReadOps
  <2>3. ConnectItems' = {}
    BY <1>3, <2>1, AbortReads
  <2>4. connState' # "Ready"
    BY <1>2, <1>3, <2>1 DEF FreshInv
  <2>5. FreshInv'
    BY <1>1, <2>2, <2>3, <2>4 DEF FreshInv
  <2>6. BufferUsers' \subseteq BufferUsers
    BY <1>1, <2>1, <2>2, AbortReads, FewerBuffers
  <2> QED BY <1>1, <2>1, <2>5, <2>6 DEF KeepsReads
<1>7. CASE do.next = "finish" /\ Report(do.future, "finished") /\ UNCHANGED <<pending, ioQueue>>
  <2>1. ConnectOps' = {} /\ ConnectItems' = {} /\ ~Connecting'
    BY <1>1, <1>3, <1>5, <1>7 DEF Connecting
  <2>2. FreshInv'
    BY <1>1, <2>1 DEF FreshInv
  <2>3. BufferUsers' = {}
    <3>1. ReadOps = {} /\ ReadItems = {}
      BY <1>1, <1>3, <1>7 DEF FreshInv, Finishing, do
    <3> QED BY <1>1, <1>5, <1>7, <3>1, BuffersAre
  <2> QED BY <1>1, <1>7, <2>2, <2>3 DEF KeepsReads, Finishing, do
<1>8. CASE do.next \in {"fail", "postClose"} /\ Report(do.future, "failed")
           /\ UNCHANGED <<pending, ioQueue>>
  <2>1. Connecting' => Connecting
    BY <1>1, <1>5, <1>8 DEF Connecting
  <2>2. FreshInv'
    BY <1>1, <1>2, <1>5, <1>8, <2>1 DEF FreshInv
  <2> QED BY <1>1, <1>4, <1>5, <1>8, <2>2 DEF KeepsReads
<1>9. CASE CloseNow(Io)
  <2>1. do.next = "postClose" /\ RunClose(do.future, ioQueue)
    BY <1>9 DEF CloseNow, do
  <2>2. \A f \in Futures :
           method[f] \in {"connect", "read"} /\ future'[f] = "finished" => future[f] = "finished"
    <3>1. method[do.future] \notin {"connect", "read"}
      BY <1>1, <2>1 DEF JobFits, Fits, IInv, HandlingInv, ToCome, do
    <3> QED BY <1>4, <2>1, <3>1 DEF RunClose, reportErrorCode
  <2>3. CASE AbortOperations(ioQueue) /\ pending' = pending \ OnSocket
    <3>1. ReadOps' = {} /\ ConnectOps' \subseteq ConnectOps
      BY <2>3, AbortReads DEF ReadOps, ConnectOps
    <3>2. Connecting' => Connecting
      BY <1>1, <2>3, <3>1, AbortReads DEF Connecting
    <3>3. \A i \in ConnectItems', j \in ReadItems' : j < i
      BY <2>3, AbortReads DEF FreshInv
    <3>4. FreshInv'
      BY <1>1, <1>2, <2>1, <3>1, <3>2, <3>3 DEF FreshInv
    <3>5. BufferUsers' \subseteq BufferUsers
      BY <1>1, <2>3, <3>1, AbortReads, FewerBuffers
    <3> QED BY <1>1, <2>2, <3>4, <3>5 DEF KeepsReads
  <2>4. CASE UNCHANGED <<pending, ioQueue>>
    <3>1. Connecting' => Connecting
      BY <1>1, <1>5, <2>4 DEF Connecting
    <3>2. FreshInv'
      BY <1>1, <1>2, <1>5, <2>1, <2>4, <3>1 DEF FreshInv
    <3> QED BY <1>1, <1>5, <2>2, <2>4, <3>2 DEF KeepsReads
  <2> QED BY <2>1, <2>3, <2>4 DEF RunClose
<1>10. AsyncConnect(Io) \/ ReportOutcome(Io) \/ CloseNow(Io) \/ CloseRefused(Io)
  BY DEF Store, CloseLater
<1>11. ReportOutcome(Io) \/ CloseRefused(Io) =>
          /\ UNCHANGED <<pending, ioQueue>>
          /\ \/ do.next = "finish" /\ Report(do.future, "finished")
             \/ do.next \in {"fail", "postClose"} /\ Report(do.future, "failed")
  BY DEF ReportOutcome, CloseRefused, reportErrorCode, do
<1> QED BY <1>6, <1>7, <1>8, <1>9, <1>10, <1>11

\* What is taken from the queue leaves the rest in order.
LEMMA RestReads ==
    ASSUME IInv, FreshInv, ioQueue # <<>>, ioQueue' = Rest
    PROVE  /\ Next1 = ioQueue[1] /\ Next1 \in Items /\ 1 \in 1..Len(ioQueue)
           /\ ioQueue \in Seq(Items) /\ ioQueue' \in Seq(Items)
           /\ \A i \in ReadItems' : i + 1 \in ReadItems /\ ioQueue'[i] = ioQueue[i + 1]
           /\ \A i \in ConnectItems' : i + 1 \in ConnectItems
           /\ \A i \in ConnectItems', j \in ReadItems' : j < i
<1>1. /\ Next1 \in Items /\ Next1 = ioQueue[1] /\ ioQueue \in Seq(Items)
      /\ Rest \in Seq(Items) /\ Len(ioQueue) \in Nat \ {0} /\ Len(Rest) = Len(ioQueue) - 1
      /\ \A i \in 1..Len(Rest) : Rest[i] = ioQueue[i + 1]
  BY Dequeued DEF IInv, TypeOK
<1>2. \A i \in 1..Len(Rest) : i \in Nat /\ i + 1 \in 1..Len(ioQueue)
  BY <1>1
<1>3. \A i \in ReadItems' : i + 1 \in ReadItems /\ ioQueue'[i] = ioQueue[i + 1] /\ i \in Nat
  BY <1>1, <1>2 DEF ReadItems
<1>4. \A i \in ConnectItems' : i + 1 \in ConnectItems /\ i \in Nat
  BY <1>1, <1>2 DEF ConnectItems
<1>5. ASSUME NEW i \in ConnectItems', NEW j \in ReadItems' PROVE j < i
  <2>1. j + 1 < i + 1 /\ i \in Nat /\ j \in Nat
    BY <1>3, <1>4, <1>5 DEF FreshInv
  <2> QED BY <2>1
<1> QED BY <1>1, <1>3, <1>4, <1>5

\* The io thread handles a completion.
LEMMA HandlerReads ==
    ASSUME IInv, OnceInv, ~overlapped, alone, FreshInv, BufferInv, Handler
    PROVE  KeepsReads
<1>1. /\ Io \in Threads /\ TypeOK /\ AloneInv /\ ioQueue # <<>> /\ ioQueue' = Rest
      /\ pc[Io] = "idle" /\ QueueFits
      /\ pc \in [Threads -> {"idle", "checked", "store", "start"}] /\ job \in [Threads -> Jobs]
      /\ addressResolved \/ connected \/ transferred
  <2>1. /\ Io \in Threads /\ TypeOK /\ AloneInv /\ QueueFits
        /\ ioQueue # <<>> /\ pc[Io] = "idle" /\ ioQueue \in Seq(Items)
    BY ConnectsAre DEF Handler, connectTask, closeTask, addressResolved, connected, transferred,
                       Dequeue, IInv, HandlingInv
  <2>2. Next1 = ioQueue[1] /\ 1 \in 1..Len(ioQueue)
    BY <2>1 DEF Next1
  <2>3. ~connectTask /\ ~closeTask
    BY <2>1, <2>2 DEF AloneInv, connectTask, closeTask, Dequeue, Next1
  <2>4. addressResolved \/ connected \/ transferred
    BY <2>3 DEF Handler
  <2>5. ioQueue' = Rest
    BY <2>4 DEF addressResolved, connected, transferred
  <2> QED BY <2>1, <2>4, <2>5 DEF TypeOK
<1>2. /\ Next1 = ioQueue[1] /\ Next1 \in Items /\ 1 \in 1..Len(ioQueue)
      /\ ioQueue \in Seq(Items) /\ ioQueue' \in Seq(Items)
      /\ \A i \in ReadItems' : i + 1 \in ReadItems /\ ioQueue'[i] = ioQueue[i + 1]
      /\ \A i \in ConnectItems' : i + 1 \in ConnectItems
      /\ \A i \in ConnectItems', j \in ReadItems' : j < i
  BY <1>1, RestReads
<1>3. UNCHANGED <<pending, connState, method>>
  BY <1>1 DEF addressResolved, connected, transferred, record
<1>4. ReadOps' = ReadOps /\ ConnectOps' = ConnectOps
  BY <1>3 DEF ReadOps, ConnectOps
<1>5. BufferUsers' \subseteq BufferUsers
  BY <1>2, <1>4, FewerBuffers
<1>6. \A target, next, f : setConnectivityState(Io, target, next, f) =>
         pc'[Io] = "store" /\ job'[Io].next = next
  BY <1>1 DEF setConnectivityState
<1>7. UNCHANGED thread => pc'[Io] = "idle"
  BY <1>1 DEF thread
<1>8. Next1.future \in Futures
  BY <1>2 DEF Items
<1>9. CASE addressResolved
  <2>1. /\ Next1.kind = "resolve"
        /\ \/ pc'[Io] = "store" /\ job'[Io].next = "asyncConnect" /\ future' = future
           \/ pc'[Io] = "idle" /\ Report(Next1.future, "failed")
    BY <1>6, <1>7, <1>9 DEF addressResolved, Dequeue, Next1, reportErrorCode
  <2>2. 1 \in ConnectItems /\ Connecting
    BY <1>2, <2>1 DEF ConnectItems, Connecting
  <2>3. FreshInv' /\ ~Starting'
    BY <1>2, <1>3, <1>4, <2>1, <2>2 DEF FreshInv, Starting, Finishing
  <2>4. \A f \in Futures : future'[f] = "finished" => future[f] = "finished"
    BY <1>1, <1>8, <2>1 DEF Report, TypeOK
  <2> QED BY <1>5, <2>1, <2>3, <2>4 DEF KeepsReads, Finishing
<1>10. CASE connected
  <2>1. /\ Next1.kind = "connect" /\ future' = future
        /\ pc'[Io] = "store" /\ job'[Io].next \in {"finish", "fail"}
    BY <1>6, <1>10 DEF connected, Dequeue, Next1
  <2>2. 1 \in ConnectItems /\ Connecting
    BY <1>2, <2>1 DEF ConnectItems, Connecting
  <2>3. ReadItems' = {}
    <3> SUFFICES ASSUME NEW i \in ReadItems' PROVE FALSE
      OBVIOUS
    <3>1. i + 1 \in ReadItems /\ i + 1 < 1 /\ i \in 1..Len(ioQueue')
      BY <1>2, <2>2 DEF FreshInv, ReadItems
    <3> QED BY <1>2, <3>1
  <2>4. FreshInv' /\ ~Starting'
    BY <1>2, <1>3, <1>4, <2>1, <2>2, <2>3 DEF FreshInv, Starting, Finishing
  <2> QED BY <1>1, <1>5, <2>1, <2>4 DEF KeepsReads, Finishing
<1>11. CASE transferred
  <2>1. /\ Next1.kind \in {"read", "write"}
        /\ \/ Next1.ok /\ pc'[Io] = "idle" /\ Report(Next1.future, "finished")
           \/ pc'[Io] = "store" /\ job'[Io].next = "fail" /\ future' = future
    BY <1>6, <1>7, <1>11 DEF transferred, Dequeue, Next1
  <2>2. Connecting' => Connecting
    BY <1>2, <1>4, <2>1 DEF Connecting
  <2>3. FreshInv' /\ ~Starting'
    BY <1>2, <1>3, <1>4, <2>1, <2>2 DEF FreshInv, Starting, Finishing
  <2>4. CASE Next1.ok /\ Next1.kind = "read"
    <3> DEFINE g == Next1.future
    <3>1. g \in 1..calls
      BY <1>1, <1>2, <2>4 DEF QueueFits, Fits
    <3>2. 1 \in ReadItems /\ ioQueue[1].future = g
      BY <1>2, <2>4 DEF ReadItems
    <3>3. ~InOps(pending, g) /\ ~InQueue(Rest, g)
      BY <1>1, <3>1, QueueOnce
    <3> HIDE DEF g
    <3>4. g \in BufferUsers
      BY <1>2, <3>2, BuffersAre
    <3>5. g \notin BufferUsers'
      <4>1. DOMAIN ioQueue' = 1..Len(ioQueue')
        BY <1>2
      <4> QED BY <1>1, <1>3, <3>3, <4>1 DEF BufferUsers, InOps, InQueue
    <3>6. BufferUsers' = {}
      BY <1>5, <3>4, <3>5 DEF BufferInv
    <3> QED BY <1>1, <2>1, <2>3, <3>6 DEF KeepsReads, Finishing
  <2>5. CASE Next1.kind = "write" \/ future' = future
    <3>1. \A f \in Futures : method[f] \in {"connect", "read"} /\ future'[f] = "finished"
             => future[f] = "finished"
      <4>1. CASE Next1.kind = "write" /\ Report(Next1.future, "finished")
        <5>1. method[Next1.future] = "write"
          BY <1>1, <1>2, <4>1 DEF QueueFits, Fits
        <5> QED BY <1>1, <1>8, <4>1, <5>1 DEF Report, TypeOK
      <4> QED BY <2>1, <2>5, <4>1
    <3> QED BY <1>5, <2>1, <2>3, <3>1 DEF KeepsReads, Finishing
  <2> QED BY <2>1, <2>4, <2>5
<1> QED BY <1>1, <1>9, <1>10, <1>11

\* The network ends an operation: a read that is done stays the one that it was.
LEMMA CompleteReads ==
    ASSUME IInv, ~overlapped, alone, FreshInv, BufferInv,
           NEW op \in pending, NEW ok \in BOOLEAN, Complete(op, ok)
    PROVE  FreshInv' /\ BufferInv' /\ BufferUsers' \subseteq BufferUsers
<1> DEFINE x == Item(op.kind, op.future, ok)
<1>1. /\ TypeOK /\ pending' = pending \ {op} /\ ioQueue' = Append(ioQueue, x)
      /\ op \in Operations /\ ioQueue \in Seq(Items)
      /\ UNCHANGED <<connState, pc, job>>
  BY DEF Complete, IInv, TypeOK, thread
<1>2. x \in Items /\ x.future = op.future /\ x.kind = op.kind /\ x.ok = ok
  BY <1>1 DEF Item, Items, Operations
<1>3. op.kind # "connectTask"
  BY DEF IInv, HandlingInv, PendingFits
<1> HIDE DEF x
<1>4. /\ ioQueue' \in Seq(Items) /\ Len(ioQueue) \in Nat /\ Len(ioQueue') = Len(ioQueue) + 1
      /\ \A i \in 1..Len(ioQueue) : i \in 1..Len(ioQueue') /\ ioQueue'[i] = ioQueue[i]
      /\ ioQueue'[Len(ioQueue')] = x
      /\ \A i \in 1..Len(ioQueue') : i \in 1..Len(ioQueue) \/ i = Len(ioQueue')
  BY <1>1, <1>2, Appended
<1>5. \A i \in ReadItems' : \/ i \in ReadItems /\ ioQueue'[i] = ioQueue[i]
                            \/ i = Len(ioQueue') /\ op \in ReadOps /\ ioQueue'[i] = x
  BY <1>1, <1>2, <1>4 DEF ReadItems, ReadOps
<1>6. \A i \in ConnectItems' : i \in ConnectItems \/ (i = Len(ioQueue') /\ op \in ConnectOps)
  BY <1>2, <1>3, <1>4 DEF ConnectItems, ConnectOps
<1>7. ReadOps' \subseteq ReadOps /\ ConnectOps' \subseteq ConnectOps
  BY <1>1 DEF ReadOps, ConnectOps
<1>8. Connecting' => Connecting
  BY <1>1, <1>6, <1>7 DEF Connecting
<1>9. Connecting => \A i \in ReadItems' : i \in ReadItems
  BY <1>5 DEF FreshInv
<1>10. \A i \in ReadItems : i \in 1..Len(ioQueue) /\ i < Len(ioQueue')
  <2>1. \A i \in ReadItems : i \in 1..Len(ioQueue)
    BY DEF ReadItems
  <2> QED BY <1>4, <2>1
<1>11. ASSUME NEW i \in ConnectItems', NEW j \in ReadItems' PROVE j < i
  <2>1. Connecting
    BY <1>6, <1>11 DEF Connecting
  <2>2. j \in ReadItems
    BY <1>9, <1>11, <2>1
  <2> QED BY <1>6, <1>10, <1>11, <2>2 DEF FreshInv
<1>12. Finishing' => ReadItems' = {}
  BY <1>1, <1>9 DEF FreshInv, Finishing, Connecting
<1>13. FreshInv'
  BY <1>1, <1>7, <1>8, <1>11, <1>12 DEF FreshInv, Starting
<1>14. BufferUsers' \subseteq BufferUsers
  <2>1. \A g : g \in BufferUsers' => \/ \E o \in ReadOps' : o.future = g
                                     \/ \E i \in ReadItems' : ioQueue'[i].future = g
    <3>1. DOMAIN ioQueue' = 1..Len(ioQueue')
      BY <1>4
    <3> QED BY <3>1 DEF BufferUsers, ReadOps, ReadItems
  <2>2. /\ \A o \in ReadOps' : o.future \in BufferUsers
        /\ op \in ReadOps => op.future \in BufferUsers
    BY <1>1, <1>7, BuffersAre
  <2>3. \A i \in ReadItems' : ioQueue'[i].future \in BufferUsers
    BY <1>1, <1>2, <1>5, <2>2, BuffersAre
  <2> QED BY <2>1, <2>2, <2>3
<1> QED BY <1>1, <1>13, <1>14 DEF BufferInv, Starting

\* A call changes no operation and nothing in the queue, and starts a read only of a
\* connection that is Ready.
LEMMA CallReads ==
    ASSUME IInv, ~overlapped, alone, FreshInv, NEW m,
           \/ m = "connect" /\ connect(Io)
           \/ m = "disconnect" /\ disconnect(Io)
           \/ m = "close" /\ close(Io)
           \/ m \in {"read", "write"} /\ readOrWrite(Io, m)
    PROVE  /\ FreshInv' /\ BufferUsers' = BufferUsers /\ ~Finishing'
           /\ Starting' => m = "read" /\ calls + 1 \in Futures /\ future'[calls + 1] = "pending"
           /\ calls + 1 \in Futures => future'[calls + 1] # "finished" \/ m = "close"
<1>1. /\ Io \in Threads /\ TypeOK /\ pc[Io] = "idle"
      /\ pc \in [Threads -> {"idle", "checked", "store", "start"}] /\ job \in [Threads -> Jobs]
      /\ future \in [Futures -> {"unused", "pending", "finished", "failed"}]
      /\ UNCHANGED <<pending, ioQueue, connState>>
  BY ConnectsAre DEF connect, disconnect, close, readOrWrite, NewCall, TypeOK
<1>2. /\ ReadOps' = ReadOps /\ ReadItems' = ReadItems /\ BufferUsers' = BufferUsers
      /\ ConnectOps' = ConnectOps /\ ConnectItems' = ConnectItems
  BY <1>1 DEF ReadOps, ReadItems, BufferUsers, ConnectOps, ConnectItems
<1>3. calls + 1 \in Futures
  <2>1. calls < MaxCalls
    BY DEF connect, disconnect, close, readOrWrite, NewCall
  <2>2. calls \in 0..MaxCalls /\ MaxCalls \in Nat
    BY <1>1, SocketAssumption DEF TypeOK
  <2> QED BY <2>1, <2>2 DEF Futures
<1>4. \/ pc'[Io] \in {"idle", "checked"}
      \/ pc'[Io] = "store" /\ job'[Io].next = "postClose"
      \/ pc'[Io] = "start" /\ job'[Io].kind = m /\ connState = "Ready"
         /\ future'[calls + 1] = "pending"
  <2>1. CASE connect(Io)
    BY <1>1, <2>1 DEF connect, Refuse, Accept, thread
  <2>2. CASE disconnect(Io) \/ close(Io)
    BY <1>1, <2>2 DEF disconnect, close, closeSocketWithState, setConnectivityState
  <2>3. CASE readOrWrite(Io, m)
    <3>1. CASE connState = "Ready"
      <4>1. Accept(Io, calls + 1, "start", [NoJob EXCEPT !.next = "start", !.kind = m])
        BY <2>3, <3>1 DEF readOrWrite
      <4>2. job'[Io].kind = m
        BY <1>1, <4>1 DEF Accept, NoJob
      <4> QED BY <1>1, <1>3, <3>1, <4>1, <4>2 DEF Accept
    <3>2. CASE connState # "Ready"
      BY <1>1, <2>3, <3>2 DEF readOrWrite, Refuse, thread
    <3> QED BY <3>1, <3>2
  <2> QED BY <2>1, <2>2, <2>3
<1>5. future'[calls + 1] # "finished" \/ m = "close"
  BY <1>1, <1>3 DEF connect, disconnect, readOrWrite, Refuse, Accept
<1>6. Connecting' => Connecting /\ connState # "Ready"
  BY <1>1, <1>2, <1>4 DEF Connecting, FreshInv
<1>7. FreshInv' /\ ~Finishing'
  BY <1>1, <1>2, <1>4, <1>6 DEF FreshInv, Starting, Finishing
<1>8. Starting' => m = "read" /\ future'[calls + 1] = "pending"
  BY <1>4 DEF Starting
<1> QED BY <1>2, <1>3, <1>5, <1>7, <1>8


\* Items without such a turn, and with one at most.
Calm(items) == items \in Seq(Local) /\ ~Has(items, ReadTurns) /\ ~Has(items, Listens)
OneTurn(items) == items \in Seq(Local) /\ Once(items, ReadTurns) /\ ~Has(items, Listens)

LEMMA Sets0 ==
    /\ Local \subseteq Works /\ ReadTurns \subseteq Works /\ Answering \subseteq Local
    /\ \A x \in ReadTurns : x.do \in {"call", "tell"}
    /\ Late \subseteq Listens /\ \A x \in Listens : x.do = "listen"
    /\ Answering \cap ReadTurns = {} /\ Answering \cap Listens = {}
BY DEF Local, ReadTurns, Answering, Late, Listens

LEMMA CalmTurns ==
    /\ Calm(<<>>)
    /\ \A items : Calm(items) => OneTurn(items)
    /\ \A x \in Local : x.do # "listen" => /\ OneTurn(<<x>>)
                                           /\ x \notin ReadTurns => Calm(<<x>>)
<1>1. Calm(<<>>)
  <2>1. <<>> \in Seq(Local)
    OBVIOUS
  <2> QED BY <2>1 DEF Calm, Has
<1>2. \A items : Calm(items) => OneTurn(items)
  BY DEF Calm, OneTurn, Has, Once
<1>3. ASSUME NEW x \in Local, x.do # "listen"
      PROVE  OneTurn(<<x>>) /\ (x \notin ReadTurns => Calm(<<x>>))
  <2>1. <<x>> \in Seq(Local)
    OBVIOUS
  <2>2. x \notin Listens
    BY <1>3, Sets0
  <2> QED BY <2>1, <2>2, HasOne DEF Calm, OneTurn
<1> QED BY <1>1, <1>2, <1>3

LEMMA CalmConcat ==
    ASSUME NEW a, NEW b
    PROVE  /\ Calm(a) /\ Calm(b) => Calm(a \o b)
           /\ OneTurn(a) /\ Calm(b) => OneTurn(a \o b)
           /\ Calm(a) /\ OneTurn(b) => OneTurn(a \o b)
<1>1. ASSUME a \in Seq(Local), b \in Seq(Local), NEW C
      PROVE  /\ a \o b \in Seq(Local)
             /\ Has(a \o b, C) <=> Has(a, C) \/ Has(b, C)
             /\ Once(a, C) /\ Once(b, C) /\ ~(Has(a, C) /\ Has(b, C)) => Once(a \o b, C)
  BY <1>1, HasConcat
<1>2. \A items, C : ~Has(items, C) => Once(items, C)
  BY DEF Has, Once
<1>3. Calm(a) /\ Calm(b) => Calm(a \o b)
  BY <1>1 DEF Calm
<1>4. OneTurn(a) /\ Calm(b) => OneTurn(a \o b)
  BY <1>1, <1>2 DEF Calm, OneTurn
<1>5. Calm(a) /\ OneTurn(b) => OneTurn(a \o b)
  BY <1>1, <1>2 DEF Calm, OneTurn
<1> QED BY <1>3, <1>4, <1>5

\* Where an event goes from a stage of the pipeline: not back to the first stage, but
\* for what is read.
LEMMA NextStage ==
    ASSUME PipeInv, NEW s, InPipe(s)
    PROVE  /\ s \in AllStages
           /\ pipe.next[s] = NoStage \/ (InPipe(pipe.next[s]) /\ pipe.next[s] # FirstStage)
           /\ s = LastStage => pipe.next[s] = NoStage
<1>1. PICK a \in Seq(Stages) :
          /\ IsInjective(a) /\ Linked(pipe, a)
          /\ \A x : InPipe(x) <=> \E i \in 1..Len(a) + 2 : Chain(a)[i] = x
  BY PipeChain
<1> DEFINE n == Len(a) + 2
           c == Chain(a)
<1>2. /\ Len(a) \in Nat /\ c[1] = FirstStage /\ c[n] = LastStage
      /\ \A i \in 1..n : c[i] \in AllStages
      /\ \A i, j \in 1..n : c[i] = c[j] => i = j
  BY <1>1, ChainStages
<1>3. /\ \A i \in 1..Len(a) + 1 : pipe.next[c[i]] = c[i + 1]
      /\ pipe.next[LastStage] = NoStage
  BY <1>1 DEF Linked
<1>4. PICK i \in 1..n : c[i] = s
  BY <1>1
<1>5. \A x : (\E j \in 1..n : c[j] = x) => InPipe(x)
  BY <1>1
<1> HIDE DEF c
<1>6. CASE i = n
  BY <1>2, <1>3, <1>4, <1>6
<1>7. CASE i # n
  <2>1. i \in 1..Len(a) + 1 /\ i + 1 \in 1..n /\ i + 1 # 1 /\ 1 \in 1..n /\ n \in 1..n
    BY <1>2, <1>7
  <2>2. pipe.next[s] = c[i + 1]
    BY <1>3, <1>4, <2>1
  <2>3. c[i + 1] # FirstStage
    BY <1>2, <2>1
  <2>4. s # LastStage
    BY <1>2, <1>4, <1>7, <2>1
  <2> QED BY <1>2, <1>4, <1>5, <2>1, <2>2, <2>3, <2>4
<1> QED BY <1>6, <1>7

LEMMA LocalFollows ==
    ASSUME PipeInv, NEW s, InPipe(s), NEW e \in Events
    PROVE  LET f == Following(pipe, e, s)
           IN  /\ f = NoStage \/ (f \in AllStages /\ InPipe(f))
               /\ e \notin {"read", "readComplete"} /\ f # NoStage => f # FirstStage
               /\ e \in {"read", "readComplete"} /\ s = FirstStage => f = NoStage
<1>1. /\ s \in AllStages /\ FirstStage \in Reading \ Writing
      /\ pipe.next[s] = NoStage \/ (InPipe(pipe.next[s]) /\ pipe.next[s] # FirstStage)
      /\ s = LastStage => pipe.next[s] = NoStage
  BY NextStage, PipelineAssumption
<1> DEFINE w == findWritableStage(pipe, s)
           d == findReadableStage(pipe, s)
           f == Following(pipe, e, s)
<1>2. /\ w = NoStage \/ (InPipe(w) /\ w \in Writing) \/ w = pipe.next[s]
      /\ InPipe(s) /\ s # LastStage => InPipe(w) /\ w \in Writing /\ w # FirstStage
  BY <1>1, Writable
<1>3. /\ d = NoStage \/ (InPipe(d) /\ d \in Reading) \/ d = pipe.prev[s]
      /\ InPipe(s) /\ s # FirstStage => InPipe(d) /\ d \in Reading
      /\ s = FirstStage => d = NoStage
  BY <1>1, Readable
<1> HIDE DEF w, d
<1>4. \/ e \in {"active", "inactive", "exception"} /\ f = pipe.next[s]
      \/ e \in {"write", "writeComplete"} /\ f = w
      \/ e \in {"read", "readComplete"} /\ f = d
  <2>1. /\ e \in {"active", "inactive", "exception"} => f = pipe.next[s]
        /\ e \in {"write", "writeComplete"} => f = w
        /\ e \in {"read", "readComplete"} => f = d
    BY DEF Following, w, d
  <2> QED BY <2>1 DEF Events
<1> HIDE DEF f
<1>5. f = NoStage \/ InPipe(f)
  BY <1>1, <1>2, <1>3, <1>4
<1>6. InPipe(f) => f \in AllStages
  BY NextStage
<1>7. e \notin {"read", "readComplete"} /\ f # NoStage => f # FirstStage
  BY <1>1, <1>2, <1>4
<1>8. e \in {"read", "readComplete"} /\ s = FirstStage => f = NoStage
  BY <1>3, <1>4
<1> QED BY <1>5, <1>6, <1>7, <1>8 DEF f

\* What the code makes, in a pipeline without executors: only a read, or the
\* completion of one, is passed on as a turn to read.
LEMMA LocalMade ==
    /\ \A e \in Events, s \in AllStages, n \in Requests \cup {0} :
          InPipe(s) /\ (e = "exception" => s # FirstStage) => Work("tell", e, s, n) \in Local
    /\ \A m \in Methods, n \in Requests \cup {0} : Work("call", m, NoStage, n) \in Local
    /\ Work("throw", "none", NoStage, 0) \in Local /\ Work("endTry", "none", NoStage, 0) \in Local
    /\ \A r \in Requests : Work("answer", "none", NoStage, r) \in Answering
    /\ \A f \in Futures : Work("listen", "none", NoStage, f) \in Local
BY Numbers DEF Work, Works, Local, Answering

LEMMA LocalInvokes ==
    ASSUME PipeInv, NoRemote, NEW s, InPipe(s), NEW e \in Events, NEW n \in Requests \cup {0}
    PROVE  /\ OneTurn(invoke(e, s, n))
           /\ e \notin {"read", "readComplete"} \/ s = FirstStage => Calm(invoke(e, s, n))
<1> DEFINE f == Following(pipe, e, s)
           x == Work("tell", e, f, n)
<1>1. /\ f = NoStage \/ (f \in AllStages /\ InPipe(f))
      /\ e \notin {"read", "readComplete"} /\ f # NoStage => f # FirstStage
      /\ e \in {"read", "readComplete"} /\ s = FirstStage => f = NoStage
  BY LocalFollows
<1>2. InPipe(f) => f \notin Remote
  BY PipelineAssumption DEF InPipe, NoRemote
<1>3. invoke(e, s, n) = IF f = NoStage THEN <<>>
                        ELSE IF f \in Remote THEN <<Work("post", e, f, n)>> ELSE <<x>>
  BY DEF invoke, Tell
<1>4. x.do = "tell" /\ x.what = e /\ x.stage = f
  BY DEF Work
<1>5. f # NoStage => x \in Local
  BY <1>1, LocalMade
<1>6. e \notin {"read", "readComplete"} /\ f # NoStage => x \notin ReadTurns
  BY <1>1, <1>4 DEF ReadTurns
<1> HIDE DEF f, x
<1>7. CASE f = NoStage
  <2>1. invoke(e, s, n) = <<>>
    BY <1>3, <1>7
  <2> QED BY <2>1, CalmTurns
<1>8. CASE f # NoStage
  <2>1. invoke(e, s, n) = <<x>>
    BY <1>1, <1>2, <1>3, <1>8
  <2> QED BY <1>1, <1>4, <1>5, <1>6, <1>8, <2>1, CalmTurns
<1> QED BY <1>7, <1>8

LEMMA LocalItems ==
    ASSUME PipeInv
    PROVE  /\ Calm(EndTry) /\ Calm(Throw)
           /\ \A m \in Methods, n \in Requests \cup {0} :
                 /\ OneTurn(CallOf(m, n))
                 /\ m # "read" => Calm(CallOf(m, n))
           /\ \A r \in Requests \cup {0} : Calm(Answer(r))
           /\ \A e \in {"active", "read", "readComplete"} : OneTurn(Notify(e))
           /\ \A e \in {"inactive", "writeComplete"} : Calm(Notify(e))
           /\ \A r \in Requests : Calm(WriteTask(r))
           /\ Calm(Exceptions)
<1>1. Calm(EndTry) /\ Calm(Throw)
  <2>1. /\ Work("throw", "none", NoStage, 0).do = "throw"
        /\ Work("endTry", "none", NoStage, 0).do = "endTry"
    BY DEF Work
  <2> QED BY <2>1, LocalMade, CalmTurns, Sets0 DEF EndTry, Throw
<1>2. ASSUME NEW m \in Methods, NEW n \in Requests \cup {0}
      PROVE  OneTurn(CallOf(m, n)) /\ (m # "read" => Calm(CallOf(m, n)))
  <2> DEFINE x == Work("call", m, NoStage, n)
  <2>1. x.do = "call" /\ x.what = m /\ x \in Local
    BY LocalMade DEF Work
  <2> HIDE DEF x
  <2>2. m # "read" => x \notin ReadTurns
    BY <2>1 DEF ReadTurns
  <2> QED BY <2>1, <2>2, CalmTurns DEF CallOf, x
<1>3. ASSUME NEW r \in Requests \cup {0} PROVE Calm(Answer(r))
  <2>1. CASE r = 0
    BY <2>1, CalmTurns DEF Answer
  <2>2. CASE r # 0
    <3>1. r \in Requests /\ Answer(r) = <<Work("answer", "none", NoStage, r)>>
      BY <2>2 DEF Answer
    <3>2. /\ Work("answer", "none", NoStage, r) \in Answering
          /\ Work("answer", "none", NoStage, r).do = "answer"
      BY <3>1, LocalMade DEF Work
    <3>3. /\ Work("answer", "none", NoStage, r) \in Local
          /\ Work("answer", "none", NoStage, r) \notin ReadTurns
      BY <3>2, Sets0
    <3> QED BY <3>1, <3>2, <3>3, CalmTurns
  <2> QED BY <2>1, <2>2
<1>4. /\ FirstStage \in AllStages /\ LastStage \in AllStages /\ FirstStage # LastStage
      /\ InPipe(FirstStage) /\ InPipe(LastStage) /\ FirstStage \notin Stages
  BY PipelineAssumption DEF AllStages, InPipe
<1>5. /\ \A e \in {"active", "inactive", "writeComplete"} : Head(Entry(pipe, e)) = FirstStage
      /\ \A e \in {"read", "readComplete"} : Head(Entry(pipe, e)) = LastStage
  <2>1. /\ \A e \in {"active", "inactive", "writeComplete"} : Entry(pipe, e) = <<FirstStage>>
        /\ \A e \in {"read", "readComplete"} : Entry(pipe, e) = <<LastStage>>
    BY DEF Entry
  <2> QED BY <2>1
<1>6. ASSUME NEW e \in Events, NEW s \in AllStages, NEW n \in Requests \cup {0}, InPipe(s),
             e = "exception" => s # FirstStage
      PROVE  /\ OneTurn(Tell(e, s, n))
             /\ e \notin {"active", "read", "readComplete"} => Calm(Tell(e, s, n))
  <2> DEFINE x == Work("tell", e, s, n)
  <2>1. x.do = "tell" /\ x.what = e /\ x \in Local
    BY <1>6, LocalMade DEF Work
  <2> HIDE DEF x
  <2>2. e \notin {"active", "read", "readComplete"} => x \notin ReadTurns
    BY <2>1 DEF ReadTurns
  <2> QED BY <2>1, <2>2, CalmTurns DEF Tell, x
<1>7. ASSUME NEW e \in {"active", "inactive", "writeComplete", "read", "readComplete"}
      PROVE  /\ OneTurn(Notify(e))
             /\ e \in {"inactive", "writeComplete"} => Calm(Notify(e))
  <2> DEFINE s == Head(Entry(pipe, e))
  <2>1. s \in AllStages /\ InPipe(s) /\ e \in Events /\ e # "exception"
    BY <1>4, <1>5 DEF Events
  <2> HIDE DEF s
  <2>2. OneTurn(Tell(e, s, 0)) /\ (e \in {"inactive", "writeComplete"} => Calm(Tell(e, s, 0)))
    BY <1>6, <2>1
  <2> QED BY <1>1, <2>2, CalmConcat DEF Notify, s
<1>8. ASSUME NEW r \in Requests PROVE Calm(WriteTask(r))
  <2> DEFINE s == Head(Entry(pipe, "write"))
  <2>1. s \in AllStages /\ InPipe(s) /\ "write" \in Events
    BY Begins DEF Events
  <2> HIDE DEF s
  <2>2. Calm(Tell("write", s, r))
    BY <1>6, <2>1
  <2> QED BY <1>1, <2>2, CalmConcat DEF WriteTask, s
<1>9. Calm(Exceptions)
  <2> DEFINE told == Entry(pipe, "exception")
  <2>1. PICK a \in Seq(Stages) : Linked(pipe, a)
    BY PipeChain
  <2>2. pipe.stages \in Seq(Stages) /\ told = Append(pipe.stages, LastStage)
    BY <2>1 DEF Linked, Pipes, Entry
  <2>3. /\ Len(told) \in Nat /\ DOMAIN told = 1..Len(told)
        /\ \A i \in 1..Len(told) :
              told[i] \in AllStages /\ InPipe(told[i]) /\ told[i] # FirstStage
    <3>1. /\ Len(pipe.stages) \in Nat /\ DOMAIN pipe.stages = 1..Len(pipe.stages)
          /\ \A i \in 1..Len(pipe.stages) : pipe.stages[i] \in Stages /\ InPipe(pipe.stages[i])
      BY <2>2 DEF InPipe, Range
    <3>2. /\ Len(told) = Len(pipe.stages) + 1 /\ told[Len(told)] = LastStage
          /\ \A i \in 1..Len(pipe.stages) : told[i] = pipe.stages[i]
          /\ DOMAIN told = 1..Len(told)
      BY <2>2, <3>1
    <3>3. \A i \in 1..Len(told) : i \in 1..Len(pipe.stages) \/ i = Len(told)
      BY <3>1, <3>2
    <3> HIDE DEF told
    <3> QED BY <1>4, <3>1, <3>2, <3>3 DEF AllStages
  <2>4. Exceptions = [i \in 1..Len(told) |-> Work("tell", "exception", told[i], 0)]
    BY <2>3 DEF Exceptions
  <2> HIDE DEF told
  <2>5. \A i \in 1..Len(told) : LET x == Work("tell", "exception", told[i], 0)
                                IN  x \in Local /\ x \notin ReadTurns /\ x \notin Listens
    <3> TAKE i \in 1..Len(told)
    <3> DEFINE x == Work("tell", "exception", told[i], 0)
    <3>1. x.do = "tell" /\ x.what = "exception" /\ x \in Local
      BY <2>3, LocalMade DEF Work, Events
    <3> HIDE DEF x
    <3>2. x \notin ReadTurns /\ x \notin Listens
      BY <3>1 DEF ReadTurns, Listens
    <3> QED BY <3>1, <3>2 DEF x
  <2>6. Exceptions \in Seq(Local) /\ Len(Exceptions) = Len(told)
    BY <2>3, <2>4, <2>5, IsASeq
  <2> QED BY <2>3, <2>4, <2>5, <2>6 DEF Calm, Has
<1> QED BY <1>1, <1>2, <1>3, <1>7, <1>8, <1>9


------------------------------------------------------------------------------
\* What the threads of a pipeline without executors do next.

WorkersAnswer == \A i \in 1..Len(tasks) : tasks[i] \in Seq(Answering)

\* What leaves the handler alone leaves its reads alone.
LEMMA SameReads ==
    ASSUME UNCHANGED <<vars, pipe>>
    PROVE  /\ NoRemote' = NoRemote /\ Local' = Local /\ Late' = Late
           /\ (FreshInv <=> FreshInv') /\ (BufferInv <=> BufferInv')
           /\ BufferUsers' = BufferUsers /\ (Starting' <=> Starting)
           /\ (alone' <=> alone) /\ (overlapped' <=> overlapped) /\ pc'[Io] = pc[Io]
<1>1. UNCHANGED <<pending, ioQueue, connState, method, future, pc, job, alone, overlapped, pipe>>
  BY DEF vars, thread, record
<1>2. NoRemote' = NoRemote /\ Local' = Local /\ Late' = Late
  BY <1>1 DEF NoRemote, Local, InPipe, Late
<1>3. BufferUsers' = BufferUsers
  BY <1>1 DEF BufferUsers
<1>4. Starting' <=> Starting
  BY <1>1 DEF Starting
<1>5. /\ ReadOps' = ReadOps /\ ReadItems' = ReadItems
      /\ ConnectOps' = ConnectOps /\ ConnectItems' = ConnectItems
      /\ (Connecting' <=> Connecting) /\ (Finishing' <=> Finishing)
  BY <1>1 DEF ReadOps, ReadItems, ConnectOps, ConnectItems, Connecting, Finishing
<1>6. FreshInv <=> FreshInv'
  BY <1>1, <1>4, <1>5 DEF FreshInv
<1>7. BufferInv <=> BufferInv'
  BY <1>3, <1>4 DEF BufferInv
<1> QED BY <1>1, <1>2, <1>3, <1>4, <1>6, <1>7

\* Items that the io thread may have left: none leads to a read that did not before.
Follow(s) ==
    /\ s \in Seq(Local) /\ ~Has(s, Late)
    /\ Once(todo[Io], ReadTurns) =>
          Once(s, ReadTurns) /\ (Has(s, ReadTurns) => Has(todo[Io], ReadTurns))

LEMMA LeftFollows ==
    ASSUME NEW s, s \in Seq(Local)
    PROVE  /\ Left(s) \in Seq(Local)
           /\ \A C : C \in {ReadTurns, Listens, Late} =>
                 (Has(Left(s), C) <=> Has(s, C)) /\ (Once(s, C) => Once(Left(s), C))
<1>1. Local \subseteq Works
  BY Sets0
<1>2. \A C : C \in {ReadTurns, Listens, Late} => \A x \in C : x.do # "endTry"
  BY Sets0
<1>3. /\ Left(s) \in Seq(Local)
      /\ \A C : (\A x \in C : x.do # "endTry") =>
            (Has(Left(s), C) <=> Has(s, C)) /\ (Once(s, C) => Once(Left(s), C))
  BY <1>1, LeftKeeps
<1> QED BY <1>2, <1>3

\* The io thread turns to other items, and the handler rests.
LEMMA IoTurns ==
    ASSUME WorkInv, OneInv, NoRemote, NEW s, Follow(s), Becomes(Io, s), UNCHANGED <<vars, pipe>>,
           pc[Io] = "idle", WorkersAnswer'
    PROVE  OneInv'
<1>1. todo \in [Threads -> Seq(Works)] /\ Io \in Threads /\ Io \notin Users
      /\ \A u \in Users : u \in Threads
  BY SocketAssumption DEF WorkInv, ContextTypeOK, Threads
<1>2. todo'[Io] = Left(s) /\ \A u \in Users : todo'[u] = todo[u]
  BY <1>1 DEF Becomes
<1>3. LocalInv /\ (~overlapped => FreshInv /\ BufferInv /\ TurnInv)
  BY DEF OneInv
<1>4. LocalInv'
  <2>1. todo'[Io] \in Seq(Local') /\ ~Has(todo'[Io], Late')
    BY <1>2, LeftFollows, SameReads DEF Follow
  <2>2. alone' /\ pc'[Io] = "idle"
    BY <1>3, SameReads DEF LocalInv
  <2>3. \A u \in Users : todo'[u] \in Seq(Answering)
    BY <1>2, <1>3 DEF LocalInv
  <2> QED BY <2>1, <2>2, <2>3 DEF LocalInv, WorkersAnswer
<1>5. ASSUME ~overlapped' PROVE FreshInv' /\ BufferInv' /\ TurnInv'
  <2>1. FreshInv /\ BufferInv /\ TurnInv
    BY <1>3, <1>5, SameReads
  <2>2. Once(s, ReadTurns) /\ (Has(s, ReadTurns) => Has(todo[Io], ReadTurns))
    BY <2>1 DEF Follow, TurnInv
  <2>3. Once(todo'[Io], ReadTurns) /\ (Has(todo'[Io], ReadTurns) => Has(todo[Io], ReadTurns))
    BY <1>2, <2>2, LeftFollows DEF Follow
  <2>4. TurnInv'
    BY <2>1, <2>3, SameReads DEF TurnInv
  <2> QED BY <2>1, <2>4, SameReads
<1> QED BY <1>4, <1>5 DEF OneInv

\* The io thread stays at what it does, and the handler rests.
LEMMA OthersTurn ==
    ASSUME OneInv, NoRemote, UNCHANGED <<vars, pipe>>, todo'[Io] = todo[Io], WorkersAnswer',
           \A u \in Users : todo'[u] \in Seq(Answering)
    PROVE  OneInv'
<1>1. LocalInv /\ (~overlapped => FreshInv /\ BufferInv /\ TurnInv)
  BY DEF OneInv
<1>2. pc'[Io] = pc[Io] /\ job'[Io] = job[Io]
  BY DEF vars, thread
<1>3. LocalInv'
  BY <1>1, <1>2, SameReads DEF LocalInv, WorkersAnswer
<1>4. ~overlapped' => FreshInv' /\ BufferInv' /\ TurnInv'
  BY <1>1, SameReads DEF TurnInv
<1> QED BY <1>3, <1>4 DEF OneInv

\* It does the first item, which becomes others: a turn to read only of a turn to read.
LEMMA ItemFollows ==
    ASSUME LocalInv, todo[Io] # <<>>, NEW items,
           Calm(items) \/ (OneTurn(items) /\ Head(todo[Io]) \in ReadTurns)
    PROVE  Follow(items \o Tail(todo[Io]))
<1> DEFINE d == todo[Io]
           s == items \o Tail(d)
<1>1. d \in Seq(Local) /\ d # <<>> /\ ~Has(d, Late) /\ items \in Seq(Local)
      /\ ~Has(items, Listens)
  BY DEF LocalInv, Calm, OneTurn
<1>2. Calm(items) => OneTurn(items) /\ ~Has(items, ReadTurns)
  BY CalmTurns DEF Calm
<1> HIDE DEF d
<1>3. Tail(d) \in Seq(Local) /\ ~Has(Tail(d), Late)
  <2>1. Once(d, Late)
    BY <1>1 DEF Has, Once
  <2> QED BY <1>1, <2>1, HasTail
<1>4. ~Has(items, Late)
  BY <1>1, Sets0 DEF Has
<1>5. s \in Seq(Local) /\ ~Has(s, Late)
  BY <1>1, <1>3, <1>4, HasConcat
<1>6. ASSUME Once(d, ReadTurns)
      PROVE  Once(s, ReadTurns) /\ (Has(s, ReadTurns) => Has(d, ReadTurns))
  <2>1. /\ Once(Tail(d), ReadTurns)
        /\ Has(d, ReadTurns) <=> Head(d) \in ReadTurns \/ Has(Tail(d), ReadTurns)
        /\ Head(d) \in ReadTurns => ~Has(Tail(d), ReadTurns)
    BY <1>1, <1>6, HasTail
  <2>2. Once(items, ReadTurns) /\ (Has(items, ReadTurns) => Head(d) \in ReadTurns)
    BY <1>2 DEF OneTurn, d
  <2>3. /\ Has(items \o Tail(d), ReadTurns) <=> Has(items, ReadTurns) \/ Has(Tail(d), ReadTurns)
        /\ Once(items, ReadTurns) /\ Once(Tail(d), ReadTurns)
           /\ ~(Has(items, ReadTurns) /\ Has(Tail(d), ReadTurns))
           => Once(items \o Tail(d), ReadTurns)
    BY <1>1, <1>3, HasConcat
  <2> QED BY <2>1, <2>2, <2>3
<1> QED BY <1>5, <1>6 DEF Follow, d

LEMMA ItemTurns ==
    ASSUME WorkInv, OneInv, NoRemote, NEW items, todo[Io] # <<>>, Replace(Io, items),
           Calm(items) \/ (OneTurn(items) /\ Head(todo[Io]) \in ReadTurns),
           UNCHANGED <<vars, pipe>>, pc[Io] = "idle", WorkersAnswer'
    PROVE  OneInv'
<1>1. LocalInv
  BY DEF OneInv
<1>2. Follow(items \o Tail(todo[Io]))
  BY <1>1, ItemFollows
<1> DEFINE s == items \o Tail(todo[Io])
<1>3. Becomes(Io, s) /\ Follow(s)
  BY <1>2 DEF Replace
<1> HIDE DEF s
<1> QED BY <1>3, IoTurns

\* Only the io thread does more than to answer.
LEMMA IoDoes ==
    ASSUME WorkInv, ListenInv, OneInv, NoRemote, NEW t \in Threads, NEW do, Doing(t, do)
    PROVE  LET x == Head(todo[t])
           IN  /\ todo[t] # <<>> /\ pc[t] = "idle" /\ x.do = do /\ x \in Local /\ x \in Sound
               /\ do # "answer" => t = Io
               /\ t = Io => ~(x \in Late)
               /\ WorkersAnswer
<1> DEFINE x == Head(todo[t])
<1>1. todo[t] # <<>> /\ pc[t] = "idle" /\ x.do = do
  BY DEF Doing
<1>2. x \in Sound /\ todo[t][1] = x /\ 1 \in 1..Len(todo[t])
  BY <1>1, Stacks
<1>3. LocalInv
  BY DEF OneInv
<1>4. t = Io => x \in Local /\ x \notin Late
  <2> SUFFICES ASSUME t = Io PROVE x \in Local /\ x \notin Late
    OBVIOUS
  <2>1. todo[t] \in Seq(Local) /\ ~Has(todo[t], Late)
    BY <1>3 DEF LocalInv
  <2> QED BY <1>1, <1>2, <2>1 DEF Has
<1>5. t # Io => x \in Answering
  <2> SUFFICES ASSUME t # Io PROVE x \in Answering
    OBVIOUS
  <2>1. todo[t] \in Seq(Answering)
    BY <1>3 DEF LocalInv, Threads
  <2> QED BY <1>1, <1>2, <2>1
<1>6. x \in Answering => x.do = "answer" /\ x \in Local
  BY Sets0 DEF Answering
<1>7. WorkersAnswer
  BY <1>3 DEF LocalInv, WorkersAnswer
<1> HIDE DEF x
<1> QED BY <1>1, <1>2, <1>4, <1>5, <1>6, <1>7 DEF x

\* An event is passed on as a turn to read only if it was one.
LEMMA InvokeFollows ==
    ASSUME PipeInv, NoRemote, NEW x \in Local, x \in Sound, x.do = "tell"
    PROVE  /\ x.stage \in AllStages /\ InPipe(x.stage) /\ x.what \in Events
           /\ x.n \in Requests \cup {0}
           /\ x.what \in {"read", "readComplete"} => x \in ReadTurns
           /\ LET items == invoke(x.what, x.stage, x.n)
              IN  Calm(items) \/ (OneTurn(items) /\ x \in ReadTurns)
<1>1. /\ x.stage \in AllStages /\ InPipe(x.stage) /\ x.what \in Events
      /\ x.n \in Requests \cup {0} /\ x \in Works
  BY DEF Local, Sound
<1>2. x.what \in {"read", "readComplete"} => x \in ReadTurns
  BY <1>1 DEF ReadTurns
<1>3. /\ OneTurn(invoke(x.what, x.stage, x.n))
      /\ x.what \notin {"read", "readComplete"} \/ x.stage = FirstStage
            => Calm(invoke(x.what, x.stage, x.n))
  BY <1>1, LocalInvokes
<1> QED BY <1>1, <1>2, <1>3

LEMMA FirstTurns ==
    ASSUME ContextIInv, OneInv, NoRemote, NEW t \in Threads, tellFirst(t)
    PROVE  OneInv'
<1> DEFINE x == Head(todo[t])
           items == StreamReadStage(x.what)
<1>1. /\ PipeInv /\ WorkInv /\ ListenInv /\ Doing(t, "tell") /\ x.stage = FirstStage
      /\ Replace(t, items) /\ UNCHANGED <<vars, pipe, tasks>>
  BY DEF ContextIInv, tellFirst
<1>2. /\ todo[t] # <<>> /\ pc[t] = "idle" /\ x.do = "tell" /\ x \in Local /\ x \in Sound
      /\ t = Io /\ WorkersAnswer
  BY <1>1, IoDoes
<1> HIDE DEF x
<1>3. /\ x.what \in Events /\ InPipe(FirstStage) /\ x \in Works
      /\ x.what \in {"active", "readComplete", "read"} => x \in ReadTurns
      /\ x.what # "exception"
  BY <1>1, <1>2 DEF Local, Sound, ReadTurns
<1>4. FirstStage \in AllStages /\ 0 \in Requests \cup {0} /\ "read" \in Methods
  BY DEF AllStages, Methods
<1>5. \A e \in Events : e # "exception" => Calm(invoke(e, FirstStage, 0))
  BY <1>1, <1>3, <1>4, LocalInvokes
<1>6. OneTurn(CallOf("read", 0)) /\ OneTurn(Notify("readComplete"))
  BY <1>1, <1>4, LocalItems
<1>7. Calm(items) \/ (OneTurn(items) /\ x \in ReadTurns)
  <2>1. CASE x.what \in {"active", "readComplete"}
    <3>1. items = CallOf("read", 0) \o invoke(x.what, FirstStage, 0)
      BY <2>1 DEF StreamReadStage
    <3>2. Calm(invoke(x.what, FirstStage, 0))
      BY <1>3, <1>5
    <3>3. OneTurn(CallOf("read", 0) \o invoke(x.what, FirstStage, 0))
      BY <1>6, <3>2, CalmConcat
    <3> QED BY <1>3, <2>1, <3>1, <3>3
  <2>2. CASE x.what = "read"
    <3>1. items = Notify("readComplete")
      BY <2>2 DEF StreamReadStage
    <3> QED BY <1>3, <1>6, <2>2, <3>1
  <2>3. CASE x.what \notin {"active", "readComplete", "read"}
    <3>1. items = invoke(x.what, FirstStage, 0)
      BY <1>3, <2>3 DEF StreamReadStage
    <3> QED BY <1>3, <1>5, <3>1
  <2> QED BY <2>1, <2>2, <2>3
<1> HIDE DEF items
<1>8. WorkersAnswer'
  BY <1>1, <1>2 DEF WorkersAnswer
<1> QED BY <1>1, <1>2, <1>7, <1>8, ItemTurns DEF x

LEMMA LastTurns ==
    ASSUME ContextIInv, OneInv, NoRemote, NEW t \in Threads, tellLast(t)
    PROVE  OneInv'
<1> DEFINE x == Head(todo[t])
           items == IOWriteStage(x.what, x.n)
<1>1. /\ PipeInv /\ WorkInv /\ ListenInv /\ Doing(t, "tell") /\ x.stage = LastStage
      /\ Replace(t, items) /\ UNCHANGED <<vars, pipe, tasks>>
  BY DEF ContextIInv, tellLast
<1>2. /\ todo[t] # <<>> /\ pc[t] = "idle" /\ x.do = "tell" /\ x \in Local /\ x \in Sound
      /\ t = Io /\ WorkersAnswer
  BY <1>1, IoDoes
<1> HIDE DEF x
<1>3. Calm(items) \/ (OneTurn(items) /\ x \in ReadTurns)
  <2>1. /\ x.n \in Requests \cup {0}
        /\ Calm(invoke(x.what, LastStage, x.n))
           \/ (OneTurn(invoke(x.what, LastStage, x.n)) /\ x \in ReadTurns)
    BY <1>1, <1>2, InvokeFollows
  <2>2. Calm(CallOf("write", x.n))
    <3>1. "write" \in Methods /\ "write" # "read"
      BY DEF Methods
    <3> QED BY <1>1, <2>1, <3>1, LocalItems
  <2> QED BY <2>1, <2>2 DEF IOWriteStage
<1> HIDE DEF items
<1>4. WorkersAnswer'
  BY <1>1, <1>2 DEF WorkersAnswer
<1> QED BY <1>1, <1>2, <1>3, <1>4, ItemTurns DEF x

LEMMA StageTurns ==
    ASSUME ContextIInv, OneInv, NoRemote, NEW t \in Threads, NEW reaction \in ReactionNames,
           tellStage(t, reaction)
    PROVE  OneInv'
<1> DEFINE x == Head(todo[t])
           items == UserStage(x.what, x.stage, x.n, reaction)
           on == invoke(x.what, x.stage, x.n)
<1>1. /\ PipeInv /\ WorkInv /\ ListenInv /\ Doing(t, "tell")
      /\ reaction # "write" /\ <<x.stage, x.what, reaction>> \in Reactions
      /\ Replace(t, items) /\ UNCHANGED <<vars, pipe, tasks>>
  BY DEF ContextIInv, tellStage
<1>2. /\ todo[t] # <<>> /\ pc[t] = "idle" /\ x.do = "tell" /\ x \in Local /\ x \in Sound
      /\ t = Io /\ WorkersAnswer
  BY <1>1, IoDoes
<1> HIDE DEF x
<1>3. /\ x.stage \in AllStages /\ InPipe(x.stage) /\ x.n \in Requests \cup {0}
      /\ x.what \in {"read", "readComplete"} => x \in ReadTurns
      /\ Calm(on) \/ (OneTurn(on) /\ x \in ReadTurns)
  BY <1>1, <1>2, InvokeFollows
<1>4. OneTurn(invoke("readComplete", x.stage, 0))
  <2>1. "readComplete" \in Events /\ 0 \in Requests \cup {0}
    BY DEF Events
  <2> QED BY <1>1, <1>3, <2>1, LocalInvokes
<1>5. /\ reaction = "skip" => x \in ReadTurns
  <2>1. ASSUME reaction = "skip" PROVE x.what \in {"read", "readComplete"}
    <3> DEFINE e == <<x.stage, x.what, reaction>>
    <3>1. e \in Reactions /\ e[2] = x.what /\ e[3] = "skip"
      BY <1>1, <2>1
    <3> HIDE DEF e
    <3> QED BY <3>1, SkipAssumption
  <2> QED BY <1>3, <2>1
<1>6. Calm(<<>>) /\ Calm(Throw) /\ Calm(CallOf("connect", 0)) /\ Calm(CallOf("disconnect", 0))
  <2>1. {"connect", "disconnect"} \subseteq Methods /\ 0 \in Requests \cup {0}
    BY DEF Methods
  <2> QED BY <1>1, <2>1, LocalItems, CalmTurns
<1> HIDE DEF on
<1>7. /\ Calm(on \o Throw) \/ (OneTurn(on \o Throw) /\ x \in ReadTurns)
      /\ \/ Calm(CallOf("connect", 0) \o on)
         \/ OneTurn(CallOf("connect", 0) \o on) /\ x \in ReadTurns
  BY <1>3, <1>6, CalmConcat
<1>8. \/ items = on
      \/ items = <<>>
      \/ reaction = "skip" /\ items = invoke("readComplete", x.stage, 0)
      \/ items = Throw
      \/ items = on \o Throw
      \/ items = CallOf("connect", 0) \o on
      \/ items = CallOf("disconnect", 0)
  <2>1. /\ reaction = "forward" => items = on
        /\ reaction = "keep" => items = <<>>
        /\ reaction = "skip" => items = invoke("readComplete", x.stage, 0)
        /\ reaction = "throw" => items = Throw
        /\ reaction = "throwAfter" => items = on \o Throw
        /\ reaction = "connect" => items = CallOf("connect", 0) \o on
        /\ reaction = "disconnect" => items = CallOf("disconnect", 0)
    BY DEF UserStage, on
  <2> HIDE DEF items
  <2> QED BY <1>1, <2>1 DEF ReactionNames
<1> HIDE DEF items
<1>9. Calm(items) \/ (OneTurn(items) /\ x \in ReadTurns)
  BY <1>3, <1>4, <1>5, <1>6, <1>7, <1>8
<1>10. WorkersAnswer'
  BY <1>1, <1>2 DEF WorkersAnswer
<1> QED BY <1>1, <1>2, <1>9, <1>10, ItemTurns DEF x

LEMMA WriteTurns ==
    ASSUME ContextIInv, OneInv, NoRemote, NEW t \in Threads, stageWrites(t)
    PROVE  OneInv'
<1> DEFINE r == written + 1
<1>1. /\ PipeInv /\ WorkInv /\ ListenInv /\ Doing(t, "tell") /\ written < MaxWrites
      /\ t = Io => Replace(t, WriteTask(r))
      /\ UNCHANGED <<vars, pipe, tasks>>
  BY DEF ContextIInv, stageWrites
<1>2. todo[t] # <<>> /\ pc[t] = "idle" /\ t = Io /\ WorkersAnswer
  BY <1>1, IoDoes
<1>3. r \in Requests
  BY <1>1, IOPipelineAssumption DEF WorkInv, ContextTypeOK, Requests
<1> HIDE DEF r
<1>4. Calm(WriteTask(r))
  BY <1>1, <1>3, LocalItems
<1>5. WorkersAnswer'
  BY <1>1, <1>2 DEF WorkersAnswer
<1> QED BY <1>1, <1>2, <1>4, <1>5, ItemTurns

LEMMA NoPosts ==
    ASSUME ContextIInv, OneInv, NoRemote, NEW t \in Threads, post(t)
    PROVE  FALSE
<1>1. WorkInv /\ ListenInv /\ Doing(t, "post")
  BY DEF ContextIInv, post
<1>2. Head(todo[t]).do = "post" /\ Head(todo[t]) \in Local
  BY <1>1, IoDoes
<1> QED BY <1>2 DEF Local

\* What is left behind the try block is what was there.
LEMMA ThrowTurns ==
    ASSUME ContextIInv, OneInv, NoRemote, NEW t \in Threads, throw(t)
    PROVE  OneInv'
<1> DEFINE d == todo[t]
           n == Len(d)
           i == SelectInSeq(d, LAMBDA x : x.do = "endTry")
           below == SubSeq(d, i + 1, n)
           s == IF i = 0 THEN <<>> ELSE Exceptions \o below
<1>1. /\ PipeInv /\ WorkInv /\ ListenInv /\ Doing(t, "throw") /\ Becomes(t, s)
      /\ UNCHANGED <<vars, pipe, tasks>>
  BY DEF ContextIInv, throw
<1>2. /\ d # <<>> /\ pc[t] = "idle" /\ t = Io /\ WorkersAnswer
  BY <1>1, IoDoes
<1>3. d \in Seq(Local) /\ ~Has(d, Late) /\ n \in Nat
  BY <1>2 DEF OneInv, LocalInv
<1>4. i = 0 \/ i \in 1..n
  <2> DEFINE I == {j \in 1..n : d[j].do = "endTry"}
  <2>1. i = IF I = {} THEN 0 ELSE Min(I)
    BY DEF SelectInSeq
  <2>2. I # {} => Min(I) \in I
    <3>1. I \subseteq Nat
      BY <1>3
    <3> QED BY <3>1, LeastElement DEF Min
  <2> QED BY <2>1, <2>2
<1> HIDE DEF i, d
<1>5. CASE i = 0
  <2>1. s = <<>> /\ <<>> \in Seq(Local) /\ Len(<<>>) = 0
    BY <1>5
  <2>2. Follow(<<>>)
    BY <2>1 DEF Follow, Has, Once
  <2>3. WorkersAnswer'
    BY <1>1, <1>2 DEF WorkersAnswer
  <2> QED BY <1>1, <1>2, <2>1, <2>2, <2>3, IoTurns
<1>6. CASE i \in 1..n
  <2>1. s = Exceptions \o below
    BY <1>3, <1>6
  <2>2. /\ \A j \in 1..Len(below) : i + j \in i + 1..n /\ below[j] = d[i + j]
        /\ below \in Seq(Local)
    BY <1>3, <1>6, Behind
  <2>3. i \in Nat /\ \A j \in i + 1..n : j \in 1..n
    BY <1>3, <1>6
  <2> HIDE DEF s, below
  <2>4. \A C : /\ Has(below, C) => Has(d, C)
               /\ Once(d, C) => Once(below, C)
    <3> TAKE C
    <3>1. Has(below, C) => Has(d, C)
      BY <2>2, <2>3 DEF Has
    <3>2. ASSUME Once(d, C), NEW j \in 1..Len(below), NEW k \in 1..Len(below),
                 below[j] \in C, below[k] \in C
          PROVE  j = k
      <4>1. i + j = i + k
        BY <2>2, <2>3, <3>2 DEF Once
      <4>2. Len(below) \in Nat
        BY <2>2
      <4> QED BY <2>3, <4>1, <4>2
    <3> QED BY <3>1, <3>2 DEF Once
  <2>5. Exceptions \in Seq(Local) /\ ~Has(Exceptions, ReadTurns) /\ ~Has(Exceptions, Listens)
    BY <1>1, LocalItems DEF Calm
  <2>6. s \in Seq(Local) /\ \A C : Has(s, C) <=> Has(Exceptions, C) \/ Has(below, C)
    BY <2>1, <2>2, <2>5, HasConcat
  <2>7. ~Has(s, Late)
    <3>1. ~Has(Exceptions, Late)
      BY <2>5, Sets0 DEF Has
    <3> QED BY <1>3, <2>4, <2>6, <3>1
  <2>8. Once(d, ReadTurns) => Once(s, ReadTurns)
    <3>1. Once(Exceptions, ReadTurns)
      BY <2>5 DEF Has, Once
    <3>2. Once(Exceptions, ReadTurns) /\ Once(below, ReadTurns)
          /\ ~(Has(Exceptions, ReadTurns) /\ Has(below, ReadTurns))
             => Once(Exceptions \o below, ReadTurns)
      BY <2>2, <2>5, HasConcat
    <3> QED BY <2>1, <2>4, <2>5, <3>1, <3>2
  <2>9. Follow(s)
    BY <1>2, <2>4, <2>5, <2>6, <2>7, <2>8 DEF Follow, d
  <2>10. WorkersAnswer'
    BY <1>1, <1>2 DEF WorkersAnswer
  <2> QED BY <1>1, <1>2, <2>9, <2>10, IoTurns
<1> QED BY <1>4, <1>5, <1>6

\* The worker turns to other answers.
LEMMA UserTurns ==
    ASSUME WorkInv, OneInv, NoRemote, NEW u \in Users, NEW s, s \in Seq(Answering),
           Becomes(u, s), UNCHANGED <<vars, pipe>>, WorkersAnswer'
    PROVE  OneInv'
<1>1. /\ todo \in [Threads -> Seq(Works)] /\ u \in Threads /\ u # Io
      /\ \A v \in Users : todo[v] \in Seq(Answering)
  BY SocketAssumption DEF WorkInv, ContextTypeOK, Threads, OneInv, LocalInv
<1>2. Left(s) \in Seq(Answering)
  BY LeftKeeps DEF Answering
<1>3. todo' = [todo EXCEPT ![u] = Left(s)]
  BY DEF Becomes
<1>4. todo'[Io] = todo[Io] /\ \A v \in Users : todo'[v] \in Seq(Answering)
  BY <1>1, <1>2, <1>3 DEF Threads
<1> QED BY <1>4, OthersTurn

LEMMA AnswerTurns ==
    ASSUME ContextIInv, OneInv, NoRemote, NEW t \in Threads, answer(t)
    PROVE  OneInv'
<1> DEFINE x == Head(todo[t])
           r == x.n
<1>1. /\ PipeInv /\ WorkInv /\ ListenInv /\ Doing(t, "answer") /\ Replace(t, <<>>)
      /\ UNCHANGED <<vars, pipe>> /\ (tasks' = tasks \/ tasks' = Append(tasks, Answer(r)))
  BY DEF ContextIInv, answer
<1>2. /\ todo[t] # <<>> /\ pc[t] = "idle" /\ x.do = "answer" /\ x \in Sound /\ WorkersAnswer
  BY <1>1, IoDoes
<1>3. r \in Requests
  BY <1>2 DEF Sound
<1> HIDE DEF r
<1>4. Answer(r) \in Seq(Answering)
  <2>1. Answer(r) = <<Work("answer", "none", NoStage, r)>>
    BY <1>3, Numbers DEF Answer
  <2>2. Work("answer", "none", NoStage, r) \in Answering
    BY <1>3, LocalMade
  <2> QED BY <2>1, <2>2
<1>5. WorkersAnswer'
  <2>1. tasks \in Seq(Seq(Works)) /\ Len(tasks) \in Nat
    BY <1>1 DEF WorkInv, ContextTypeOK
  <2>2. CASE tasks' = tasks
    BY <1>2, <2>2 DEF WorkersAnswer
  <2>3. CASE tasks' = Append(tasks, Answer(r))
    <3>1. /\ Len(tasks') = Len(tasks) + 1 /\ tasks'[Len(tasks) + 1] = Answer(r)
          /\ \A i \in 1..Len(tasks) : tasks'[i] = tasks[i]
      BY <2>1, <2>3, AppendProperties
    <3>2. \A i \in 1..Len(tasks) + 1 : i \in 1..Len(tasks) \/ i = Len(tasks) + 1
      BY <2>1
    <3> QED BY <1>2, <1>4, <3>1, <3>2 DEF WorkersAnswer
  <2> QED BY <1>1, <2>2, <2>3
<1>6. CASE t = Io
  <2>1. Calm(<<>>)
    BY CalmTurns
  <2> QED BY <1>1, <1>2, <1>5, <1>6, <2>1, ItemTurns
<1>7. CASE t # Io
  <2>1. t \in Users
    BY <1>7 DEF Threads
  <2> DEFINE s == <<>> \o Tail(todo[t])
  <2>2. todo[t] \in Seq(Answering)
    BY <2>1 DEF OneInv, LocalInv
  <2>3. <<>> \in Seq(Answering) /\ Tail(todo[t]) \in Seq(Answering)
    BY <1>2, <2>2
  <2>4. s \in Seq(Answering) /\ Becomes(t, s)
    BY <1>1, <2>3 DEF Replace
  <2> HIDE DEF s
  <2> QED BY <1>1, <1>5, <2>1, <2>4, UserTurns
<1> QED BY <1>6, <1>7

LEMMA WorkerTurns ==
    ASSUME ContextIInv, OneInv, NoRemote, workerTakes
    PROVE  OneInv'
<1>1. /\ WorkInv /\ tasks # <<>> /\ tasks \in Seq(Seq(Works)) /\ Becomes(Worker, Head(tasks))
      /\ tasks' = Tail(tasks) /\ UNCHANGED <<vars, pipe>> /\ Worker \in Users
  BY IOPipelineAssumption DEF ContextIInv, WorkInv, ContextTypeOK, workerTakes
<1>2. \A i \in 1..Len(tasks) : tasks[i] \in Seq(Answering)
  BY DEF OneInv, LocalInv
<1>3. /\ Len(tasks) \in Nat /\ Len(tasks) >= 1 /\ Head(tasks) = tasks[1]
      /\ Len(tasks') = Len(tasks) - 1 /\ \A i \in 1..Len(tasks) - 1 : tasks'[i] = tasks[i + 1]
  BY <1>1, HeadTailProperties
<1>4. 1 \in 1..Len(tasks) /\ \A i \in 1..Len(tasks) - 1 : i + 1 \in 1..Len(tasks)
  BY <1>3
<1>5. WorkersAnswer' /\ Head(tasks) \in Seq(Answering)
  BY <1>2, <1>3, <1>4 DEF WorkersAnswer
<1> QED BY <1>1, <1>5, UserTurns

\* A task of the io thread writes, or calls another method than read.
LEMMA TaskTurns ==
    ASSUME ContextIInv, OneInv, NoRemote, writeTask \/ (\E m \in TaskCalls : userTask(m))
    PROVE  OneInv'
<1>1. PipeInv /\ WorkInv
  BY DEF ContextIInv
<1>2. WorkersAnswer /\ Io \in Threads
  BY DEF OneInv, LocalInv, WorkersAnswer, Threads
<1>3. \A s : Calm(s) => Follow(s)
  BY Sets0 DEF Calm, Follow, Has, Once
<1>4. CASE writeTask
  <2> DEFINE r == Head(writes)
  <2>1. /\ Becomes(Io, WriteTask(r)) /\ pc[Io] = "idle" /\ UNCHANGED <<vars, pipe, tasks>>
        /\ writes # <<>> /\ writes \in Seq(Requests)
    BY <1>1, <1>4 DEF writeTask, Free, WorkInv, ContextTypeOK
  <2>2. r \in Requests
    BY <2>1
  <2> HIDE DEF r
  <2>3. Follow(WriteTask(r))
    BY <1>1, <1>3, <2>2, LocalItems
  <2>4. WorkersAnswer'
    BY <1>2, <2>1 DEF WorkersAnswer
  <2> QED BY <1>1, <2>1, <2>3, <2>4, IoTurns
<1>5. ASSUME NEW m \in TaskCalls, userTask(m) PROVE OneInv'
  <2>1. Becomes(Io, CallOf(m, 0)) /\ pc[Io] = "idle" /\ UNCHANGED <<vars, pipe, tasks>>
    BY <1>5 DEF userTask, Free
  <2>2. m \in Methods /\ m # "read" /\ 0 \in Requests \cup {0}
    BY IOPipelineAssumption DEF Methods
  <2>3. Follow(CallOf(m, 0))
    BY <1>1, <1>3, <2>2, LocalItems
  <2>4. WorkersAnswer'
    BY <1>2, <2>1 DEF WorkersAnswer
  <2> QED BY <1>1, <2>1, <2>3, <2>4, IoTurns
<1> QED BY <1>4, <1>5

LEMMA RestTurns ==
    ASSUME OneInv, NoRemote, UNCHANGED <<vars, pipe, todo, tasks>>
    PROVE  OneInv'
BY OthersTurn DEF OneInv, LocalInv, WorkersAnswer

------------------------------------------------------------------------------
\* What a listener tells: an event that leads to a read only when a connect or a read
\* is done.
LEMMA ListenerTurns ==
    ASSUME PipeInv, NEW f \in Futures, method[f] \in Methods, method[f] # "close",
           requestOf[f] \in Requests \cup {0}, NEW outcome
    PROVE  LET items == Listener(f, outcome)
           IN  /\ OneTurn(items)
               /\ method[f] \notin {"connect", "read"} \/ outcome # "finished" => Calm(items)
<1>1. /\ Calm(EndTry) /\ Calm(Answer(requestOf[f])) /\ Calm(<<>>)
      /\ OneTurn(Notify("active")) /\ OneTurn(Notify("read"))
      /\ Calm(Notify("inactive")) /\ Calm(Notify("writeComplete"))
  BY LocalItems, CalmTurns
<1>2. Calm(Inactive(f))
  BY <1>1 DEF Inactive
<1>3. Calm(readFailed(f)) /\ Calm(writeFailed(f))
  BY <1>1, <1>2, CalmConcat DEF readFailed, writeFailed
<1>4. /\ OneTurn(Notify("active") \o EndTry) /\ OneTurn(Notify("read") \o EndTry)
      /\ Calm(Notify("inactive") \o EndTry)
      /\ Calm(Notify("writeComplete") \o Answer(requestOf[f]))
  BY <1>1, CalmConcat
<1> DEFINE items == Listener(f, outcome)
<1>5. /\ method[f] = "connect" =>
            items = IF outcome = "finished" THEN Notify("active") \o EndTry ELSE <<>>
      /\ method[f] = "disconnect" =>
            items = IF outcome = "finished" THEN Notify("inactive") \o EndTry ELSE <<>>
      /\ method[f] = "read" =>
            items = IF outcome = "finished" THEN Notify("read") \o EndTry ELSE readFailed(f)
      /\ method[f] = "write" =>
            items = IF outcome = "finished"
                    THEN Notify("writeComplete") \o Answer(requestOf[f]) ELSE writeFailed(f)
  BY DEF Listener
<1> HIDE DEF items
<1>6. \A s : Calm(s) => OneTurn(s)
  BY CalmTurns
<1>7. method[f] \in {"connect", "disconnect", "read", "write"}
  BY DEF Methods
<1> QED BY <1>1, <1>3, <1>4, <1>5, <1>6, <1>7 DEF items

\* The io thread is the one that answers connects and reads: to those that are done it
\* listens already.
LEMMA ListenTurns ==
    ASSUME ContextIInv, TypeOK, OneInv, NoRemote, NEW t \in Threads, listen(t)
    PROVE  OneInv'
<1> DEFINE x == Head(todo[t])
           f == x.n
<1>1. /\ PipeInv /\ WorkInv /\ ListenInv /\ Doing(t, "listen")
      /\ \/ Replace(t, <<>>)
         \/ future[f] # "pending" /\ Replace(t, Listener(f, future[f]))
      /\ UNCHANGED <<vars, pipe, tasks>>
  BY DEF ContextIInv, listen
<1>2. /\ todo[t] # <<>> /\ pc[t] = "idle" /\ x.do = "listen" /\ x \in Local /\ x \in Sound
      /\ t = Io /\ x \notin Late /\ WorkersAnswer
  BY <1>1, IoDoes
<1>3. /\ f \in 1..calls /\ f \in Futures /\ method[f] \in Methods /\ method[f] # "close"
      /\ requestOf[f] \in Requests \cup {0}
  <2>1. f \in 1..calls /\ method[f] # "close"
    BY <1>2 DEF Sound
  <2>2. /\ calls \in 0..MaxCalls /\ method \in [Futures -> Methods]
        /\ requestOf \in [Futures -> Requests \cup {0}]
    BY <1>1 DEF TypeOK, WorkInv, ContextTypeOK
  <2> HIDE DEF f
  <2>3. f \in Futures
    BY <2>1, <2>2, SocketAssumption DEF Futures
  <2> QED BY <2>1, <2>2, <2>3
<1>4. ~(method[f] \in {"connect", "read"} /\ future[f] = "finished")
  BY <1>2 DEF Late, Listens, Sound
<1> HIDE DEF f
<1>5. Calm(<<>>) /\ Calm(Listener(f, future[f]))
  BY <1>1, <1>3, <1>4, CalmTurns, ListenerTurns
<1>6. WorkersAnswer'
  BY <1>1, <1>2 DEF WorkersAnswer
<1> QED BY <1>1, <1>2, <1>5, <1>6, ItemTurns

------------------------------------------------------------------------------
\* The io thread calls the handler, which answers no connect and no read at once.
LEMMA CallAnswers ==
    ASSUME TypeOK, NEW m,
           \/ m = "connect" /\ connect(Io)
           \/ m = "disconnect" /\ disconnect(Io)
           \/ m = "close" /\ close(Io)
           \/ m \in {"read", "write"} /\ readOrWrite(Io, m)
    PROVE  /\ calls + 1 \in Futures /\ (m # "close" => future'[calls + 1] # "finished")
           /\ (alone' <=> alone) /\ (overlapped => overlapped') /\ ~Finishing'
           /\ \A g \in Futures : g # calls + 1 => future'[g] = future[g] /\ method'[g] = method[g]
<1> DEFINE f == calls + 1
<1>1. /\ future \in [Futures -> {"unused", "pending", "finished", "failed"}]
      /\ method \in [Futures -> Methods] /\ job \in [Threads -> Jobs] /\ Io \in Threads
      /\ pc \in [Threads -> {"idle", "checked", "store", "start"}]
  BY DEF TypeOK, Threads
<1>2. f \in Futures /\ calls' = f /\ \A g \in Futures : g # f => future'[g] = future[g]
  BY <1>1, Called, SocketAssumption
<1>3. pc[Io] = "idle" /\ method' = [method EXCEPT ![f] = m] /\ (alone' <=> alone)
  BY DEF connect, disconnect, close, readOrWrite, NewCall
<1> HIDE DEF f
<1>4. CASE connect(Io) /\ m = "connect"
  <2>1. CASE Refuse(f) /\ UNCHANGED overlapped
    <3>1. future'[f] # "finished" /\ pc'[Io] # "store"
      BY <1>1, <1>2, <1>3, <2>1 DEF Refuse, thread
    <3> QED BY <1>2, <1>3, <2>1, <3>1 DEF Finishing, f
  <2>2. CASE Accept(Io, f, "checked", NoJob) /\ overlapped' = (overlapped \/ Connects # {})
    <3>1. future'[f] # "finished" /\ pc'[Io] # "store"
      BY <1>1, <1>2, <2>2 DEF Accept
    <3>2. overlapped => overlapped'
      BY <2>2
    <3> QED BY <1>2, <1>3, <3>1, <3>2 DEF Finishing, f
  <2> QED BY <1>4, <2>1, <2>2 DEF connect, f
<1>5. CASE disconnect(Io) /\ m = "disconnect"
  <2>1. /\ future'[f] # "finished" /\ (overlapped => overlapped')
        /\ job'[Io].next # "finish"
    BY <1>1, <1>2, <1>5 DEF disconnect, closeSocketWithState, setConnectivityState, f
  <2> QED BY <1>2, <1>3, <2>1 DEF Finishing, f, TypeOK
<1>6. CASE close(Io) /\ m = "close"
  <2>1. (overlapped => overlapped') /\ job'[Io].next # "finish"
    BY <1>1, <1>6 DEF close, closeSocketWithState, setConnectivityState
  <2> QED BY <1>2, <1>3, <1>6, <2>1 DEF Finishing, f, TypeOK
<1>7. CASE m \in {"read", "write"} /\ readOrWrite(Io, m)
  <2>1. /\ future'[f] # "finished" /\ (overlapped => overlapped')
        /\ pc'[Io] # "store"
    BY <1>1, <1>2, <1>3, <1>7 DEF readOrWrite, Refuse, Accept, thread, f
  <2> QED BY <1>2, <1>3, <2>1 DEF Finishing, f, TypeOK
<1> QED BY <1>4, <1>5, <1>6, <1>7

LEMMA CallTurns ==
    ASSUME ContextIInv, IInv, OneInv, NoRemote, NEW t \in Threads, callHandler(t)
    PROVE  OneInv'
<1> DEFINE x == Head(todo[t])
           m == x.what
           f == calls + 1
           items == IF m = "close" THEN <<>> ELSE Listen(f)
           d == todo[Io]
           s == items \o Tail(d)
<1>1. /\ WorkInv /\ ListenInv /\ TypeOK /\ Doing(t, "call") /\ Replace(t, items)
      /\ \/ m = "connect" /\ connect(t)
         \/ m = "disconnect" /\ disconnect(t)
         \/ m = "close" /\ close(t)
         \/ m \in {"read", "write"} /\ readOrWrite(t, m)
      /\ UNCHANGED <<pipe, tasks>>
  BY DEF ContextIInv, IInv, callHandler
<1>2. /\ d # <<>> /\ x.do = "call" /\ x \in Local /\ x \in Sound /\ t = Io /\ Io \in Threads
  BY <1>1, IoDoes
<1>3. LocalInv /\ (~overlapped => FreshInv /\ BufferInv /\ TurnInv)
  BY DEF OneInv
<1>4. /\ d \in Seq(Local) /\ ~Has(d, Late) /\ Tail(d) \in Seq(Local) /\ Tail(d) \in Seq(Talk)
      /\ x = Head(d)
  <2>1. d \in Seq(Local) /\ ~Has(d, Late)
    BY <1>3 DEF LocalInv
  <2>2. Tail(d) \in Seq(Talk)
    BY <1>1, <1>2, Stacks
  <2> QED BY <1>2, <2>1, <2>2
<1>5. /\ f \in Futures /\ (m # "close" => future'[f] # "finished")
      /\ (alone' <=> alone) /\ (overlapped => overlapped') /\ ~Finishing'
  BY <1>1, <1>2, CallAnswers
<1>6. m = "read" => x \in ReadTurns
  BY <1>2 DEF ReadTurns, Sound
<1>7. items \in Seq(Local) /\ ~Has(items, ReadTurns) /\ ~Has(items, Late')
  <2>1. CASE m = "close"
    <3>1. items = <<>> /\ <<>> \in Seq(Local) /\ Len(<<>>) = 0
      BY <2>1
    <3> HIDE DEF items
    <3> QED BY <3>1 DEF Has
  <2>2. CASE m # "close"
    <3> DEFINE y == Work("listen", "none", NoStage, f)
    <3>1. items = <<y>>
      BY <2>2 DEF Listen
    <3>2. y.do = "listen" /\ y.n = f
      BY DEF Work
    <3>3. y \in Local
      BY <1>5, LocalMade
    <3> HIDE DEF y, items, f
    <3>4. y \notin ReadTurns
      BY <3>2, Sets0
    <3>5. y \notin Late'
      BY <1>5, <2>2, <3>2 DEF Late
    <3>6. <<y>> \in Seq(Local)
      BY <3>3
    <3> QED BY <3>1, <3>4, <3>5, <3>6, HasOne
  <2> QED BY <2>1, <2>2
<1>8. Becomes(Io, s)
  BY <1>1, <1>2 DEF Replace
<1> HIDE DEF items, f, d, x
<1>9. ~Has(Tail(d), Late')
  <2>1. \A i \in 1..Len(Tail(d)) : Tail(d)[i] \in Talk
    BY <1>4
  <2>2. \A y \in Late' : y.do = "listen"
    BY DEF Late, Listens
  <2> QED BY <2>1, <2>2 DEF Has, Talk
<1>10. s \in Seq(Local) /\ ~Has(s, Late')
       /\ (Has(s, ReadTurns) <=> Has(Tail(d), ReadTurns))
       /\ (Once(Tail(d), ReadTurns) => Once(s, ReadTurns))
  <2>1. \A C : /\ items \o Tail(d) \in Seq(Local)
               /\ Has(items \o Tail(d), C) <=> Has(items, C) \/ Has(Tail(d), C)
               /\ Once(items, C) /\ Once(Tail(d), C) /\ ~(Has(items, C) /\ Has(Tail(d), C))
                  => Once(items \o Tail(d), C)
    BY <1>4, <1>7, HasConcat
  <2>2. Once(items, ReadTurns)
    BY <1>7 DEF Has, Once
  <2> QED BY <1>7, <1>9, <2>1, <2>2
<1> HIDE DEF s
<1>11. /\ todo'[Io] = Left(s) /\ \A u \in Users : todo'[u] = todo[u]
       /\ NoRemote' = NoRemote /\ Local' = Local
  <2>1. todo \in [Threads -> Seq(Works)] /\ \A u \in Users : u \in Threads /\ u # Io
    BY <1>1, SocketAssumption DEF WorkInv, ContextTypeOK, Threads
  <2> QED BY <1>1, <1>2, <1>8, <2>1 DEF Becomes, NoRemote, Local, InPipe
<1>12. /\ Left(s) \in Seq(Local) /\ ~Has(Left(s), Late')
       /\ (Has(Left(s), ReadTurns) <=> Has(s, ReadTurns))
       /\ (Once(s, ReadTurns) => Once(Left(s), ReadTurns))
  <2>1. Local \subseteq Works /\ (\A y \in ReadTurns : y.do # "endTry")
        /\ (\A y \in Late' : y.do # "endTry")
    BY Sets0 DEF Late, Listens
  <2> QED BY <1>10, <2>1, LeftKeeps
<1>13. LocalInv'
  BY <1>1, <1>3, <1>5, <1>11, <1>12 DEF LocalInv, Finishing
<1>14. ASSUME ~overlapped' PROVE FreshInv' /\ BufferInv' /\ TurnInv'
  <2>1. ~overlapped /\ FreshInv /\ BufferInv /\ TurnInv /\ alone
    BY <1>3, <1>5, <1>14 DEF LocalInv
  <2>2. /\ FreshInv' /\ BufferUsers' = BufferUsers
        /\ Starting' => m = "read"
    BY <1>1, <1>2, <2>1, CallReads
  <2>3. /\ Once(Tail(d), ReadTurns)
        /\ Has(d, ReadTurns) <=> x \in ReadTurns \/ Has(Tail(d), ReadTurns)
        /\ x \in ReadTurns => ~Has(Tail(d), ReadTurns)
    <3>1. Once(d, ReadTurns)
      BY <2>1 DEF TurnInv, d
    <3> QED BY <1>2, <1>4, <3>1, HasTail
  <2>4. Has(d, ReadTurns) => BufferUsers = {}
    BY <2>1 DEF TurnInv, d
  <2>5. BufferInv'
    <3>1. Starting' => BufferUsers' = {}
      BY <1>6, <2>2, <2>3, <2>4
    <3>2. \A g, h \in BufferUsers' : g = h
      BY <2>1, <2>2 DEF BufferInv
    <3> QED BY <3>1, <3>2 DEF BufferInv
  <2>6. TurnInv'
    <3>1. Once(todo'[Io], ReadTurns)
      BY <1>10, <1>11, <1>12, <2>3
    <3>2. Has(todo'[Io], ReadTurns) => BufferUsers' = {} /\ ~Starting'
      BY <1>6, <1>10, <1>11, <1>12, <2>2, <2>3, <2>4
    <3> QED BY <3>1, <3>2 DEF TurnInv
  <2> QED BY <2>2, <2>5, <2>6
<1> QED BY <1>13, <1>14 DEF OneInv

------------------------------------------------------------------------------
\* A step of the handler on the io thread runs the listener of the future it settles.
LEMMA ServeTurns ==
    ASSUME ContextIInv, TypeOK, OneInv, NoRemote, RunListeners(Io),
           UNCHANGED <<pipe, tasks, method, alone, overlapped>>,
           \A f \in Futures :
              method[f] \in {"connect", "read"} /\ future'[f] = "finished"
                 => future[f] = "finished" \/ todo[Io] = <<>>,
           Finishing' => todo[Io] = <<>> /\ future' = future,
           ~overlapped => KeepsReads
    PROVE  OneInv'
<1> DEFINE d == todo[Io]
<1>1. /\ PipeInv /\ todo \in [Threads -> Seq(Works)] /\ Io \in Threads
      /\ \A u \in Users : u \in Threads /\ u # Io
      /\ requestOf \in [Futures -> Requests \cup {0}] /\ method \in [Futures -> Methods]
      /\ \A f \in listening : f \in Futures /\ future[f] = "pending" /\ method[f] # "close"
  BY SocketAssumption DEF ContextIInv, WorkInv, ContextTypeOK, ListenInv, Threads, TypeOK
<1>2. LocalInv /\ (~overlapped => FreshInv /\ BufferInv /\ TurnInv)
  BY DEF OneInv
<1>3. NoRemote' = NoRemote /\ Local' = Local
  BY DEF NoRemote, Local, InPipe
<1>4. d \in Seq(Local) /\ ~Has(d, Late')
  <2>1. d \in Seq(Local) /\ ~Has(d, Late)
    BY <1>2 DEF LocalInv
  <2>2. CASE d = <<>>
    <3>1. Len(d) = 0
      BY <2>2
    <3> QED BY <2>1, <3>1 DEF Has
  <2>3. CASE d # <<>>
    <3>1. d \in Seq(Sound) /\ calls \in 0..MaxCalls
      BY <1>1 DEF ContextIInv, WorkInv, TypeOK
    <3>2. \A x \in Sound : x.do = "listen" => x.n \in Futures
      BY <3>1, SocketAssumption DEF Sound, Futures
    <3>3. ASSUME NEW x \in Sound, x \in Late' PROVE x \in Late
      <4>1. /\ x \in Listens /\ x.do = "listen"
            /\ method[x.n] \in {"connect", "read"} /\ future'[x.n] = "finished"
        BY <3>3 DEF Late, Listens
      <4>2. future[x.n] = "finished"
        BY <2>3, <3>2, <4>1
      <4> QED BY <4>1, <4>2 DEF Late
    <3>4. \A i \in 1..Len(d) : d[i] \in Sound
      BY <3>1
    <3> QED BY <2>1, <3>3, <3>4 DEF Has
  <2> QED BY <2>2, <2>3
<1>5. \E s : /\ s \in Seq(Local) /\ ~Has(s, Late')
             /\ (todo' = todo /\ s = d) \/ (Becomes(Io, s) /\ Settled # {})
             /\ ~overlapped /\ Once(d, ReadTurns) => Once(s, ReadTurns)
             /\ ~overlapped /\ Has(s, ReadTurns) => Has(d, ReadTurns) \/ BufferUsers' = {}
  <2>1. CASE Settled = {}
    <3>1. todo' = todo
      BY <2>1 DEF RunListeners
    <3> QED BY <1>4, <3>1
  <2>2. CASE Settled # {}
    <3>1. PICK f \in Settled : Becomes(Io, Listener(f, future'[f]) \o todo[Io])
      BY <2>2 DEF RunListeners
    <3>2. f \in Futures /\ future[f] = "pending" /\ method[f] # "close"
      BY <1>1, <3>1 DEF Settled
    <3> DEFINE l == Listener(f, future'[f])
               s == l \o d
    <3>3. /\ OneTurn(l)
          /\ method[f] \notin {"connect", "read"} \/ future'[f] # "finished" => Calm(l)
      BY <1>1, <3>2, ListenerTurns
    <3>4. Becomes(Io, s)
      BY <3>1
    <3> HIDE DEF l, d
    <3>5. \A C : /\ s \in Seq(Local)
                 /\ Has(s, C) <=> Has(l, C) \/ Has(d, C)
                 /\ Once(l, C) /\ Once(d, C) /\ ~(Has(l, C) /\ Has(d, C)) => Once(s, C)
      BY <1>4, <3>3, HasConcat DEF OneTurn
    <3>6. ~Has(l, Late')
      <4>1. \A x \in Late' : x \in Listens
        BY DEF Late
      <4> QED BY <3>3, <4>1 DEF OneTurn, Has
    <3>7. s \in Seq(Local) /\ ~Has(s, Late')
      BY <1>4, <3>5, <3>6
    <3>8. CASE Calm(l)
      <4>1. ~Has(l, ReadTurns) /\ Once(l, ReadTurns)
        BY <3>8 DEF Calm, Has, Once
      <4>2. /\ Once(d, ReadTurns) => Once(s, ReadTurns)
            /\ Has(s, ReadTurns) => Has(d, ReadTurns)
        BY <3>5, <4>1
      <4> HIDE DEF s
      <4> QED BY <2>2, <3>4, <3>7, <4>2
    <3>9. CASE method[f] \in {"connect", "read"} /\ future'[f] = "finished"
      <4>1. d = <<>> /\ Len(d) = 0
        BY <3>2, <3>9 DEF d
      <4>2. ~Has(d, ReadTurns) /\ Once(l, ReadTurns)
        BY <3>3, <4>1 DEF Has, OneTurn
      <4>3. Once(d, ReadTurns) => Once(s, ReadTurns)
        BY <3>5, <4>2
      <4>4. ~overlapped => BufferUsers' = {}
        BY <3>2, <3>9 DEF KeepsReads
      <4> HIDE DEF s
      <4> QED BY <2>2, <3>4, <3>7, <4>3, <4>4
    <3> QED BY <3>3, <3>8, <3>9
  <2> QED BY <2>1, <2>2
<1>6. PICK s : /\ s \in Seq(Local) /\ ~Has(s, Late')
               /\ (todo' = todo /\ s = d) \/ (Becomes(Io, s) /\ Settled # {})
               /\ ~overlapped /\ Once(d, ReadTurns) => Once(s, ReadTurns)
               /\ ~overlapped /\ Has(s, ReadTurns) => Has(d, ReadTurns) \/ BufferUsers' = {}
  BY <1>5
<1>7. /\ todo'[Io] \in Seq(Local) /\ ~Has(todo'[Io], Late')
      /\ Has(todo'[Io], ReadTurns) <=> Has(s, ReadTurns)
      /\ Once(s, ReadTurns) => Once(todo'[Io], ReadTurns)
      /\ \A u \in Users : todo'[u] = todo[u]
  <2>1. CASE todo' = todo /\ s = d
    BY <1>6, <2>1
  <2>2. CASE Becomes(Io, s)
    <3>1. todo'[Io] = Left(s) /\ \A u \in Users : todo'[u] = todo[u]
      BY <1>1, <2>2 DEF Becomes
    <3>2. Local \subseteq Works /\ (\A y \in ReadTurns : y.do # "endTry")
          /\ (\A y \in Late' : y.do # "endTry")
      BY Sets0 DEF Late, Listens
    <3>3. /\ Left(s) \in Seq(Local)
          /\ \A C : (\A y \in C : y.do # "endTry") =>
                (Has(Left(s), C) <=> Has(s, C)) /\ (Once(s, C) => Once(Left(s), C))
      BY <1>6, <3>2, LeftKeeps
    <3> QED BY <1>6, <3>1, <3>2, <3>3
  <2> QED BY <1>6, <2>1, <2>2
<1>8. Finishing' => todo'[Io] = <<>>
  <2> SUFFICES ASSUME Finishing' PROVE todo'[Io] = <<>>
    OBVIOUS
  <2>1. Settled = {} /\ d = <<>>
    BY DEF Settled
  <2> QED BY <1>6, <2>1
<1>9. LocalInv'
  BY <1>2, <1>3, <1>7, <1>8 DEF LocalInv, Finishing
<1>10. ASSUME ~overlapped' PROVE FreshInv' /\ BufferInv' /\ TurnInv'
  <2>1. FreshInv /\ BufferInv /\ TurnInv /\ KeepsReads /\ ~overlapped
    BY <1>2, <1>10
  <2>2. /\ FreshInv' /\ ~Starting'
        /\ BufferUsers' \subseteq BufferUsers \/ (Starting /\ \E f : BufferUsers' \subseteq {f})
    BY <2>1 DEF KeepsReads
  <2>3. BufferInv'
    BY <2>1, <2>2 DEF BufferInv
  <2>4. Has(todo'[Io], ReadTurns) => BufferUsers' = {}
    <3>1. Has(d, ReadTurns) => BufferUsers = {} /\ ~Starting
      BY <2>1 DEF TurnInv
    <3> QED BY <1>6, <1>7, <2>1, <2>2, <3>1
  <2>5. Once(todo'[Io], ReadTurns)
    BY <1>6, <1>7, <2>1 DEF TurnInv
  <2> QED BY <2>2, <2>3, <2>4, <2>5 DEF TurnInv
<1> QED BY <1>9, <1>10 DEF OneInv

\* What the io thread goes on with: a connect is answered when it has nothing else to do.
LEMMA GoOnTurns ==
    ASSUME ContextIInv, IInv, OneInv, NoRemote, NEW t \in Threads, handlerGoesOn(t)
    PROVE  OneInv'
<1> DEFINE f == job[t].future
<1>1. /\ TypeOK /\ GoOn(t) /\ RunListeners(t) /\ UNCHANGED <<pipe, tasks>>
      /\ LocalInv /\ (~overlapped => FreshInv /\ BufferInv /\ TurnInv)
      /\ f \in Futures /\ JobFits(t) /\ method[CloseFuture] = "close"
  BY DEF IInv, handlerGoesOn, OneInv, HandlingInv, ToCome, TypeOK, Jobs
<1>2. alone /\ AloneInv
  BY <1>1 DEF LocalInv, IInv
<1>3. pc[t] # "idle" /\ UNCHANGED <<method, alone, overlapped>>
  BY <1>1 DEF GoOn, connectChecked, StartOperation, Store, record
<1>4. t = Io
  BY <1>2, <1>3 DEF AloneInv, Threads
<1>5. /\ pc \in [Threads -> {"idle", "checked", "store", "start"}] /\ job \in [Threads -> Jobs]
      /\ future \in [Futures -> {"unused", "pending", "finished", "failed"}]
  BY <1>1 DEF TypeOK
<1>6. /\ \A o : Report(f, o) => \A g \in Futures : g # f => future'[g] = future[g]
      /\ Report(f, "failed") /\ future'[f] = "finished" => future[f] = "finished"
  BY <1>1, <1>5 DEF Report
<1> HIDE DEF f
<1>7. /\ ~Finishing'
      /\ \/ UNCHANGED future \/ Report(f, "failed")
         \/ Report(f, "finished") /\ (Finishing \/ method[f] \notin {"connect", "read"})
  <2>1. CASE connectChecked(Io)
    <3>1. UNCHANGED future \/ Report(f, "failed")
      BY <1>4, <2>1 DEF connectChecked, reportErrorCode, f
    <3>2. job'[Io].next # "finish" \/ pc'[Io] # "store"
      <4>1. Idle(Io) => pc'[Io] = "idle"
        BY <1>4, <1>5 DEF Idle
      <4>2. setConnectivityState(Io, "Connecting", "asyncConnect", f)
               => job'[Io].next = "asyncConnect"
        BY <1>4, <1>5 DEF setConnectivityState
      <4>3. Idle(Io) \/ setConnectivityState(Io, "Connecting", "asyncConnect", f)
        BY <1>4, <2>1 DEF connectChecked, StartConnect, f
      <4> QED BY <4>1, <4>2, <4>3
    <3> QED BY <3>1, <3>2 DEF Finishing
  <2>2. CASE StartOperation(Io)
    <3>1. pc'[Io] = "idle" /\ UNCHANGED future
      BY <1>4, <1>5, <2>2 DEF StartOperation, Idle
    <3> QED BY <3>1 DEF Finishing
  <2>3. CASE Store(Io)
    <3>1. pc[Io] = "store" /\ pc'[Io] = "idle"
      BY <1>4, <1>5, <2>3 DEF Store, Idle
    <3>2. \/ UNCHANGED future \/ Report(f, "failed")
          \/ Report(f, "finished") /\ job[Io].next \in {"finish", "postClose"}
      BY <1>4, <2>3 DEF Store, AsyncConnect, ReportOutcome, CloseNow, CloseLater, CloseRefused,
                        RunClose, reportErrorCode, f
    <3>3. job[Io].next = "postClose" => method[f] \notin {"connect", "read"}
      BY <1>1, <1>4, <3>1 DEF JobFits, Fits, f
    <3> QED BY <3>1, <3>2, <3>3 DEF Finishing
  <2> QED BY <1>1, <1>4, <2>1, <2>2, <2>3 DEF GoOn
<1>8. Finishing => todo[Io] = <<>>
  BY <1>1 DEF LocalInv, Finishing
<1>9. \A g \in Futures :
         method[g] \in {"connect", "read"} /\ future'[g] = "finished"
            => future[g] = "finished" \/ todo[Io] = <<>>
  BY <1>6, <1>7, <1>8
<1>10. ~overlapped => KeepsReads
  BY <1>1, <1>2, <1>4, ConnectCheckedReads, StartReads, StoreReads DEF GoOn
<1> QED BY <1>1, <1>3, <1>4, <1>7, <1>9, <1>10, ServeTurns

LEMMA HandlerTurns ==
    ASSUME ContextIInv, IInv, OnceInv, OneInv, NoRemote, handlerCompletes
    PROVE  OneInv'
<1>1. /\ TypeOK /\ Handler /\ RunListeners(Io) /\ todo[Io] = <<>> /\ UNCHANGED <<pipe, tasks>>
      /\ LocalInv /\ (~overlapped => FreshInv /\ BufferInv /\ TurnInv)
  BY DEF IInv, handlerCompletes, OneInv, Free
<1>2. alone
  BY <1>1 DEF LocalInv
<1>3. UNCHANGED <<method, alone, overlapped>>
  BY <1>1 DEF Handler, connectTask, closeTask, addressResolved, connected, transferred, record
<1>4. Finishing' => future' = future
  <2>1. pc[Io] = "idle" /\ job \in [Threads -> Jobs] /\ Io \in Threads
    BY <1>1 DEF Handler, connectTask, closeTask, addressResolved, connected, transferred, Dequeue,
                TypeOK, Threads
  <2>2. UNCHANGED thread => ~Finishing'
    BY <2>1 DEF thread, Finishing
  <2>3. connectTask \/ connected => UNCHANGED future
    BY DEF connectTask, connected
  <2>4. closeTask => UNCHANGED thread
    BY DEF closeTask
  <2>5. addressResolved => UNCHANGED thread \/ UNCHANGED future
    BY DEF addressResolved
  <2>6. transferred => UNCHANGED thread \/ UNCHANGED future
    BY DEF transferred
  <2> QED BY <1>1, <2>2, <2>3, <2>4, <2>5, <2>6 DEF Handler
<1>5. ~overlapped => KeepsReads
  BY <1>1, <1>2, HandlerReads
<1> QED BY <1>1, <1>3, <1>4, <1>5, ServeTurns

LEMMA NetworkTurns ==
    ASSUME ContextIInv, IInv, OneInv, NoRemote, network
    PROVE  OneInv'
<1>1. PICK op \in pending, ok \in BOOLEAN : Complete(op, ok)
  BY DEF network
<1>2. UNCHANGED <<pipe, todo, tasks, method, future, pc, job, alone, overlapped>>
  BY <1>1 DEF network, context, Complete, thread, record
<1>3. LocalInv /\ (~overlapped => FreshInv /\ BufferInv /\ TurnInv)
  BY DEF OneInv
<1>4. LocalInv'
  <2>1. Local' = Local /\ Late' = Late
    BY <1>2 DEF Local, InPipe, Late
  <2> QED BY <1>2, <1>3, <2>1 DEF LocalInv
<1>5. ASSUME ~overlapped' PROVE FreshInv' /\ BufferInv' /\ TurnInv'
  <2>1. ~overlapped /\ alone /\ FreshInv /\ BufferInv /\ TurnInv
    BY <1>2, <1>3, <1>5 DEF LocalInv
  <2>2. FreshInv' /\ BufferInv' /\ BufferUsers' \subseteq BufferUsers
    BY <1>1, <2>1, CompleteReads
  <2>3. Starting' <=> Starting
    BY <1>2 DEF Starting
  <2> QED BY <1>2, <2>1, <2>2, <2>3 DEF TurnInv
<1> QED BY <1>4, <1>5 DEF OneInv

\* The invariant of the reads.
LEMMA OneStep ==
    ContextIInv /\ IInv /\ OnceInv /\ OneInv /\ [ContextNext]_<<vars, context>> => OneInv'
<1> SUFFICES ASSUME ContextIInv, IInv, OnceInv, OneInv, [ContextNext]_<<vars, context>>, NoRemote'
             PROVE  OneInv'
  BY DEF OneInv
<1>1. UNCHANGED pipe
  BY DEF ContextNext, ThreadGoesOn, IoServes, handlerGoesOn, callHandler, listen, tellFirst,
         tellLast, tellStage, stageWrites, post, throw, answer, handlerCompletes, writeTask,
         workerTakes, network, callWrite, userTask, context
<1>2. NoRemote /\ TypeOK
  BY <1>1 DEF NoRemote, IInv
<1>3. ASSUME NEW t \in Threads, ThreadGoesOn(t) PROVE OneInv'
  BY <1>2, <1>3, GoOnTurns, CallTurns, ListenTurns, FirstTurns, LastTurns, StageTurns, WriteTurns,
     NoPosts, ThrowTurns, AnswerTurns DEF ThreadGoesOn
<1>4. CASE IoServes
  BY <1>2, <1>4, HandlerTurns, TaskTurns DEF IoServes
<1>5. CASE workerTakes
  BY <1>2, <1>5, WorkerTurns
<1>6. CASE network
  BY <1>2, <1>6, NetworkTurns
<1>7. CASE callWrite \/ UNCHANGED <<vars, context>>
  <2>1. UNCHANGED <<vars, pipe, todo, tasks>>
    BY <1>7 DEF callWrite, context
  <2> QED BY <1>2, <2>1, RestTurns
<1>8. ASSUME NEW m \in TaskCalls, userTask(m) PROVE OneInv'
  BY <1>2, <1>8, TaskTurns
<1> QED BY <1>3, <1>4, <1>5, <1>6, <1>7, <1>8 DEF ContextNext

LEMMA OneInitially == ContextInit => OneInv
<1> SUFFICES ASSUME ContextInit PROVE OneInv
  OBVIOUS
<1>1. /\ pending = {} /\ ioQueue = <<>> /\ Len(ioQueue) = 0 /\ pc[Io] = "idle" /\ alone
      /\ tasks = <<>> /\ Len(tasks) = 0 /\ ConnectOps = {} /\ Io \in Threads /\ Io \notin Users
  BY SocketAssumption DEF ContextInit, Init, Threads, ConnectOps
<1>2. todo[Io] = CallOf("connect", 0) /\ \A u \in Users : todo[u] = <<>>
  BY <1>1 DEF ContextInit, Threads
<1>3. /\ ReadOps = {} /\ ReadItems = {} /\ ConnectItems = {} /\ BufferUsers = {}
      /\ ~Connecting /\ ~Starting /\ ~Finishing
  <2>1. ReadOps = {} /\ ReadItems = {} /\ ConnectItems = {}
    BY <1>1 DEF ReadOps, ReadItems, ConnectItems
  <2>2. BufferUsers = {}
    BY <1>1 DEF BufferUsers
  <2> QED BY <1>1, <2>1, <2>2 DEF Connecting, Starting, Finishing
<1>4. PipeInv
  BY ContextInitially DEF ContextIInv
<1>5. Calm(CallOf("connect", 0))
  <2>1. "connect" \in Methods /\ "connect" # "read" /\ 0 \in Requests \cup {0}
    BY DEF Methods
  <2> QED BY <1>4, <2>1, LocalItems
<1>6. LocalInv
  <2>1. todo[Io] \in Seq(Local) /\ ~Has(todo[Io], Late)
    BY <1>2, <1>5, Sets0 DEF Calm, Has
  <2>2. <<>> \in Seq(Answering)
    OBVIOUS
  <2>3. (\A i \in 1..Len(tasks) : FALSE) /\ pc[Io] # "store"
    BY <1>1
  <2> QED BY <1>1, <1>2, <2>1, <2>2, <2>3 DEF LocalInv
<1>7. FreshInv /\ BufferInv /\ TurnInv
  <2>1. ~Has(todo[Io], ReadTurns)
    BY <1>2, <1>5 DEF Calm
  <2> QED BY <1>3, <2>1 DEF FreshInv, BufferInv, TurnInv, Has, Once
<1> QED BY <1>6, <1>7 DEF OneInv

\* In a pipeline without executors, and unless connects overlap, no two reads ever use the
\* buffer of the first stage: whatever stages do with what they are told, whatever fails,
\* is aborted or completes late, and however many connections follow each other.
THEOREM ReadsTakeTurns == ContextSpec => []OneReadAtATime
<1>1. OneInv => OneReadAtATime
  <2> SUFFICES ASSUME OneInv, ~overlapped, NoRemote PROVE Cardinality(BufferUsers) <= 1
    BY DEF OneReadAtATime, NoRemote
  <2>1. \A f, g \in BufferUsers : f = g
    BY DEF OneInv, BufferInv
  <2>2. CASE BufferUsers = {}
    BY <2>2, FS_EmptySet
  <2>3. CASE BufferUsers # {}
    <3>1. PICK f : BufferUsers = {f}
      BY <2>1, <2>3
    <3> QED BY <3>1, FS_Singleton
  <2> QED BY <2>2, <2>3
<1> QED BY <1>1, OneInitially, OneStep, ContextInitially, ContextInductive, ContextUsesHandler,
        InductiveInvariant, FuturesCarriedOnce, PTL DEF ContextSpec, Spec

==============================================================================
