------------------------ MODULE SharedRouters_proofs ------------------------
(***************************************************************************)
(* Theorems about SharedRouters, for any routes, events, masks and         *)
(* threads, and any of the three routers.                                  *)
(***************************************************************************)
EXTENDS SharedRouters, FiniteSetTheorems, SequenceTheorems, WellFoundedInduction, TLAPS

------------------------------------------------------------------------------
\* A set of natural numbers that has an element has a least one.
LEMMA LeastElement ==
    ASSUME NEW S, S \subseteq Nat, S # {}
    PROVE  Min(S) \in S /\ \A k \in S : Min(S) <= k
<1> DEFINE R == {p \in Nat \X Nat : p[1] < p[2]}
<1>1. R = OpToRel(<, Nat)
  BY DEF OpToRel
<1>2. IsWellFoundedOn(R, Nat)
  BY <1>1, NatLessThanWellFounded
<1> HIDE DEF R
<1>3. PICK x \in S : \A y \in S : <<y, x>> \notin R
  BY <1>2, WFMin
<1>4. \A y \in S : x <= y
  <2> TAKE y \in S
  <2>1. <<y, x>> \notin R /\ <<y, x>> \in Nat \X Nat
    BY <1>3
  <2> QED BY <2>1 DEF R
<1> QED BY <1>4 DEF Min

\* The places kept of a list are numbered from 1 on, in order and without gaps.
LEMMA Ranks ==
    ASSUME NEW n \in Nat, NEW kept \in SUBSET (1..n)
    PROVE  /\ Cardinality(kept) \in 0..n
           /\ \A j \in Nat : Rank(kept, j) \in 0..Cardinality(kept)
           /\ \A j \in kept : Rank(kept, j) \in 1..Cardinality(kept)
           /\ \A j, k \in kept : j < k => Rank(kept, j) < Rank(kept, k)
           /\ \A j, k \in kept : Rank(kept, j) = Rank(kept, k) => j = k
           /\ \A i \in 1..Cardinality(kept) : \E j \in kept : Rank(kept, j) = i
<1> DEFINE c == Cardinality(kept)
           rank == [j \in kept |-> Rank(kept, j)]
<1>1. IsFiniteSet(kept) /\ c \in 0..n
  <2>1. IsFiniteSet(1..n) /\ Cardinality(1..n) = n
    BY FS_Interval
  <2>2. IsFiniteSet(kept) /\ Cardinality(kept) <= n
    BY <2>1, FS_Subset
  <2> QED BY <2>2, FS_CardinalityType
<1>2. \A j \in Nat : Rank(kept, j) \in 0..c /\ IsFiniteSet({i \in kept : i <= j})
  <2> TAKE j \in Nat
  <2> DEFINE J == {i \in kept : i <= j}
  <2>1. J \in SUBSET kept
    OBVIOUS
  <2>2. IsFiniteSet(J) /\ Cardinality(J) <= c
    BY <1>1, <2>1, FS_Subset
  <2>3. Cardinality(J) \in Nat
    BY <2>2, FS_CardinalityType
  <2> QED BY <1>1, <2>2, <2>3 DEF Rank
<1>r. \A j \in Nat : Rank(kept, j) \in 0..c
  BY <1>2
<1>3. \A j \in kept : Rank(kept, j) \in 1..c
  <2> TAKE j \in kept
  <2>1. {i \in kept : i <= j} # {} /\ j \in Nat
    OBVIOUS
  <2>2. Rank(kept, j) # 0
    <3>1. IsFiniteSet({i \in kept : i <= j})
      BY <1>2, <2>1
    <3>2. Cardinality({i \in kept : i <= j}) # 0
      BY <2>1, <3>1, FS_EmptySet
    <3> QED BY <3>2 DEF Rank
  <2> QED BY <1>1, <1>r, <2>1, <2>2
<1>4. \A j, k \in kept : j < k => Rank(kept, j) < Rank(kept, k)
  <2> SUFFICES ASSUME NEW j \in kept, NEW k \in kept, j < k
               PROVE  Rank(kept, j) < Rank(kept, k)
    OBVIOUS
  <2> DEFINE J == {i \in kept : i <= j}
             K == {i \in kept : i <= k}
  <2>0. j \in Nat /\ k \in Nat
    OBVIOUS
  <2>1. J \in SUBSET K /\ k \in K /\ k \notin J
    <3>1. \A i \in J : i \in K
      BY <2>0
    <3>2. k \in K /\ k \notin J
      BY <2>0
    <3> QED BY <3>1, <3>2
  <2>2. IsFiniteSet(K)
    BY <1>2, <2>0
  <2> HIDE DEF J, K
  <2>3. Cardinality(J) <= Cardinality(K) /\ Cardinality(J) # Cardinality(K)
    BY <2>1, <2>2, FS_Subset
  <2>4. Rank(kept, j) \in Nat /\ Rank(kept, k) \in Nat
    BY <1>1, <1>r, <2>0
  <2> QED BY <2>3, <2>4 DEF Rank, J, K
<1>5. rank \in Injection(kept, 1..c)
  <2>1. rank \in [kept -> 1..c]
    BY <1>3
  <2>2. \A j \in kept, k \in kept : rank[j] = rank[k] => j = k
    <3> SUFFICES ASSUME NEW j \in kept, NEW k \in kept, rank[j] = rank[k], j # k
                 PROVE  FALSE
      OBVIOUS
    <3>1. j < k \/ k < j
      OBVIOUS
    <3> QED BY <1>3, <1>4, <3>1
  <2> QED BY <2>1, <2>2 DEF Injection, IsInjective
<1>6. rank \in Surjection(kept, 1..c)
  <2>1. IsFiniteSet(1..c) /\ Cardinality(1..c) = c
    BY <1>1, FS_Interval
  <2> QED BY <1>5, <2>1, FS_Injection
<1>7. \A i \in 1..c : \E j \in kept : Rank(kept, j) = i
  BY <1>6 DEF Surjection
<1>8. \A j \in kept, k \in kept : Rank(kept, j) = Rank(kept, k) => j = k
  BY <1>5 DEF Injection, IsInjective
<1> QED BY <1>1, <1>r, <1>3, <1>4, <1>7, <1>8

\* What is kept of a list is at the rank its place has, and there is nothing else.
LEMMA KeptLength ==
    ASSUME NEW n \in Nat, NEW l, NEW kept \in SUBSET (1..n)
    PROVE  Len(Kept(l, kept)) = Cardinality(kept) /\ Cardinality(kept) \in 0..n
<1>1. Cardinality(kept) \in 0..n
  BY Ranks
<1> QED BY <1>1 DEF Kept

LEMMA KeptAt ==
    ASSUME NEW n \in Nat, NEW l, NEW kept \in SUBSET (1..n), NEW j \in kept
    PROVE  /\ Rank(kept, j) \in 1..Cardinality(kept)
           /\ Kept(l, kept)[Rank(kept, j)] = l[j]
<1>1. Rank(kept, j) \in 1..Cardinality(kept)
  BY Ranks
<1>2. \A k \in kept : Rank(kept, k) = Rank(kept, j) => k = j
  BY Ranks
<1>3. (CHOOSE k \in kept : Rank(kept, k) = Rank(kept, j)) = j
  BY <1>2
<1> QED BY <1>1, <1>3 DEF Kept

LEMMA KeptFrom ==
    ASSUME NEW n \in Nat, NEW l, NEW kept \in SUBSET (1..n), NEW i \in 1..Cardinality(kept)
    PROVE  \E j \in kept : Kept(l, kept)[i] = l[j]
<1>1. PICK j \in kept : Rank(kept, j) = i
  BY Ranks
<1> QED BY <1>1, KeptAt

\* What is kept is a list of the elements that the places kept hold.
LEMMA KeptType ==
    ASSUME NEW n \in Nat, NEW l, NEW kept \in SUBSET (1..n), NEW S,
           \A i \in kept : l[i] \in S
    PROVE  Kept(l, kept) \in Seq(S)
<1> DEFINE c == Cardinality(kept)
<1>1. c \in Nat /\ \A i \in 1..c : Kept(l, kept)[i] \in S
  <2>1. c \in 0..n
    BY KeptLength
  <2>2. \A i \in 1..c : \E j \in kept : Kept(l, kept)[i] = l[j]
    BY KeptFrom
  <2> QED BY <2>1, <2>2
<1>2. Kept(l, kept) = [i \in 1..c |-> Kept(l, kept)[i]]
  BY DEF Kept
<1>3. [i \in 1..c |-> Kept(l, kept)[i]] \in Seq(S)
  BY <1>1, IsASeq
<1> QED BY <1>2, <1>3

------------------------------------------------------------------------------
\* The inductive invariant.

\* What a call is about, that only a post is further than called, and where it
\* begins.
FrameFits(f) ==
    /\ IF f.op = "post" THEN f.arg \in Events ELSE f.arg \in Routes /\ f.at = "called"
    /\ f.at = "called" => f.pos = 0

\* Below a call there are posts, in a handler each. A PersistenceRouter is locked
\* by the thread whose post has begun, and a call from its handler waits.
StackInv ==
    \A t \in Threads : \A i \in DOMAIN frames[t] :
        /\ FrameFits(frames[t][i])
        /\ i > 1 => frames[t][i].op = "post" /\ frames[t][i].at = "handler"
        /\ kind = "persistence" /\ frames[t][i].at # "called" =>
              mutex = t /\ i = Len(frames[t])
        /\ kind = "broadcast" => t = Owner

\* A list has no more routes than adds were called, the pending ones not counted.
Adders == {t \in Threads : frames[t] # <<>> /\ Top(t).op = "add"}

ListInv ==
    /\ IsFiniteSet(Adders) /\ Len(list) + Cardinality(Adders) <= calls
    /\ kind # "persistence" => list \in Seq(Routes)

\* What a loop has still in front of it, of its snapshot or of the list.
Ahead(f, k, l) ==
    IF k = "simple" THEN {f.rest[i] : i \in DOMAIN f.rest}
    ELSE {l[i] : i \in {i \in 1..Len(l) : i > f.pos \/ (i = f.pos /\ f.at = "loop")}}

\* A loop stands in the list or at its end, and every route it owes a call has had
\* it or is ahead. While the router is undefined a place may be that of an erased
\* element.
LoopPlace(f, k, l) ==
    IF k = "simple"
    THEN f.pos + Len(f.rest) + (IF f.at = "handler" THEN 1 ELSE 0) <= MaxCalls
    ELSE /\ f.pos \in 1..(Len(l) + 1)
         /\ f.at = "handler" => f.pos <= Len(l)

LoopOwes(f, k, l) ==
    /\ k = "persistence" => f.due \subseteq Matching[f.arg]
    /\ \A r \in f.due : (\E i \in DOMAIN f.told : f.told[i] = r) \/ r \in Ahead(f, k, l)

LoopsInv ==
    ~undefined =>
        \A t \in Threads : \A i \in DOMAIN frames[t] :
            frames[t][i].at # "called" =>
                /\ LoopPlace(frames[t][i], kind, list)
                /\ LoopOwes(frames[t][i], kind, list)

IInv == TypeOK /\ RegisteredIsListed /\ StackInv /\ ListInv /\ LoopsInv

------------------------------------------------------------------------------
\* What is on top of a stack, and what is below it.
LEMMA TopOf ==
    ASSUME TypeOK, NEW t \in Threads, frames[t] # <<>>
    PROVE  /\ frames[t] \in Seq(Frames) /\ Len(frames[t]) \in Nat /\ Len(frames[t]) > 0
           /\ DOMAIN frames[t] = 1..Len(frames[t]) /\ 1 \in DOMAIN frames[t]
           /\ Top(t) = frames[t][1] /\ Top(t) \in Frames
           /\ Tail(frames[t]) \in Seq(Frames) /\ Len(Tail(frames[t])) = Len(frames[t]) - 1
           /\ DOMAIN Tail(frames[t]) = 1..(Len(frames[t]) - 1)
           /\ \A i \in 1..(Len(frames[t]) - 1) : Tail(frames[t])[i] = frames[t][i + 1]
<1>1. frames[t] \in Seq(Frames)
  BY DEF TypeOK
<1>2. /\ Len(frames[t]) \in Nat /\ Len(frames[t]) > 0 /\ DOMAIN frames[t] = 1..Len(frames[t])
      /\ Head(frames[t]) = frames[t][1] /\ Head(frames[t]) \in Frames
  BY <1>1, SMTT(20)
<1>3. /\ Tail(frames[t]) \in Seq(Frames) /\ Len(Tail(frames[t])) = Len(frames[t]) - 1
      /\ \A i \in 1..(Len(frames[t]) - 1) : Tail(frames[t])[i] = frames[t][i + 1]
  BY <1>1, HeadTailProperties
<1>4. DOMAIN Tail(frames[t]) = 1..Len(Tail(frames[t]))
  BY <1>3, LenProperties
<1> QED BY <1>1, <1>2, <1>3, <1>4 DEF Top

\* A call on top of others.
LEMMA OnTop ==
    ASSUME NEW S, NEW s \in Seq(S), NEW x \in S
    PROVE  /\ <<x>> \o s \in Seq(S) /\ Len(<<x>> \o s) = Len(s) + 1
           /\ DOMAIN (<<x>> \o s) = 1..(Len(s) + 1)
           /\ (<<x>> \o s)[1] = x
           /\ \A i \in 2..(Len(s) + 1) : (<<x>> \o s)[i] = s[i - 1]
<1>1. <<x>> \in Seq(S) /\ Len(<<x>>) = 1 /\ <<x>>[1] = x /\ Len(s) \in Nat
  OBVIOUS
<1>2. /\ <<x>> \o s \in Seq(S) /\ Len(<<x>> \o s) = Len(s) + 1
      /\ \A i \in 1..(Len(<<x>>) + Len(s)) :
            (<<x>> \o s)[i] = IF i <= Len(<<x>>) THEN <<x>>[i] ELSE s[i - Len(<<x>>)]
  BY <1>1, ConcatProperties
<1>3. DOMAIN (<<x>> \o s) = 1..(Len(s) + 1)
  BY <1>1, <1>2, LenProperties
<1>4. (<<x>> \o s)[1] = x
  BY <1>1, <1>2
<1>5. \A i \in 2..(Len(s) + 1) : (<<x>> \o s)[i] = s[i - 1]
  BY <1>1, <1>2
<1> QED BY <1>2, <1>3, <1>4, <1>5

\* A list is never longer than MaxCalls.
LEMMA ListIsShort ==
    ASSUME TypeOK, ListInv
    PROVE  Len(list) \in 0..calls /\ calls \in 0..MaxCalls /\ MaxCalls \in Nat
<1>1. Len(list) \in Nat /\ calls \in 0..MaxCalls /\ MaxCalls \in Nat
  BY RoutersAssumption DEF TypeOK
<1>2. Cardinality(Adders) \in Nat
  BY FS_CardinalityType DEF ListInv
<1> QED BY <1>1, <1>2 DEF ListInv

\* A thread that may enter a PersistenceRouter, or is in its post, is in no other
\* call of it.
LEMMA OneCall ==
    ASSUME TypeOK, StackInv, NEW t \in Threads, frames[t] # <<>>, kind = "persistence",
           mutex = Free \/ Top(t).at # "called"
    PROVE  Len(frames[t]) = 1
<1>1. Free \notin Threads
  BY RoutersAssumption
<1>2. Len(frames[t]) \in Nat /\ Len(frames[t]) > 0 /\ DOMAIN frames[t] = 1..Len(frames[t])
      /\ Top(t) = frames[t][1]
  BY TopOf
<1>3. CASE Top(t).at # "called"
  <2>1. 1 \in DOMAIN frames[t] /\ frames[t][1].at # "called"
    BY <1>2, <1>3
  <2> QED BY <2>1 DEF StackInv
<1>4. CASE mutex = Free
  <2> SUFFICES ASSUME 2 \in DOMAIN frames[t] PROVE FALSE
    <3>0. Len(frames[t]) \in Nat /\ Len(frames[t]) > 0
      BY <1>2
    <3>1. \A n \in Nat : n > 0 => n = 1 \/ 2 \in 1..n
      OBVIOUS
    <3> QED BY <1>2, <3>0, <3>1
  <2>1. frames[t][2].at # "called"
    BY DEF StackInv
  <2>2. mutex = t
    BY <2>1 DEF StackInv
  <2> QED BY <1>1, <1>4, <2>2
<1> QED BY <1>3, <1>4

\* The calls that go on as they were leave the bound on the length of the list.
LEMMA FewerAdders ==
    ASSUME TypeOK, ListInv, Adders' \subseteq Adders, Len(list') \in Nat,
           Len(list') <= Len(list), calls' \in Nat, calls <= calls'
    PROVE  IsFiniteSet(Adders') /\ Len(list') + Cardinality(Adders') <= calls'
<1>1. IsFiniteSet(Adders') /\ Cardinality(Adders') <= Cardinality(Adders)
  BY FS_Subset DEF ListInv
<1>2. Cardinality(Adders) \in Nat /\ Cardinality(Adders') \in Nat
  BY <1>1, FS_CardinalityType DEF ListInv
<1>3. Len(list) \in Nat /\ calls \in Nat
  BY ListIsShort
<1> QED BY <1>1, <1>2, <1>3 DEF ListInv

\* A thread returns from its innermost call.
LEMMA Returned ==
    ASSUME TypeOK, StackInv, NEW t \in Threads, frames[t] # <<>>, Return(t), kind' = kind,
           kind = "persistence" /\ mutex' # mutex => Top(t).at # "called"
    PROVE  /\ frames' \in [Threads -> Seq(Frames)] /\ StackInv'
           /\ Adders' \subseteq Adders \ {t}
           /\ \A u \in Threads : \A i \in DOMAIN frames'[u] : \E j \in DOMAIN frames[u] :
                 frames'[u][i] = frames[u][j]
<1> DEFINE F == frames[t]
<1>1. frames' = [frames EXCEPT ![t] = Tail(F)]
  BY DEF Return
<1>2. /\ F \in Seq(Frames) /\ Len(F) \in Nat /\ Len(F) > 0 /\ DOMAIN F = 1..Len(F)
      /\ Tail(F) \in Seq(Frames) /\ DOMAIN Tail(F) = 1..(Len(F) - 1)
      /\ Len(Tail(F)) = Len(F) - 1 /\ Top(t) = F[1]
      /\ \A i \in 1..(Len(F) - 1) : Tail(F)[i] = F[i + 1]
  BY TopOf
<1> HIDE DEF F
<1>3. frames \in [Threads -> Seq(Frames)]
  BY DEF TypeOK
<1>4. frames' \in [Threads -> Seq(Frames)]
  BY <1>1, <1>2, <1>3
<1>5. \A u \in Threads : frames'[u] = IF u = t THEN Tail(F) ELSE frames[u]
  BY <1>1, <1>3
<1>a. \A i \in DOMAIN frames'[t] :
          /\ i \in 1..(Len(F) - 1) /\ i \in Nat /\ i + 1 \in DOMAIN F /\ i + 1 > 1
          /\ frames'[t][i] = F[i + 1]
  <2>1. frames'[t] = Tail(F)
    BY <1>5
  <2> TAKE i \in DOMAIN frames'[t]
  <2>2. i \in 1..(Len(F) - 1)
    BY <1>2, <2>1
  <2>3. i \in Nat /\ i + 1 \in 1..Len(F) /\ i + 1 > 1
    BY <1>2, <2>2
  <2> QED BY <1>2, <2>1, <2>2, <2>3
<1>6. \A u \in Threads : \A i \in DOMAIN frames'[u] : \E j \in DOMAIN frames[u] :
          frames'[u][i] = frames[u][j]
  <2> TAKE u \in Threads
  <2>1. CASE u # t
    BY <1>5, <2>1
  <2>2. CASE u = t
    <3> TAKE i \in DOMAIN frames'[u]
    <3>1. frames'[u][i] = F[i + 1] /\ i + 1 \in DOMAIN F
      BY <1>a, <2>2
    <3> QED BY <2>2, <3>1 DEF F
  <2> QED BY <2>1, <2>2
<1>7. StackInv'
  <2> SUFFICES ASSUME NEW u \in Threads, NEW i \in DOMAIN frames'[u]
               PROVE  /\ FrameFits(frames'[u][i])
                      /\ i > 1 => frames'[u][i].op = "post" /\ frames'[u][i].at = "handler"
                      /\ kind = "persistence" /\ frames'[u][i].at # "called" =>
                            mutex' = u /\ i = Len(frames'[u])
                      /\ kind = "broadcast" => u = Owner
    BY DEF StackInv, FrameFits
  <2>1. CASE u # t
    <3>1. frames'[u] = frames[u]
      BY <1>5, <2>1
    <3>2. kind = "persistence" /\ frames[u][i].at # "called" => mutex' = mutex
      <4> SUFFICES ASSUME kind = "persistence", frames[u][i].at # "called",
                          Top(t).at # "called"
                   PROVE  FALSE
        OBVIOUS
      <4>1. mutex = u
        BY <3>1 DEF StackInv
      <4>2. mutex = t
        BY <1>2 DEF StackInv, F
      <4> QED BY <2>1, <4>1, <4>2
    <3> QED BY <3>1, <3>2 DEF StackInv
  <2>2. CASE u = t
    <3>1. /\ i \in 1..(Len(F) - 1) /\ i \in Nat /\ frames'[u][i] = F[i + 1]
          /\ i + 1 \in DOMAIN F /\ i + 1 > 1
      BY <1>a, <2>2
    <3>2. Len(frames'[u]) = Len(F) - 1
      BY <1>2, <1>5, <2>2
    <3>3. kind = "persistence" => mutex' = mutex
      <4> SUFFICES ASSUME kind = "persistence", Top(t).at # "called" PROVE FALSE
        OBVIOUS
      <4>1. Len(F) = 1
        BY OneCall DEF F
      <4> QED BY <3>1, <4>1
    <3>4. /\ FrameFits(F[i + 1]) /\ F[i + 1].op = "post" /\ F[i + 1].at = "handler"
          /\ kind = "persistence" => mutex = t /\ i + 1 = Len(F)
          /\ kind = "broadcast" => t = Owner
      <4> QED BY <3>1 DEF StackInv, F
    <3>5. FrameFits(frames'[u][i])
      BY <3>1, <3>4
    <3>6. frames'[u][i].op = "post" /\ frames'[u][i].at = "handler"
      BY <3>1, <3>4
    <3>7. kind = "persistence" => mutex' = u /\ i = Len(frames'[u])
      <4>0. i \in Nat /\ Len(F) \in Nat
        BY <1>2, <3>1
      <4>1. i + 1 = Len(F) => i = Len(F) - 1
        BY <4>0
      <4> QED BY <2>2, <3>2, <3>3, <3>4, <4>1
    <3> QED BY <2>2, <3>4, <3>5, <3>6, <3>7
  <2> QED BY <2>1, <2>2
<1>8. Adders' \subseteq Adders \ {t}
  <2> SUFFICES ASSUME NEW u \in Threads, frames'[u] # <<>>, Head(frames'[u]).op = "add"
               PROVE  u \in Adders \ {t}
    BY DEF Adders, Top
  <2>1. CASE u # t
    BY <1>5, <2>1 DEF Adders, Top
  <2>2. CASE u = t
    <3>1. frames'[u] \in Seq(Frames)
      BY <1>4
    <3>2. 1 \in DOMAIN frames'[u] /\ Head(frames'[u]) = frames'[u][1]
      BY <3>1
    <3>3. frames'[u][1] = F[2] /\ 2 \in DOMAIN F
      BY <1>a, <2>2, <3>2
    <3>4. F[2].op = "post"
      BY <3>3 DEF StackInv, F
    <3> QED BY <3>2, <3>3, <3>4
  <2> QED BY <2>1, <2>2
<1> QED BY <1>4, <1>6, <1>7, <1>8

\* A post goes on in the innermost call of a thread.
LEMMA Changed ==
    ASSUME TypeOK, StackInv, NEW t \in Threads, frames[t] # <<>>, NEW f \in Frames,
           frames' = Change(t, f), kind' = kind, f.op = "post", f.arg \in Events, f.at # "called",
           kind = "broadcast" => t = Owner,
           kind = "persistence" => mutex' = t /\ mutex \in {t, Free} /\ Len(frames[t]) = 1
    PROVE  /\ frames' \in [Threads -> Seq(Frames)] /\ StackInv' /\ Adders' \subseteq Adders
           /\ \A u \in Threads : \A i \in DOMAIN frames'[u] :
                 \/ \E j \in DOMAIN frames[u] : frames'[u][i] = frames[u][j]
                 \/ frames'[u][i] = f
<1> DEFINE F == frames[t]
           G == <<f>> \o Tail(F)
<1>1. frames' = [frames EXCEPT ![t] = G]
  BY DEF Change
<1>2. /\ F \in Seq(Frames) /\ Len(F) \in Nat /\ Len(F) > 0 /\ DOMAIN F = 1..Len(F)
      /\ Tail(F) \in Seq(Frames) /\ Len(Tail(F)) = Len(F) - 1
      /\ \A i \in 1..(Len(F) - 1) : Tail(F)[i] = F[i + 1]
  BY TopOf
<1>3. /\ G \in Seq(Frames) /\ Len(G) = Len(F) /\ DOMAIN G = 1..Len(F) /\ G[1] = f
      /\ \A i \in 2..Len(F) : G[i] = F[i]
  <2>1. /\ G \in Seq(Frames) /\ Len(G) = Len(Tail(F)) + 1
        /\ DOMAIN G = 1..(Len(Tail(F)) + 1) /\ G[1] = f
        /\ \A i \in 2..(Len(Tail(F)) + 1) : G[i] = Tail(F)[i - 1]
    BY <1>2, OnTop
  <2>2. Len(Tail(F)) + 1 = Len(F)
    BY <1>2
  <2>3. \A i \in 2..Len(F) : i - 1 \in 1..(Len(F) - 1) /\ (i - 1) + 1 = i
    BY <1>2
  <2> QED BY <1>2, <2>1, <2>2, <2>3
<1> HIDE DEF F, G
<1>4. frames \in [Threads -> Seq(Frames)]
  BY DEF TypeOK
<1>5. frames' \in [Threads -> Seq(Frames)]
  BY <1>1, <1>3, <1>4
<1>6. \A u \in Threads : frames'[u] = IF u = t THEN G ELSE frames[u]
  BY <1>1, <1>4
<1>7. \A u \in Threads : \A i \in DOMAIN frames'[u] :
          \/ i \in DOMAIN frames[u] /\ frames'[u][i] = frames[u][i] /\ (u = t => i > 1)
          \/ u = t /\ i = 1 /\ frames'[u][i] = f
  <2> TAKE u \in Threads
  <2>1. CASE u # t
    BY <1>6, <2>1
  <2>2. CASE u = t
    <3> TAKE i \in DOMAIN frames'[u]
    <3>1. i \in 1..Len(F) /\ frames'[u][i] = G[i]
      BY <1>3, <1>6, <2>2
    <3>2. i = 1 \/ i \in 2..Len(F)
      BY <1>2, <3>1
    <3> QED BY <1>2, <1>3, <2>2, <3>1, <3>2 DEF F
  <2> QED BY <2>1, <2>2
<1>8. \A u \in Threads : Len(frames'[u]) = Len(frames[u])
  BY <1>3, <1>6 DEF F
<1>9. StackInv'
  <2> SUFFICES ASSUME NEW u \in Threads, NEW i \in DOMAIN frames'[u]
               PROVE  /\ FrameFits(frames'[u][i])
                      /\ i > 1 => frames'[u][i].op = "post" /\ frames'[u][i].at = "handler"
                      /\ kind = "persistence" /\ frames'[u][i].at # "called" =>
                            mutex' = u /\ i = Len(frames'[u])
                      /\ kind = "broadcast" => u = Owner
    BY DEF StackInv, FrameFits
  <2>1. CASE i \in DOMAIN frames[u] /\ frames'[u][i] = frames[u][i]
    <3>1. kind = "persistence" /\ frames[u][i].at # "called" => mutex' = mutex
      <4> SUFFICES ASSUME kind = "persistence", frames[u][i].at # "called"
                   PROVE  mutex' = mutex
        OBVIOUS
      <4>1. mutex = u
        BY <2>1 DEF StackInv
      <4>2. mutex # Free
        BY <4>1, RoutersAssumption
      <4> QED BY <4>2
    <3> QED BY <1>8, <2>1, <3>1 DEF StackInv
  <2>2. CASE u = t /\ i = 1 /\ frames'[u][i] = f
    BY <1>8, <2>2 DEF FrameFits
  <2> QED BY <1>7, <2>1, <2>2
<1>10. Adders' \subseteq Adders
  <2> SUFFICES ASSUME NEW u \in Threads, frames'[u] # <<>>, Head(frames'[u]).op = "add"
               PROVE  u \in Adders
    BY DEF Adders, Top
  <2>1. CASE u # t
    BY <1>6, <2>1 DEF Adders, Top
  <2>2. CASE u = t
    <3>1. Head(frames'[u]) = f
      BY <1>3, <1>6, <2>2
    <3> QED BY <3>1
  <2> QED BY <2>1, <2>2
<1> QED BY <1>5, <1>7, <1>9, <1>10

------------------------------------------------------------------------------
\* The steps.
LEMMA Initially == Init => IInv
<1> SUFFICES ASSUME Init PROVE IInv
  OBVIOUS
<1>1. /\ kind \in Kinds /\ list = <<>> /\ mutex = Free /\ undefined = FALSE
      /\ registered = {} /\ erased = {} /\ calls = 0 /\ frames = [t \in Threads |-> <<>>]
  BY DEF Init
<1>2. list \in Seq(Routes \cup {Null}) /\ list \in Seq(Routes) /\ Len(list) = 0
  BY <1>1
<1>3. frames \in [Threads -> Seq(Frames)] /\ \A t \in Threads : frames[t] = <<>>
  BY <1>1
<1>4. TypeOK
  <2>1. /\ kind \in Kinds /\ mutex \in Threads \cup {Free} /\ undefined \in BOOLEAN
        /\ registered \subseteq Routes /\ erased \subseteq Routes
    BY <1>1
  <2>2. calls \in 0..MaxCalls
    BY <1>1, RoutersAssumption
  <2> QED BY <1>2, <1>3, <2>1, <2>2 DEF TypeOK
<1>5. RegisteredIsListed
  BY <1>1 DEF RegisteredIsListed
<1>6. \A t \in Threads : DOMAIN frames[t] = {}
  BY <1>3
<1>7. StackInv /\ LoopsInv
  BY <1>6 DEF StackInv, LoopsInv
<1>8. ListInv
  <2>1. Adders = {}
    BY <1>3 DEF Adders
  <2> QED BY <1>1, <1>2, <2>1, FS_EmptySet DEF ListInv
<1> QED BY <1>4, <1>5, <1>7, <1>8 DEF IInv

\* Loops are as they were when the list is, for calls that go on as they were.
LEMMA LoopsKept ==
    ASSUME LoopsInv, ~undefined, kind' = kind, list' = list \/ kind = "simple",
           \A u \in Threads : \A i \in DOMAIN frames'[u] : \E j \in DOMAIN frames[u] :
              frames'[u][i] = frames[u][j]
    PROVE  LoopsInv'
<1> SUFFICES ASSUME NEW u \in Threads, NEW i \in DOMAIN frames'[u],
                    frames'[u][i].at # "called"
             PROVE  /\ LoopPlace(frames'[u][i], kind', list')
                    /\ LoopOwes(frames'[u][i], kind', list')
  BY DEF LoopsInv, LoopPlace, LoopOwes, Ahead
<1>1. PICK j \in DOMAIN frames[u] : frames'[u][i] = frames[u][j]
  OBVIOUS
<1>2. LoopPlace(frames[u][j], kind, list) /\ LoopOwes(frames[u][j], kind, list)
  BY <1>1 DEF LoopsInv
<1>3. CASE list' = list
  BY <1>1, <1>2, <1>3
<1>4. CASE kind = "simple"
  BY <1>1, <1>2, <1>4 DEF LoopPlace, LoopOwes, Ahead
<1> QED BY <1>3, <1>4

\* The same with one call that goes on.
LEMMA LoopsChanged ==
    ASSUME LoopsInv, ~undefined, kind' = kind, list' = list, NEW f,
           LoopPlace(f, kind, list), LoopOwes(f, kind, list),
           \A u \in Threads : \A i \in DOMAIN frames'[u] :
              \/ \E j \in DOMAIN frames[u] : frames'[u][i] = frames[u][j]
              \/ frames'[u][i] = f
    PROVE  LoopsInv'
<1> SUFFICES ASSUME NEW u \in Threads, NEW i \in DOMAIN frames'[u],
                    frames'[u][i].at # "called"
             PROVE  /\ LoopPlace(frames'[u][i], kind', list')
                    /\ LoopOwes(frames'[u][i], kind', list')
  BY DEF LoopsInv, LoopPlace, LoopOwes, Ahead
<1>1. CASE frames'[u][i] = f
  BY <1>1
<1>2. CASE \E j \in DOMAIN frames[u] : frames'[u][i] = frames[u][j]
  BY <1>2 DEF LoopsInv
<1> QED BY <1>1, <1>2

LEMMA AddStep ==
    ASSUME IInv, NEW t \in Threads, add(t)
    PROVE  IInv'
<1> DEFINE r == Top(t).arg
<1>0. TypeOK /\ RegisteredIsListed /\ StackInv /\ ListInv /\ LoopsInv
  BY DEF IInv
<1>1. /\ frames[t] # <<>> /\ Top(t).op = "add" /\ Top(t).at = "called" /\ Enter(t)
      /\ ~undefined /\ Return(t) /\ UNCHANGED <<kind, mutex, undefined, calls>>
      /\ \/ UNCHANGED <<list, registered, erased>>
         \/ /\ list' = Append(list, r) /\ registered' = registered \cup {r}
            /\ erased' = erased \ {r}
  BY DEF add, At
<1>2. r \in Routes
  BY <1>0, <1>1, TopOf DEF StackInv, FrameFits
<1>3. /\ frames' \in [Threads -> Seq(Frames)] /\ StackInv' /\ Adders' \subseteq Adders \ {t}
      /\ \A u \in Threads : \A i \in DOMAIN frames'[u] : \E j \in DOMAIN frames[u] :
            frames'[u][i] = frames[u][j]
  BY <1>0, <1>1, Returned
<1>4. list \in Seq(Routes \cup {Null}) /\ Len(list) \in Nat
  BY <1>0 DEF TypeOK
<1>5. /\ list' \in Seq(Routes \cup {Null}) /\ Len(list') \in Nat
      /\ Len(list) <= Len(list') /\ Len(list') <= Len(list) + 1
      /\ \A i \in 1..Len(list) : list'[i] = list[i]
      /\ list' = Append(list, r) => list'[Len(list) + 1] = r /\ Len(list') = Len(list) + 1
      /\ list \in Seq(Routes) => list' \in Seq(Routes)
  <2>1. CASE list' = list
    BY <1>4, <2>1
  <2>2. CASE list' = Append(list, r)
    BY <1>2, <1>4, <2>2
  <2> QED BY <1>1, <2>1, <2>2
<1>6. TypeOK'
  <2>1. registered' \subseteq Routes /\ erased' \subseteq Routes
    BY <1>0, <1>1, <1>2 DEF TypeOK
  <2> QED BY <1>0, <1>1, <1>3, <1>5, <2>1 DEF TypeOK
<1>7. RegisteredIsListed'
  <2> SUFFICES ASSUME NEW x \in registered', ~(kind = "simple" /\ x \in erased')
               PROVE  \E i \in 1..Len(list') : list'[i] = x
    BY <1>1 DEF RegisteredIsListed, Listed
  <2>1. CASE x = r /\ list' = Append(list, r)
    <3>1. Len(list) + 1 \in 1..Len(list')
      BY <1>4, <1>5, <2>1
    <3> QED BY <1>5, <2>1, <3>1
  <2>2. CASE ~(x = r /\ list' = Append(list, r))
    <3>1. x \in registered /\ ~(kind = "simple" /\ x \in erased)
      BY <1>1, <2>2
    <3>2. PICK i \in 1..Len(list) : list[i] = x
      BY <1>0, <3>1 DEF RegisteredIsListed, Listed
    <3>3. i \in 1..Len(list')
      BY <1>4, <1>5
    <3> QED BY <1>5, <3>2, <3>3
  <2> QED BY <2>1, <2>2
<1>8. ListInv'
  <2>1. IsFiniteSet(Adders) /\ t \in Adders
    BY <1>0, <1>1 DEF ListInv, Adders
  <2>2. IsFiniteSet(Adders \ {t}) /\ Cardinality(Adders \ {t}) = Cardinality(Adders) - 1
    BY <2>1, FS_RemoveElement
  <2>3. IsFiniteSet(Adders') /\ Cardinality(Adders') <= Cardinality(Adders \ {t})
    BY <1>3, <2>2, FS_Subset
  <2>4. Cardinality(Adders) \in Nat /\ Cardinality(Adders') \in Nat /\ calls \in Nat
    BY <1>0, <2>1, <2>3, FS_CardinalityType, ListIsShort
  <2>5. Len(list) + Cardinality(Adders) <= calls
    BY <1>0 DEF ListInv
  <2>6. Len(list') + Cardinality(Adders') <= calls'
    BY <1>1, <1>4, <1>5, <2>2, <2>3, <2>4, <2>5
  <2> QED BY <1>0, <1>1, <1>5, <2>3, <2>6 DEF ListInv
<1>9. LoopsInv'
  <2>1. CASE list' = list
    BY <1>0, <1>1, <1>3, <2>1, LoopsKept
  <2>2. CASE list' = Append(list, r)
    <3> SUFFICES ASSUME NEW u \in Threads, NEW i \in DOMAIN frames'[u],
                        frames'[u][i].at # "called"
                 PROVE  /\ LoopPlace(frames'[u][i], kind', list')
                        /\ LoopOwes(frames'[u][i], kind', list')
      BY DEF LoopsInv, LoopPlace, LoopOwes, Ahead
    <3>1. PICK j \in DOMAIN frames[u] : frames'[u][i] = frames[u][j]
      BY <1>3
    <3> DEFINE f == frames[u][j]
    <3>2. LoopPlace(f, kind, list) /\ LoopOwes(f, kind, list)
      BY <1>0, <1>1, <3>1 DEF LoopsInv
    <3> HIDE DEF f
    <3>3. CASE kind = "simple"
      BY <1>1, <3>1, <3>2, <3>3 DEF LoopPlace, LoopOwes, Ahead, f
    <3>4. CASE kind # "simple"
      <4>1. LoopPlace(f, kind, list')
        BY <1>4, <1>5, <3>2, <3>4 DEF LoopPlace
      <4>2. Ahead(f, kind, list) \subseteq Ahead(f, kind, list')
        <5> SUFFICES ASSUME NEW k \in 1..Len(list),
                            k > f.pos \/ (k = f.pos /\ f.at = "loop")
                     PROVE  list[k] \in Ahead(f, kind, list')
          BY <3>4 DEF Ahead
        <5>1. k \in 1..Len(list') /\ list'[k] = list[k]
          BY <1>4, <1>5
        <5> QED BY <3>4, <5>1 DEF Ahead
      <4>3. LoopOwes(f, kind, list')
        BY <3>2, <4>2 DEF LoopOwes
      <4> QED BY <1>1, <3>1, <4>1, <4>3 DEF f
    <3> QED BY <3>3, <3>4
  <2> QED BY <1>1, <2>1, <2>2
<1> QED BY <1>3, <1>6, <1>7, <1>8, <1>9 DEF IInv

\* The first place of a route in the list, or 0.
First(r) == SelectInSeq(list, LAMBDA x : x = r)

LEMMA FirstPlace ==
    ASSUME TypeOK, NEW r
    PROVE  /\ Listed(r) => First(r) \in 1..Len(list) /\ list[First(r)] = r
           /\ ~Listed(r) => First(r) = 0
<1> DEFINE I == {i \in 1..Len(list) : list[i] = r}
<1>1. I \subseteq Nat
  OBVIOUS
<1>2. I # {} => Min(I) \in I
  BY <1>1, LeastElement
<1>3. I # {} <=> Listed(r)
  BY DEF Listed
<1>4. First(r) = IF I # {} THEN Min(I) ELSE 0
  BY DEF SelectInSeq, First
<1> QED BY <1>2, <1>3, <1>4

\* Without erase the list is as long as it was, and lists every other route that
\* it listed.
LEMMA ShiftedKeeps ==
    ASSUME TypeOK, NEW r \in Routes
    PROVE  /\ Shifted(r) \in Seq(Routes \cup {Null}) /\ Len(Shifted(r)) = Len(list)
           /\ \A x \in Routes : x # r /\ Listed(x) =>
                 \E i \in 1..Len(list) : Shifted(r)[i] = x
<1> DEFINE first == First(r)
           n == Len(list)
           places == {i \in first + 1..n : list[i] # r}
           kept == Kept(list, places)
           moved == first - 1 + Len(kept)
<1>1. list \in Seq(Routes \cup {Null}) /\ n \in Nat /\ DOMAIN list = 1..n
  BY DEF TypeOK
<1>2. Shifted(r) = IF first = 0 THEN list
                   ELSE [i \in 1..n |-> IF i < first THEN list[i]
                                        ELSE IF i <= moved THEN kept[i - first + 1]
                                        ELSE IF list[i] = r THEN r ELSE Null]
  BY DEF Shifted, First
<1>3. /\ Listed(r) => first \in 1..n /\ list[first] = r
      /\ ~Listed(r) => first = 0
  BY FirstPlace
<1> HIDE DEF first
<1>4. CASE ~Listed(r)
  BY <1>1, <1>2, <1>3, <1>4 DEF Listed
<1>5. CASE Listed(r)
  <2>1. first \in 1..n /\ first \in Nat /\ list[first] = r
    BY <1>1, <1>3, <1>5
  <2>2. places \in SUBSET (1..n) /\ places \in SUBSET (first + 1..n)
    BY <1>1, <2>1
  <2>3. \A i \in places : list[i] \in Routes \cup {Null}
    BY <1>1, <2>2
  <2>4. kept \in Seq(Routes \cup {Null})
    BY <1>1, <2>2, <2>3, KeptType
  <2>5. /\ Len(kept) = Cardinality(places) /\ Len(kept) \in Nat
        /\ \A j \in places : /\ Rank(places, j) \in 1..Len(kept)
                             /\ kept[Rank(places, j)] = list[j]
    <3>1. /\ Cardinality(places) \in 0..n /\ Len(kept) = Cardinality(places)
          /\ \A j \in places : /\ Rank(places, j) \in 1..Cardinality(places)
                               /\ kept[Rank(places, j)] = list[j]
      <4>1. n \in Nat /\ places \in SUBSET (1..n)
        BY <1>1, <2>2
      <4> HIDE DEF places, n
      <4>2. Cardinality(places) \in 0..n /\ Len(Kept(list, places)) = Cardinality(places)
        BY <4>1, KeptLength
      <4>3. \A j \in places : /\ Rank(places, j) \in 1..Cardinality(places)
                              /\ Kept(list, places)[Rank(places, j)] = list[j]
        BY <4>1, KeptAt
      <4> QED BY <4>2, <4>3
    <3>2. Cardinality(places) \in Nat
      BY <1>1, <3>1
    <3> HIDE DEF places, kept
    <3> QED BY <3>1, <3>2
  <2>6. Len(kept) <= n - first
    <3>1. first + 1 \in Int /\ n \in Int /\ first <= n
      BY <1>1, <2>1
    <3>2. IsFiniteSet(first + 1..n) /\ Cardinality(first + 1..n) = n - first
      <4>1. IsFiniteSet(first + 1..n)
            /\ Cardinality(first + 1..n) = IF first + 1 > n THEN 0 ELSE n - (first + 1) + 1
        BY <3>1, FS_Interval
      <4> QED BY <1>1, <2>1, <4>1
    <3>3. Cardinality(places) <= Cardinality(first + 1..n)
      BY <2>2, <3>2, FS_Subset
    <3> QED BY <2>5, <3>2, <3>3
  <2> HIDE DEF places, kept
  <2>7. moved \in Int /\ moved <= n - 1 /\ n \in Nat
    BY <1>1, <2>1, <2>5, <2>6
  <2>8. \A i \in 1..n : ~(i < first) /\ i <= moved => kept[i - first + 1] \in Routes \cup {Null}
    <3> SUFFICES ASSUME NEW i \in 1..n, ~(i < first), i <= moved
                 PROVE  kept[i - first + 1] \in Routes \cup {Null}
      OBVIOUS
    <3>1. i - first + 1 \in 1..Len(kept)
      BY <1>1, <2>1, <2>5
    <3> QED BY <2>4, <3>1, ElementOfSeq
  <2> DEFINE s == [i \in 1..n |-> IF i < first THEN list[i]
                                 ELSE IF i <= moved THEN kept[i - first + 1]
                                 ELSE IF list[i] = r THEN r ELSE Null]
  <2>9. Shifted(r) = s
    BY <1>2, <2>1
  <2>10. \A i \in 1..n : s[i] \in Routes \cup {Null}
    <3> TAKE i \in 1..n
    <3>1. list[i] \in Routes \cup {Null}
      BY <1>1
    <3> QED BY <2>8, <3>1
  <2>11. s \in Seq(Routes \cup {Null}) /\ Len(s) = n
    BY <1>1, <2>10, IsASeq
  <2>12. ASSUME NEW x \in Routes, x # r, Listed(x)
         PROVE  \E i \in 1..n : s[i] = x
    <3>1. PICK j \in 1..n : list[j] = x
      BY <2>12 DEF Listed
    <3>2. CASE j < first
      BY <3>1, <3>2
    <3>3. CASE ~(j < first)
      <4>1. j \in first + 1..n
        BY <1>1, <2>1, <2>12, <3>1, <3>3
      <4>2. j \in places
        BY <2>12, <3>1, <4>1 DEF places
      <4> DEFINE q == Rank(places, j)
      <4>3. q \in 1..Len(kept) /\ kept[q] = x
        BY <2>5, <3>1, <4>2
      <4> HIDE DEF q
      <4>4. q + first - 1 \in 1..n /\ ~(q + first - 1 < first) /\ q + first - 1 <= moved
            /\ (q + first - 1) - first + 1 = q
        BY <1>1, <2>1, <2>5, <2>6, <4>3
      <4>5. s[q + first - 1] = kept[q]
        BY <4>4
      <4> QED BY <4>3, <4>4, <4>5
    <3> QED BY <3>2, <3>3
  <2> QED BY <2>9, <2>11, <2>12
<1> QED BY <1>4, <1>5

LEMMA RemovePersistentStep ==
    ASSUME IInv, NEW t \in Threads, removePersistent(t)
    PROVE  IInv'
<1> DEFINE r == Top(t).arg
<1>0. TypeOK /\ RegisteredIsListed /\ StackInv /\ ListInv /\ LoopsInv
  BY DEF IInv
<1>1. /\ frames[t] # <<>> /\ Top(t).op = "remove" /\ Top(t).at = "called"
      /\ kind = "persistence" /\ mutex = Free /\ ~undefined /\ Return(t)
      /\ UNCHANGED <<kind, mutex, undefined, erased, calls>>
      /\ list' = Shifted(r) /\ registered' = registered \ {r}
  BY DEF removePersistent, At, Enter, Running
<1>2. r \in Routes
  BY <1>0, <1>1, TopOf DEF StackInv, FrameFits
<1>3. /\ frames' \in [Threads -> Seq(Frames)] /\ StackInv' /\ Adders' \subseteq Adders \ {t}
      /\ \A u \in Threads : \A i \in DOMAIN frames'[u] : \E j \in DOMAIN frames[u] :
            frames'[u][i] = frames[u][j]
  BY <1>0, <1>1, Returned
<1>4. /\ list' \in Seq(Routes \cup {Null}) /\ Len(list') = Len(list)
      /\ \A x \in Routes : x # r /\ Listed(x) => \E i \in 1..Len(list) : list'[i] = x
  BY <1>0, <1>1, <1>2, ShiftedKeeps
<1>5. TypeOK'
  <2>1. registered' \subseteq Routes /\ erased' \subseteq Routes
    BY <1>0, <1>1 DEF TypeOK
  <2> QED BY <1>0, <1>1, <1>3, <1>4, <2>1 DEF TypeOK
<1>6. RegisteredIsListed'
  <2> SUFFICES ASSUME NEW x \in registered' PROVE \E i \in 1..Len(list') : list'[i] = x
    BY DEF RegisteredIsListed, Listed
  <2>1. x \in Routes /\ x # r /\ Listed(x)
    BY <1>0, <1>1 DEF TypeOK, RegisteredIsListed
  <2> QED BY <1>4, <2>1
<1>7. ListInv'
  <2>1. Len(list) \in Nat /\ calls \in Nat
    BY <1>0, ListIsShort
  <2>2. IsFiniteSet(Adders') /\ Len(list') + Cardinality(Adders') <= calls'
    BY <1>0, <1>1, <1>3, <1>4, <2>1, FewerAdders
  <2> QED BY <1>1, <2>2 DEF ListInv
<1>8. LoopsInv'
  <2> SUFFICES ASSUME NEW u \in Threads, NEW i \in DOMAIN frames'[u],
                      frames'[u][i].at # "called"
               PROVE  FALSE
    BY DEF LoopsInv, LoopPlace, LoopOwes, Ahead
  <2>1. PICK j \in DOMAIN frames[u] : frames'[u][i] = frames[u][j]
    BY <1>3
  <2>2. mutex = u
    BY <1>0, <1>1, <2>1 DEF StackInv
  <2> QED BY <1>1, <2>2, RoutersAssumption
<1> QED BY <1>3, <1>5, <1>6, <1>7, <1>8 DEF IInv

LEMMA RemoveSimpleStep ==
    ASSUME IInv, NEW t \in Threads, removeSimple(t)
    PROVE  IInv'
<1> DEFINE r == Top(t).arg
<1>0. TypeOK /\ RegisteredIsListed /\ StackInv /\ ListInv /\ LoopsInv
  BY DEF IInv
<1>1. /\ frames[t] # <<>> /\ Top(t).op = "remove" /\ Top(t).at = "called"
      /\ kind = "simple" /\ ~undefined /\ Return(t)
      /\ UNCHANGED <<kind, mutex, undefined, calls>>
      /\ \/ UNCHANGED <<list, erased>>
         \/ \E i \in Others(r) : /\ list' = RemoveAt(list, i)
                                 /\ erased' = (erased \cup {list[i]}) \ Range(list')
      /\ registered' = registered \ {r}
  BY DEF removeSimple, At, Running
<1>3. /\ frames' \in [Threads -> Seq(Frames)] /\ StackInv' /\ Adders' \subseteq Adders \ {t}
      /\ \A u \in Threads : \A i \in DOMAIN frames'[u] : \E j \in DOMAIN frames[u] :
            frames'[u][i] = frames[u][j]
  BY <1>0, <1>1, Returned
<1>4. /\ list \in Seq(Routes) /\ Len(list) \in Nat /\ DOMAIN list = 1..Len(list)
      /\ list \in Seq(Routes \cup {Null})
  BY <1>0, <1>1 DEF TypeOK, ListInv
<1>5. /\ list' \in Seq(Routes) /\ Len(list') \in Nat /\ Len(list') <= Len(list)
      /\ erased' \subseteq Routes
      /\ \A x \in Routes : Listed(x) \/ x \in erased =>
            x \in erased' \/ \E i \in 1..Len(list') : list'[i] = x
  <2>1. CASE UNCHANGED <<list, erased>>
    BY <1>0, <1>4, <2>1 DEF Listed, TypeOK
  <2>2. ASSUME NEW p \in Others(r), list' = RemoveAt(list, p),
               erased' = (erased \cup {list[p]}) \ Range(list')
        PROVE  <1>5!:
    <3> DEFINE n == Len(list)
               a == SubSeq(list, 1, p - 1)
               b == SubSeq(list, p + 1, n)
    <3>1. p \in 1..n /\ p \in Nat /\ list[p] \in Routes
      BY <1>4 DEF Others
    <3>2. a \in Seq(Routes) /\ Len(a) = p - 1 /\ \A i \in 1..(p - 1) : a[i] = list[i]
      <4>1. 1 \in Int /\ p - 1 \in Int /\ \A i \in 1..(p - 1) : list[i] \in Routes
        BY <1>4, <3>1
      <4>2. /\ a \in Seq(Routes) /\ Len(a) = IF 1 <= p - 1 THEN (p - 1) - 1 + 1 ELSE 0
            /\ \A i \in 1..(p - 1) - 1 + 1 : a[i] = list[1 + i - 1]
        BY <1>4, <4>1, SubSeqProperties
      <4> QED BY <3>1, <4>2
    <3>3. b \in Seq(Routes) /\ Len(b) = n - p /\ \A i \in 1..(n - p) : b[i] = list[p + i]
      <4>1. p + 1 \in Int /\ n \in Int /\ \A i \in p + 1..n : list[i] \in Routes
        BY <1>4, <3>1
      <4>2. /\ b \in Seq(Routes) /\ Len(b) = IF p + 1 <= n THEN n - (p + 1) + 1 ELSE 0
            /\ \A i \in 1..n - (p + 1) + 1 : b[i] = list[p + 1 + i - 1]
        BY <1>4, <4>1, SubSeqProperties
      <4>3. n - (p + 1) + 1 = n - p /\ n - p \in Nat /\ (p + 1 <= n \/ n - p = 0)
        <5>1. \A m \in Nat : \A q \in 1..m :
                 m - (q + 1) + 1 = m - q /\ m - q \in Nat /\ (q + 1 <= m \/ m - q = 0)
          OBVIOUS
        <5> QED BY <1>4, <3>1, <5>1
      <4>4. \A i \in 1..(n - p) : p + 1 + i - 1 = p + i
        BY <1>4, <3>1
      <4> HIDE DEF b
      <4>5. Len(b) = n - p
        BY <4>2, <4>3
      <4>6. \A i \in 1..(n - p) : b[i] = list[p + i]
        BY <4>2, <4>3, <4>4
      <4> QED BY <4>2, <4>5, <4>6
    <3>4. list' = a \o b
      BY <2>2 DEF RemoveAt
    <3> HIDE DEF a, b
    <3>5. /\ list' \in Seq(Routes) /\ Len(list') = n - 1
          /\ \A i \in 1..(n - 1) : list'[i] = IF i < p THEN list[i] ELSE list[i + 1]
      <4>1. /\ a \o b \in Seq(Routes) /\ Len(a \o b) = Len(a) + Len(b)
            /\ \A i \in 1..Len(a) + Len(b) :
                  (a \o b)[i] = IF i <= Len(a) THEN a[i] ELSE b[i - Len(a)]
        BY <3>2, <3>3, ConcatProperties
      <4>2. Len(a) + Len(b) = n - 1
        BY <1>4, <3>1, <3>2, <3>3
      <4>3. ASSUME NEW i \in 1..(n - 1)
            PROVE  list'[i] = IF i < p THEN list[i] ELSE list[i + 1]
        <5>1. CASE i < p
          BY <3>1, <3>2, <3>4, <4>1, <4>2, <5>1
        <5>2. CASE ~(i < p)
          <6>1. i - (p - 1) \in 1..(n - p) /\ p + (i - (p - 1)) = i + 1 /\ ~(i <= p - 1)
            BY <1>4, <3>1, <5>2
          <6> QED BY <3>2, <3>3, <3>4, <4>1, <4>2, <5>2, <6>1
        <5> QED BY <5>1, <5>2
      <4> QED BY <3>4, <4>1, <4>2, <4>3
    <3>6. ASSUME NEW x \in Routes, Listed(x), x # list[p]
          PROVE  \E i \in 1..(n - 1) : list'[i] = x
      <4>1. PICK j \in 1..n : list[j] = x
        BY <3>6 DEF Listed
      <4>2. j # p
        BY <3>6, <4>1
      <4>3. CASE j < p
        <5>1. j \in 1..(n - 1)
          BY <1>4, <3>1, <4>3
        <5> QED BY <3>5, <4>1, <4>3, <5>1
      <4>4. CASE j > p
        <5>1. j - 1 \in 1..(n - 1) /\ ~(j - 1 < p) /\ (j - 1) + 1 = j
          BY <1>4, <3>1, <4>4
        <5> QED BY <3>5, <4>1, <5>1
      <4> QED BY <3>1, <4>2, <4>3, <4>4
    <3>7. erased' \subseteq Routes
      BY <1>0, <2>2, <3>1 DEF TypeOK
    <3>8. ASSUME NEW x, x \in erased \/ x = list[p], x \notin erased'
          PROVE  \E i \in 1..Len(list') : list'[i] = x
      <4>1. x \in Range(list')
        BY <2>2, <3>8
      <4> QED BY <3>5, <4>1 DEF Range
    <3> QED BY <1>4, <3>1, <3>5, <3>6, <3>7, <3>8
  <2> QED BY <1>1, <2>1, <2>2
<1>6. TypeOK'
  <2>1. registered' \subseteq Routes /\ erased' \subseteq Routes
    BY <1>0, <1>1, <1>5 DEF TypeOK
  <2>2. list' \in Seq(Routes \cup {Null})
    BY <1>5, SeqMonotonic
  <2> QED BY <1>0, <1>1, <1>3, <2>1, <2>2 DEF TypeOK
<1>7. RegisteredIsListed'
  <2> SUFFICES ASSUME NEW x \in registered', x \notin erased'
               PROVE  \E i \in 1..Len(list') : list'[i] = x
    BY <1>1 DEF RegisteredIsListed, Listed
  <2>1. x \in Routes /\ (Listed(x) \/ x \in erased)
    BY <1>0, <1>1 DEF TypeOK, RegisteredIsListed
  <2> QED BY <1>5, <2>1
<1>8. ListInv'
  <2>1. Len(list) \in Nat /\ calls \in Nat
    BY <1>0, ListIsShort
  <2>2. IsFiniteSet(Adders') /\ Len(list') + Cardinality(Adders') <= calls'
    BY <1>0, <1>1, <1>3, <1>5, <2>1, FewerAdders
  <2> QED BY <1>5, <2>2 DEF ListInv
<1>9. LoopsInv'
  BY <1>0, <1>1, <1>3, LoopsKept
<1> QED BY <1>3, <1>6, <1>7, <1>8, <1>9 DEF IInv

\* A call comes on top of a stack.
LEMMA CallStep ==
    ASSUME IInv, NEW t \in Threads, Calls(t)
    PROVE  IInv'
<1>0. TypeOK /\ RegisteredIsListed /\ StackInv /\ ListInv /\ LoopsInv
  BY DEF IInv
<1>1. PICK op \in {"add", "remove", "post"}, arg \in Routes \cup Events :
          /\ Call(t, op, arg)
          /\ IF op = "post" THEN arg \in Events ELSE arg \in Routes
  <2>1. CASE \E r \in Routes : Call(t, "add", r) \/ Call(t, "remove", r)
    BY <2>1
  <2>2. CASE \E e \in Events : Call(t, "post", e)
    BY <2>2
  <2> QED BY <2>1, <2>2 DEF Calls
<1> DEFINE f == Frame(op, arg)
           F == frames[t]
           G == <<f>> \o F
<1>2. /\ ~undefined /\ calls < MaxCalls /\ calls' = calls + 1
      /\ kind = "broadcast" => t = Owner
      /\ F # <<>> => Top(t).at = "handler"
      /\ frames' = [frames EXCEPT ![t] = G]
      /\ UNCHANGED <<kind, list, mutex, undefined, registered, erased>>
  BY <1>1 DEF Call
<1>3. f \in Frames /\ FrameFits(f) /\ f.at = "called" /\ f.op = op
  <2>1. 0 \in 0..(MaxCalls + 1)
    BY RoutersAssumption
  <2>2. <<>> \in Seq(Routes)
    OBVIOUS
  <2> QED BY <1>1, <2>1, <2>2 DEF Frame, Frames, FrameFits
<1>4. frames \in [Threads -> Seq(Frames)] /\ F \in Seq(Frames) /\ Len(F) \in Nat
      /\ DOMAIN F = 1..Len(F)
  BY <1>0 DEF TypeOK
<1>5. /\ G \in Seq(Frames) /\ Len(G) = Len(F) + 1 /\ DOMAIN G = 1..(Len(F) + 1)
      /\ G[1] = f /\ \A i \in 2..(Len(F) + 1) : G[i] = F[i - 1]
  <2> HIDE DEF f, F
  <2> QED BY <1>3, <1>4, OnTop
<1>6. F # <<>> => F[1].at = "handler" /\ F[1].op = "post"
  <2> SUFFICES ASSUME F # <<>> PROVE F[1].at = "handler" /\ F[1].op = "post"
    OBVIOUS
  <2>1. Top(t) = F[1] /\ 1 \in DOMAIN F
    BY <1>0, TopOf
  <2>2. FrameFits(F[1]) /\ F[1].at = "handler"
    BY <1>0, <1>2, <2>1 DEF StackInv
  <2> QED BY <2>2 DEF FrameFits
<1> HIDE DEF f, F, G
<1>7. \A u \in Threads : frames'[u] = IF u = t THEN G ELSE frames[u]
  BY <1>2, <1>4
<1>8. frames' \in [Threads -> Seq(Frames)]
  BY <1>2, <1>4, <1>5
<1>9. ASSUME NEW i \in DOMAIN G
      PROVE  \/ i = 1 /\ G[i] = f
             \/ i > 1 /\ i - 1 \in DOMAIN F /\ G[i] = F[i - 1]
  <2>1. \A n \in Nat : \A k \in 1..(n + 1) :
            k = 1 \/ (k > 1 /\ k \in 2..(n + 1) /\ k - 1 \in 1..n)
    OBVIOUS
  <2>2. i = 1 \/ (i > 1 /\ i \in 2..(Len(F) + 1) /\ i - 1 \in 1..Len(F))
    BY <1>4, <1>5, <2>1
  <2> QED BY <1>4, <1>5, <2>2
<1>10. ASSUME NEW i \in DOMAIN F, i = 1 \/ i > 1
       PROVE  F[i].op = "post" /\ F[i].at = "handler"
  <2>1. CASE i = 1
    <3>1. F # <<>>
      BY <1>4, <2>1
    <3> QED BY <1>6, <2>1, <3>1
  <2>2. CASE i > 1
    BY <1>0, <2>2 DEF StackInv, F
  <2> QED BY <1>10, <2>1, <2>2
<1>11. \A u \in Threads : \A i \in DOMAIN frames'[u] :
          \/ \E j \in DOMAIN frames[u] : frames'[u][i] = frames[u][j]
          \/ frames'[u][i].at = "called"
  <2> TAKE u \in Threads
  <2>1. CASE u # t
    BY <1>7, <2>1
  <2>2. CASE u = t
    <3> TAKE i \in DOMAIN frames'[u]
    <3> QED BY <1>3, <1>7, <1>9, <2>2 DEF F
  <2> QED BY <2>1, <2>2
<1>12. TypeOK'
  <2>1. calls' \in 0..MaxCalls
    BY <1>0, <1>2, RoutersAssumption DEF TypeOK
  <2> QED BY <1>0, <1>2, <1>8, <2>1 DEF TypeOK
<1>13. RegisteredIsListed'
  BY <1>0, <1>2 DEF RegisteredIsListed, Listed
<1>14. StackInv'
  <2> SUFFICES ASSUME NEW u \in Threads, NEW i \in DOMAIN frames'[u]
               PROVE  /\ FrameFits(frames'[u][i])
                      /\ i > 1 => frames'[u][i].op = "post" /\ frames'[u][i].at = "handler"
                      /\ kind = "persistence" /\ frames'[u][i].at # "called" =>
                            mutex = u /\ i = Len(frames'[u])
                      /\ kind = "broadcast" => u = Owner
    BY <1>2 DEF StackInv, FrameFits
  <2>1. CASE u # t
    BY <1>0, <1>7, <2>1 DEF StackInv
  <2>2. CASE u = t
    <3>1. frames'[u] = G /\ i \in DOMAIN G
      BY <1>7, <2>2
    <3>2. CASE i = 1 /\ G[i] = f
      BY <1>2, <1>3, <2>2, <3>1, <3>2
    <3>3. CASE i > 1 /\ i - 1 \in DOMAIN F /\ G[i] = F[i - 1]
      <4>1. /\ FrameFits(F[i - 1])
            /\ kind = "persistence" /\ F[i - 1].at # "called" => mutex = t /\ i - 1 = Len(F)
        BY <1>0, <3>3 DEF StackInv, F
      <4>2. i - 1 = 1 \/ i - 1 > 1
        <5>1. i \in Int /\ i > 1
          BY <1>4, <1>5, <3>1, <3>3
        <5> QED BY <5>1
      <4>3. F[i - 1].op = "post" /\ F[i - 1].at = "handler"
        BY <1>10, <3>3, <4>2
      <4>4. i - 1 = Len(F) => i = Len(F) + 1
        <5>1. i \in Int /\ Len(F) \in Int
          BY <1>4, <1>5, <3>1
        <5> QED BY <5>1
      <4>5. Len(G) = Len(F) + 1
        BY <1>5
      <4> QED BY <1>2, <2>2, <3>1, <3>3, <4>1, <4>3, <4>4, <4>5
    <3> QED BY <1>9, <3>1, <3>2, <3>3
  <2> QED BY <2>1, <2>2
<1>15. ListInv'
  <2>1. Adders' \subseteq Adders \cup {t}
    BY <1>7 DEF Adders, Top
  <2>2. IsFiniteSet(Adders) /\ Cardinality(Adders) \in Nat
    BY <1>0, FS_CardinalityType DEF ListInv
  <2>3. IsFiniteSet(Adders \cup {t}) /\ Cardinality(Adders \cup {t}) <= Cardinality(Adders) + 1
        /\ Cardinality(Adders \cup {t}) \in Nat
    <3>1. /\ IsFiniteSet(Adders \cup {t})
          /\ Cardinality(Adders \cup {t}) =
                IF t \in Adders THEN Cardinality(Adders) ELSE Cardinality(Adders) + 1
      BY <2>2, FS_AddElement
    <3> QED BY <2>2, <3>1
  <2>4. IsFiniteSet(Adders') /\ Cardinality(Adders') <= Cardinality(Adders \cup {t})
    BY <2>1, <2>3, FS_Subset
  <2>5. Cardinality(Adders') \in Nat /\ Len(list) \in Nat /\ calls \in Nat
    BY <1>0, <2>4, FS_CardinalityType, ListIsShort
  <2>6. Len(list) + Cardinality(Adders) <= calls
    BY <1>0 DEF ListInv
  <2>7. Len(list) + Cardinality(Adders') <= calls'
    BY <1>2, <2>2, <2>3, <2>4, <2>5, <2>6
  <2> QED BY <1>0, <1>2, <2>4, <2>7 DEF ListInv
<1>16. LoopsInv'
  BY <1>0, <1>2, <1>11 DEF LoopsInv, LoopPlace, LoopOwes, Ahead
<1> QED BY <1>12, <1>13, <1>14, <1>15, <1>16 DEF IInv

\* The elements erased are those of the route, so that a loop keeps its element
\* and what is ahead of it.
LEMMA RemoveBroadcastStep ==
    ASSUME IInv, NEW t \in Threads, removeBroadcast(t)
    PROVE  IInv'
<1> DEFINE r == Top(t).arg
           F == frames[t]
           below == Tail(F)
           n == Len(list)
           kept == {i \in 1..n : list[i] # r}
           G == [k \in DOMAIN below |->
                    [below[k] EXCEPT !.pos = Rank(kept, @), !.due = @ \ {r}]]
<1>0. TypeOK /\ RegisteredIsListed /\ StackInv /\ ListInv /\ LoopsInv
  BY DEF IInv
<1>1. /\ F # <<>> /\ Top(t).op = "remove" /\ Top(t).at = "called"
      /\ kind = "broadcast" /\ ~undefined
      /\ list' = Kept(list, kept)
      /\ registered' = registered \ {r}
      /\ undefined' = \E k \in DOMAIN below : below[k].pos \notin kept
      /\ frames' = [frames EXCEPT ![t] = G]
      /\ UNCHANGED <<kind, mutex, erased, calls>>
  BY DEF removeBroadcast, At, Running
<1>2. r \in Routes
  BY <1>0, <1>1, TopOf DEF StackInv, FrameFits
<1>3. /\ F \in Seq(Frames) /\ Len(F) \in Nat /\ Len(F) > 0 /\ DOMAIN F = 1..Len(F)
      /\ below \in Seq(Frames) /\ DOMAIN below = 1..(Len(F) - 1)
      /\ \A i \in 1..(Len(F) - 1) : below[i] = F[i + 1]
  BY <1>0, <1>1, TopOf
<1>4. /\ list \in Seq(Routes) /\ n \in Nat /\ DOMAIN list = 1..n /\ n \in 0..calls
      /\ calls \in 0..MaxCalls /\ MaxCalls \in Nat
  <2>1. list \in Seq(Routes)
    BY <1>0, <1>1 DEF ListInv
  <2>2. n \in 0..calls /\ calls \in 0..MaxCalls /\ MaxCalls \in Nat
    BY <1>0, ListIsShort
  <2>3. n \in Nat /\ DOMAIN list = 1..n
    BY <2>1
  <2> QED BY <2>1, <2>2, <2>3
<1>5. kept \in SUBSET (1..n)
  OBVIOUS
<1> HIDE DEF n
<1>6. /\ Cardinality(kept) \in 0..n /\ Len(list') = Cardinality(kept)
      /\ \A j \in Nat : Rank(kept, j) \in 0..Cardinality(kept)
  <2> HIDE DEF kept
  <2>1. Cardinality(kept) \in 0..n /\ Len(Kept(list, kept)) = Cardinality(kept)
    BY <1>4, <1>5, KeptLength
  <2>2. \A j \in Nat : Rank(kept, j) \in 0..Cardinality(kept)
    BY <1>4, <1>5, Ranks
  <2> QED BY <1>1, <2>1, <2>2
<1>7. \A j \in kept : Rank(kept, j) \in 1..Len(list') /\ list'[Rank(kept, j)] = list[j]
  <2> HIDE DEF kept
  <2>1. \A j \in kept : /\ Rank(kept, j) \in 1..Cardinality(kept)
                        /\ Kept(list, kept)[Rank(kept, j)] = list[j]
    <3> TAKE j \in kept
    <3>1. n \in Nat
      BY <1>4
    <3> QED BY <1>5, <3>1, KeptAt
  <2> QED BY <1>1, <1>6, <2>1
<1>8. \A j, k \in kept : j < k => Rank(kept, j) < Rank(kept, k)
  <2>1. n \in Nat
    BY <1>4
  <2> HIDE DEF kept
  <2> QED BY <1>5, <2>1, Ranks
<1>9. list' \in Seq(Routes)
  <2>1. \A i \in kept : list[i] \in Routes
    BY <1>4
  <2> HIDE DEF kept
  <2> QED BY <1>1, <1>4, <1>5, <2>1, KeptType
<1>10. \A u \in Threads : frames'[u] = IF u = t THEN G ELSE frames[u]
  BY <1>0, <1>1 DEF TypeOK
<1>11. \A u \in Threads : u # t => DOMAIN frames[u] = {}
  <2> SUFFICES ASSUME NEW u \in Threads, u # t, NEW i \in DOMAIN frames[u]
               PROVE  FALSE
    OBVIOUS
  <2>1. u = Owner
    BY <1>0, <1>1 DEF StackInv
  <2>2. 1 \in DOMAIN F
    BY <1>3
  <2>3. t = Owner
    BY <1>0, <1>1, <2>2 DEF StackInv
  <2> QED BY <2>1, <2>3
<1>12. \A k \in DOMAIN below :
          /\ below[k] \in Frames /\ FrameFits(below[k])
          /\ below[k].op = "post" /\ below[k].at = "handler"
          /\ LoopPlace(below[k], kind, list) /\ LoopOwes(below[k], kind, list)
  <2> TAKE k \in DOMAIN below
  <2>1. below[k] = F[k + 1] /\ k + 1 \in DOMAIN F /\ k + 1 > 1
    BY <1>3
  <2>2. below[k].op = "post" /\ below[k].at = "handler" /\ FrameFits(below[k])
    BY <1>0, <2>1 DEF StackInv
  <2>3. LoopPlace(below[k], kind, list) /\ LoopOwes(below[k], kind, list)
    BY <1>0, <1>1, <2>1, <2>2 DEF LoopsInv
  <2> QED BY <1>3, <2>1, <2>2, <2>3
<1>13. DOMAIN G = DOMAIN below
  OBVIOUS
<1>14. \A k \in DOMAIN G :
          /\ G[k] = [below[k] EXCEPT !.pos = Rank(kept, @), !.due = @ \ {r}]
          /\ G[k] \in Frames
  <2> TAKE k \in DOMAIN G
  <2> DEFINE p == Rank(kept, below[k].pos)
  <2>1. G[k] = [below[k] EXCEPT !.pos = p, !.due = @ \ {r}]
    OBVIOUS
  <2>2. below[k] \in Frames
    BY <1>12
  <2>3. p \in 0..(MaxCalls + 1)
    <3>1. below[k].pos \in Nat
      BY <2>2, <1>4 DEF Frames
    <3>2. p \in 0..Cardinality(kept)
      BY <1>6, <3>1
    <3> HIDE DEF p, kept
    <3> QED BY <1>4, <1>6, <3>2
  <2> HIDE DEF p, kept
  <2>4. [below[k] EXCEPT !.pos = p, !.due = @ \ {r}] \in Frames
    BY <2>2, <2>3 DEF Frames
  <2> HIDE DEF G
  <2> QED BY <2>1, <2>4 DEF p
<1>15. \A k \in DOMAIN G :
          /\ G[k].op = "post" /\ G[k].at = "handler" /\ G[k].arg = below[k].arg
          /\ G[k].told = below[k].told /\ G[k].due = below[k].due \ {r}
          /\ G[k].pos = Rank(kept, below[k].pos)
  <2> TAKE k \in DOMAIN G
  <2>1. below[k] \in Frames /\ below[k].op = "post" /\ below[k].at = "handler"
    BY <1>12
  <2>2. G[k] = [below[k] EXCEPT !.pos = Rank(kept, @), !.due = @ \ {r}]
    OBVIOUS
  <2> HIDE DEF G, kept, below
  <2> QED BY <2>1, <2>2 DEF Frames
<1> HIDE DEF G
<1>16. G \in Seq(Frames)
  <2>1. DOMAIN G = 1..(Len(F) - 1) /\ Len(F) - 1 \in Nat
    BY <1>3, <1>13
  <2>2. G = [k \in 1..(Len(F) - 1) |-> G[k]]
    BY <2>1 DEF G
  <2>3. \A k \in 1..(Len(F) - 1) : G[k] \in Frames
    BY <1>14, <2>1
  <2>4. [k \in 1..(Len(F) - 1) |-> G[k]] \in Seq(Frames)
    BY <2>1, <2>3, IsASeq
  <2> QED BY <2>2, <2>4
<1>17. TypeOK'
  <2>1. registered' \subseteq Routes /\ erased' \subseteq Routes
    BY <1>0, <1>1 DEF TypeOK
  <2>2. list' \in Seq(Routes \cup {Null})
    BY <1>9, SeqMonotonic
  <2>3. frames' \in [Threads -> Seq(Frames)]
    BY <1>0, <1>1, <1>16 DEF TypeOK
  <2>4. undefined' \in BOOLEAN
    <3> HIDE DEF below, kept
    <3> QED BY <1>1
  <2>5. kind' \in Kinds /\ mutex' \in Threads \cup {Free} /\ calls' \in 0..MaxCalls
    BY <1>0, <1>1 DEF TypeOK
  <2> QED BY <2>1, <2>2, <2>3, <2>4, <2>5 DEF TypeOK
<1>18. RegisteredIsListed'
  <2> SUFFICES ASSUME NEW x \in registered' PROVE \E i \in 1..Len(list') : list'[i] = x
    BY DEF RegisteredIsListed, Listed
  <2>1. x # r /\ Listed(x)
    BY <1>0, <1>1 DEF RegisteredIsListed
  <2>2. PICK j \in 1..n : list[j] = x
    BY <2>1 DEF Listed, n
  <2>3. j \in kept
    BY <2>1, <2>2
  <2> QED BY <1>7, <2>2, <2>3
<1>19. StackInv'
  <2> SUFFICES ASSUME NEW u \in Threads, NEW i \in DOMAIN frames'[u]
               PROVE  /\ FrameFits(frames'[u][i])
                      /\ frames'[u][i].op = "post" /\ frames'[u][i].at = "handler"
                      /\ u = Owner
    BY <1>1 DEF StackInv, FrameFits
  <2>1. u = t /\ i \in DOMAIN G /\ frames'[u][i] = G[i]
    BY <1>10, <1>11
  <2>2. t = Owner
    BY <1>0, <1>1, <1>3 DEF StackInv
  <2> QED BY <1>12, <1>13, <1>15, <2>1, <2>2 DEF FrameFits
<1>20. ListInv'
  <2>1. Adders' \subseteq Adders
    <3> SUFFICES ASSUME NEW u \in Threads, frames'[u] # <<>>, Head(frames'[u]).op = "add"
                 PROVE  FALSE
      BY DEF Adders, Top
    <3>1. u = t
      <4> SUFFICES ASSUME u # t PROVE FALSE
        OBVIOUS
      <4>1. frames'[u] = frames[u] /\ DOMAIN frames[u] = {} /\ frames[u] \in Seq(Frames)
        BY <1>0, <1>10, <1>11 DEF TypeOK
      <4> QED BY <4>1
    <3>2. G # <<>> /\ Head(G).op = "add"
      BY <1>10, <3>1
    <3>3. 1 \in DOMAIN G /\ Head(G) = G[1]
      BY <1>16, <3>2
    <3> QED BY <1>15, <3>2, <3>3
  <2>2. Len(list') \in Nat /\ Len(list') <= Len(list) /\ calls' = calls /\ calls \in Nat
    BY <1>1, <1>4, <1>6 DEF n
  <2>3. IsFiniteSet(Adders') /\ Len(list') + Cardinality(Adders') <= calls'
    BY <1>0, <2>1, <2>2, FewerAdders
  <2> QED BY <1>9, <2>3 DEF ListInv
<1>21. LoopsInv'
  <2> SUFFICES ASSUME ~undefined', NEW u \in Threads, NEW i \in DOMAIN frames'[u]
               PROVE  /\ LoopPlace(frames'[u][i], kind, list')
                      /\ LoopOwes(frames'[u][i], kind, list')
    BY <1>1 DEF LoopsInv, LoopPlace, LoopOwes, Ahead
  <2>1. u = t /\ i \in DOMAIN G /\ i \in DOMAIN below /\ frames'[u][i] = G[i]
    BY <1>10, <1>11, <1>13
  <2> DEFINE f == below[i]
             g == G[i]
  <2>2. f.pos \in kept
    BY <1>1, <2>1
  <2>3. /\ LoopPlace(f, kind, list) /\ LoopOwes(f, kind, list) /\ f.at = "handler"
        /\ g.at = "handler" /\ g.told = f.told /\ g.due = f.due \ {r}
        /\ g.pos = Rank(kept, f.pos)
    BY <1>12, <1>15, <2>1
  <2> HIDE DEF f, g
  <2>4. g.pos \in 1..Len(list') /\ Len(list') \in Nat
    BY <1>4, <1>6, <1>7, <2>2, <2>3
  <2>5. LoopPlace(g, kind, list')
    BY <1>1, <2>3, <2>4 DEF LoopPlace
  <2>6. ASSUME NEW x \in g.due
        PROVE  (\E k \in DOMAIN g.told : g.told[k] = x) \/ x \in Ahead(g, kind, list')
    <3>1. x \in f.due /\ x # r
      BY <2>3
    <3>2. CASE \E k \in DOMAIN f.told : f.told[k] = x
      BY <2>3, <3>2
    <3>3. CASE x \in Ahead(f, kind, list)
      <4>1. PICK k \in 1..n : k > f.pos /\ list[k] = x
        BY <1>1, <2>3, <3>3 DEF Ahead, n
      <4>2. k \in kept
        BY <3>1, <4>1
      <4>3. Rank(kept, k) > Rank(kept, f.pos)
        <5>1. f.pos \in Nat /\ k \in Nat
          BY <2>2
        <5>2. f.pos < k
          BY <4>1, <5>1
        <5>3. Rank(kept, f.pos) < Rank(kept, k)
          BY <1>8, <2>2, <4>2, <5>2
        <5> HIDE DEF kept
        <5>4. Rank(kept, f.pos) \in Nat /\ Rank(kept, k) \in Nat
          <6>1. Cardinality(kept) \in Nat
            BY <1>4, <1>6
          <6>2. /\ Rank(kept, f.pos) \in 0..Cardinality(kept)
                /\ Rank(kept, k) \in 0..Cardinality(kept)
            BY <1>6, <5>1
          <6> QED BY <6>1, <6>2
        <5> QED BY <5>3, <5>4
      <4>4. Rank(kept, k) \in 1..Len(list') /\ list'[Rank(kept, k)] = x
        BY <1>7, <4>1, <4>2
      <4> HIDE DEF kept
      <4> QED BY <1>1, <2>3, <4>3, <4>4 DEF Ahead
    <3> QED BY <2>3, <3>1, <3>2, <3>3 DEF LoopOwes
  <2>7. LoopOwes(g, kind, list')
    BY <1>1, <2>6 DEF LoopOwes
  <2> QED BY <2>1, <2>5, <2>7 DEF g
<1> QED BY <1>17, <1>18, <1>19, <1>20, <1>21 DEF IInv

\* The loop begins with the whole list ahead of it.
LEMMA PostLoopStep ==
    ASSUME IInv, NEW t \in Threads, postLoop(t)
    PROVE  IInv'
<1> DEFINE e == Top(t).arg
           f == [Top(t) EXCEPT !.at = "loop", !.pos = 1, !.due = Owed(e)]
<1>0. TypeOK /\ RegisteredIsListed /\ StackInv /\ ListInv /\ LoopsInv
  BY DEF IInv
<1>1. /\ frames[t] # <<>> /\ Top(t).op = "post" /\ Top(t).at = "called" /\ Enter(t)
      /\ ~undefined /\ kind \in {"persistence", "broadcast"}
      /\ mutex' = IF kind = "persistence" THEN t ELSE mutex
      /\ frames' = Change(t, f)
      /\ UNCHANGED <<kind, list, undefined, registered, erased, calls>>
  BY DEF postLoop, At
<1>2. Top(t) \in Frames /\ FrameFits(Top(t)) /\ (kind = "broadcast" => t = Owner)
  BY <1>0, <1>1, TopOf DEF StackInv
<1>3. e \in Events
  BY <1>1, <1>2 DEF FrameFits
<1>4. Owed(e) \subseteq registered /\ (kind = "persistence" => Owed(e) \subseteq Matching[e])
  BY <1>1 DEF Owed
<1>5. f \in Frames
  <2>1. 1 \in 0..(MaxCalls + 1) /\ Owed(e) \in SUBSET Routes
    BY <1>0, <1>4, RoutersAssumption DEF TypeOK
  <2> QED BY <1>2, <2>1 DEF Frames
<1>6. /\ f.op = "post" /\ f.arg = e /\ f.at = "loop" /\ f.pos = 1 /\ f.due = Owed(e)
      /\ f.told = Top(t).told
  BY <1>1, <1>2 DEF Frames
<1> HIDE DEF f
<1>7. kind = "persistence" => mutex' = t /\ mutex \in {t, Free} /\ Len(frames[t]) = 1
  <2> SUFFICES ASSUME kind = "persistence"
               PROVE  mutex' = t /\ mutex \in {t, Free} /\ Len(frames[t]) = 1
    OBVIOUS
  <2>1. mutex = Free
    BY <1>1 DEF Enter
  <2> QED BY <1>0, <1>1, <2>1, OneCall
<1>8. /\ frames' \in [Threads -> Seq(Frames)] /\ StackInv' /\ Adders' \subseteq Adders
      /\ \A u \in Threads : \A i \in DOMAIN frames'[u] :
            \/ \E j \in DOMAIN frames[u] : frames'[u][i] = frames[u][j]
            \/ frames'[u][i] = f
  BY <1>0, <1>1, <1>2, <1>3, <1>5, <1>6, <1>7, Changed
<1>9. TypeOK'
  BY <1>0, <1>1, <1>8 DEF TypeOK
<1>10. RegisteredIsListed'
  BY <1>0, <1>1 DEF RegisteredIsListed, Listed
<1>11. ListInv'
  <2>1. Len(list) \in Nat /\ calls \in Nat
    BY <1>0, ListIsShort
  <2>2. IsFiniteSet(Adders') /\ Len(list') + Cardinality(Adders') <= calls'
    BY <1>0, <1>1, <1>8, <2>1, FewerAdders
  <2> QED BY <1>0, <1>1, <2>2 DEF ListInv
<1>12. LoopsInv'
  <2>1. LoopPlace(f, kind, list)
    <3>1. Len(list) \in Nat
      BY <1>0, ListIsShort
    <3> QED BY <1>1, <1>6, <3>1 DEF LoopPlace
  <2>2. LoopOwes(f, kind, list)
    <3>1. ASSUME NEW x \in f.due PROVE x \in Ahead(f, kind, list)
      <4>1. PICK i \in 1..Len(list) : list[i] = x
        BY <1>0, <1>1, <1>4, <1>6, <3>1 DEF RegisteredIsListed, Listed
      <4>2. i > 1 \/ i = 1
        <5>1. Len(list) \in Nat
          BY <1>0, ListIsShort
        <5> QED BY <5>1
      <4> QED BY <1>1, <1>6, <4>1, <4>2 DEF Ahead
    <3> QED BY <1>4, <1>6, <3>1 DEF LoopOwes
  <2> QED BY <1>0, <1>1, <1>8, <2>1, <2>2, LoopsChanged
<1> QED BY <1>8, <1>9, <1>10, <1>11, <1>12 DEF IInv

\* The snapshot has every route that the post owes a call.
LEMMA PostSnapshotStep ==
    ASSUME IInv, NEW t \in Threads, postSnapshot(t)
    PROVE  IInv'
<1> DEFINE e == Top(t).arg
           matching == {i \in 1..Len(list) :
                           Group[list[i]] = Group[e] /\ list[i] \in Matching[e]}
           rest == Kept(list, matching)
           f == [Top(t) EXCEPT !.at = "loop", !.due = Owed(e), !.rest = rest]
<1>0. TypeOK /\ RegisteredIsListed /\ StackInv /\ ListInv /\ LoopsInv
  BY DEF IInv
<1>1. /\ frames[t] # <<>> /\ Top(t).op = "post" /\ Top(t).at = "called"
      /\ ~undefined /\ kind = "simple" /\ frames' = Change(t, f)
      /\ UNCHANGED <<kind, list, mutex, undefined, registered, erased, calls>>
  BY DEF postSnapshot, At, Running
<1>2. Top(t) \in Frames /\ FrameFits(Top(t))
  BY <1>0, <1>1, TopOf DEF StackInv
<1>3. e \in Events /\ Top(t).pos = 0
  BY <1>1, <1>2 DEF FrameFits
<1>4. Owed(e) = {r \in (registered \ erased) \cap Matching[e] : Group[r] = Group[e]}
  BY <1>1 DEF Owed
<1>5. /\ list \in Seq(Routes) /\ Len(list) \in 0..calls /\ calls \in 0..MaxCalls
      /\ MaxCalls \in Nat /\ Len(list) \in Nat
  <2>1. list \in Seq(Routes)
    BY <1>0, <1>1 DEF ListInv
  <2> QED BY <1>0, <2>1, ListIsShort
<1>6. matching \in SUBSET (1..Len(list)) /\ \A i \in matching : list[i] \in Routes
  BY <1>5
<1>7. rest \in Seq(Routes) /\ Len(rest) = Cardinality(matching)
      /\ Cardinality(matching) \in 0..Len(list)
  <2> HIDE DEF matching
  <2>1. rest \in Seq(Routes)
    BY <1>5, <1>6, KeptType
  <2> QED BY <1>5, <1>6, <2>1, KeptLength
<1>8. \A j \in matching : \E i \in DOMAIN rest : rest[i] = list[j]
  <2> TAKE j \in matching
  <2> HIDE DEF matching
  <2>1. /\ Rank(matching, j) \in 1..Cardinality(matching)
        /\ Kept(list, matching)[Rank(matching, j)] = list[j]
    BY <1>5, <1>6, KeptAt
  <2>2. Rank(matching, j) \in DOMAIN rest
    <3> HIDE DEF rest
    <3> QED BY <1>7, <2>1
  <2> QED BY <2>1, <2>2
<1> HIDE DEF rest, matching
<1>9. f \in Frames
  <2>1. Owed(e) \in SUBSET Routes
    BY <1>0, <1>4 DEF TypeOK
  <2> QED BY <1>2, <1>7, <2>1 DEF Frames
<1>10. /\ f.op = "post" /\ f.arg = e /\ f.at = "loop" /\ f.pos = 0 /\ f.due = Owed(e)
       /\ f.rest = rest
  BY <1>1, <1>2, <1>3 DEF Frames
<1> HIDE DEF f
<1>11. /\ frames' \in [Threads -> Seq(Frames)] /\ StackInv' /\ Adders' \subseteq Adders
       /\ \A u \in Threads : \A i \in DOMAIN frames'[u] :
             \/ \E j \in DOMAIN frames[u] : frames'[u][i] = frames[u][j]
             \/ frames'[u][i] = f
  BY <1>0, <1>1, <1>3, <1>9, <1>10, Changed
<1>12. TypeOK'
  BY <1>0, <1>1, <1>11 DEF TypeOK
<1>13. RegisteredIsListed'
  BY <1>0, <1>1 DEF RegisteredIsListed, Listed
<1>14. ListInv'
  <2>1. calls \in Nat
    BY <1>5
  <2>2. IsFiniteSet(Adders') /\ Len(list') + Cardinality(Adders') <= calls'
    BY <1>0, <1>1, <1>5, <1>11, <2>1, FewerAdders
  <2> QED BY <1>1, <1>5, <2>2 DEF ListInv
<1>15. LoopsInv'
  <2>1. LoopPlace(f, kind, list)
    <3>1. Len(rest) \in Nat /\ Len(rest) <= MaxCalls
      BY <1>5, <1>7
    <3> QED BY <1>1, <1>5, <1>10, <3>1 DEF LoopPlace
  <2>2. LoopOwes(f, kind, list)
    <3>1. ASSUME NEW x \in f.due PROVE x \in Ahead(f, kind, list)
      <4>1. PICK j \in 1..Len(list) : list[j] = x
        BY <1>0, <1>4, <1>10, <3>1 DEF RegisteredIsListed, Listed
      <4>2. j \in matching
        BY <1>4, <1>10, <3>1, <4>1 DEF matching
      <4>3. PICK i \in DOMAIN rest : rest[i] = x
        BY <1>8, <4>1, <4>2
      <4> QED BY <1>1, <1>10, <4>3 DEF Ahead
    <3> QED BY <1>1, <3>1 DEF LoopOwes
  <2> QED BY <1>0, <1>1, <1>11, <2>1, <2>2, LoopsChanged
<1> QED BY <1>11, <1>12, <1>13, <1>14, <1>15 DEF IInv

\* What one more call does to the calls made.
LEMMA OneMoreTold ==
    ASSUME NEW s \in Seq(Routes), NEW r \in Routes
    PROVE  /\ Append(s, r) \in Seq(Routes)
           /\ \E i \in DOMAIN Append(s, r) : Append(s, r)[i] = r
           /\ \A x : (\E i \in DOMAIN s : s[i] = x) =>
                 \E i \in DOMAIN Append(s, r) : Append(s, r)[i] = x
<1>1. /\ Append(s, r) \in Seq(Routes) /\ Len(Append(s, r)) = Len(s) + 1 /\ Len(s) \in Nat
      /\ \A i \in 1..Len(s) : Append(s, r)[i] = s[i]
      /\ Append(s, r)[Len(s) + 1] = r
  BY AppendProperties, LenProperties
<1>2. DOMAIN s = 1..Len(s) /\ DOMAIN Append(s, r) = 1..(Len(s) + 1)
  BY <1>1, LenProperties
<1>3. Len(s) + 1 \in 1..(Len(s) + 1) /\ \A i \in 1..Len(s) : i \in 1..(Len(s) + 1)
  BY <1>1
<1> QED BY <1>1, <1>2, <1>3

\* A post that has begun goes on, and its loop keeps to its place.
LEMMA GoesOn ==
    ASSUME IInv, NEW t \in Threads, frames[t] # <<>>, Top(t).op = "post",
           Top(t).at # "called", ~undefined, NEW f \in Frames, frames' = Change(t, f),
           f.op = "post", f.arg = Top(t).arg, f.at # "called",
           UNCHANGED <<kind, list, mutex, registered, erased, calls>>, undefined' \in BOOLEAN,
           LoopPlace(f, kind, list), LoopOwes(f, kind, list)
    PROVE  IInv'
<1>0. TypeOK /\ RegisteredIsListed /\ StackInv /\ ListInv /\ LoopsInv
  BY DEF IInv
<1>1. /\ FrameFits(Top(t)) /\ (kind = "broadcast" => t = Owner)
      /\ kind = "persistence" => mutex = t
  BY <1>0, TopOf DEF StackInv
<1>2. kind = "persistence" => mutex' = t /\ mutex \in {t, Free} /\ Len(frames[t]) = 1
  BY <1>0, <1>1, OneCall
<1>3. f.arg \in Events
  BY <1>1 DEF FrameFits
<1>4. /\ frames' \in [Threads -> Seq(Frames)] /\ StackInv' /\ Adders' \subseteq Adders
      /\ \A u \in Threads : \A i \in DOMAIN frames'[u] :
            \/ \E j \in DOMAIN frames[u] : frames'[u][i] = frames[u][j]
            \/ frames'[u][i] = f
  BY <1>0, <1>1, <1>2, <1>3, Changed
<1>5. TypeOK'
  BY <1>0, <1>4 DEF TypeOK
<1>6. RegisteredIsListed'
  BY <1>0 DEF RegisteredIsListed, Listed
<1>7. ListInv'
  <2>1. Len(list) \in Nat /\ calls \in Nat
    BY <1>0, ListIsShort
  <2>2. IsFiniteSet(Adders') /\ Len(list') + Cardinality(Adders') <= calls'
    BY <1>0, <1>4, <2>1, FewerAdders
  <2> QED BY <1>0, <2>2 DEF ListInv
<1>8. LoopsInv'
  BY <1>0, <1>4, LoopsChanged
<1> QED BY <1>4, <1>5, <1>6, <1>7, <1>8 DEF IInv

\* The loop calls the handler of its element, or goes past one that owes no call.
LEMMA HandleStep ==
    ASSUME IInv, NEW t \in Threads, Handle(t)
    PROVE  IInv'
<1> DEFINE f == Top(t)
           r == list[f.pos]
           past == [f EXCEPT !.pos = @ + 1]
           calling == [f EXCEPT !.at = "handler", !.told = Append(@, r)]
<1>0. TypeOK /\ RegisteredIsListed /\ StackInv /\ ListInv /\ LoopsInv
  BY DEF IInv
<1>1. /\ frames[t] # <<>> /\ f.op = "post" /\ f.at = "loop" /\ f.pos \in 1..Len(list)
      /\ kind \in {"persistence", "broadcast"} /\ ~undefined /\ undefined' \in BOOLEAN
      /\ UNCHANGED <<kind, list, mutex, registered, erased, calls>>
  BY DEF Handle, At
<1>2. \/ /\ kind = "persistence" /\ (r = Null \/ r \notin Matching[f.arg])
         /\ frames' = Change(t, past)
      \/ /\ kind = "broadcast" \/ r \in Matching[f.arg]
         /\ frames' = Change(t, calling)
  BY DEF Handle
<1>3. f \in Frames /\ FrameFits(f) /\ LoopPlace(f, kind, list) /\ LoopOwes(f, kind, list)
  <2>1. f = frames[t][1] /\ 1 \in DOMAIN frames[t] /\ f \in Frames
    BY <1>0, <1>1, TopOf
  <2> QED BY <1>0, <1>1, <2>1 DEF StackInv, LoopsInv
<1>4. /\ Len(list) \in Nat /\ Len(list) <= MaxCalls /\ MaxCalls \in Nat /\ f.arg \in Events
      /\ list \in Seq(Routes \cup {Null}) /\ r \in Routes \cup {Null}
  <2>1. Len(list) \in 0..calls /\ calls \in 0..MaxCalls /\ MaxCalls \in Nat
    BY <1>0, ListIsShort
  <2>2. list \in Seq(Routes \cup {Null})
    BY <1>0 DEF TypeOK
  <2>3. r \in Routes \cup {Null}
    BY <1>1, <2>2
  <2>4. f.arg \in Events
    BY <1>1, <1>3 DEF FrameFits
  <2> QED BY <2>1, <2>2, <2>3, <2>4
<1>5. Matching[f.arg] \subseteq Routes /\ Null \notin Routes
  BY <1>4, RoutersAssumption
<1>6. ASSUME NEW x \in f.due, ~\E i \in DOMAIN f.told : f.told[i] = x, x # r
      PROVE  \E k \in 1..Len(list) : k > f.pos /\ list[k] = x
  <2>1. x \in Ahead(f, kind, list)
    BY <1>3, <1>6 DEF LoopOwes
  <2>2. PICK k \in 1..Len(list) : (k > f.pos \/ k = f.pos) /\ list[k] = x
    BY <1>1, <2>1 DEF Ahead
  <2> QED BY <1>6, <2>2
<1> HIDE DEF f, r
<1>7. CASE /\ kind = "persistence" /\ (r = Null \/ r \notin Matching[f.arg])
           /\ frames' = Change(t, past)
  <2>1. past \in Frames
    <3>1. f.pos + 1 \in 0..(MaxCalls + 1)
      BY <1>1, <1>4
    <3> QED BY <1>3, <3>1 DEF Frames
  <2>2. /\ past.op = "post" /\ past.arg = f.arg /\ past.at = "loop" /\ past.pos = f.pos + 1
        /\ past.due = f.due /\ past.told = f.told
    BY <1>1, <1>3 DEF Frames
  <2> HIDE DEF past
  <2>3. LoopPlace(past, kind, list)
    BY <1>1, <1>4, <1>7, <2>2 DEF LoopPlace
  <2>4. LoopOwes(past, kind, list)
    <3>1. ASSUME NEW x \in past.due
          PROVE  (\E i \in DOMAIN past.told : past.told[i] = x) \/ x \in Ahead(past, kind, list)
      <4>1. x \in Matching[f.arg] /\ x \in f.due
        BY <1>3, <1>7, <2>2, <3>1 DEF LoopOwes
      <4>2. x # r
        BY <1>5, <1>7, <4>1
      <4>3. CASE \E i \in DOMAIN f.told : f.told[i] = x
        BY <2>2, <4>3
      <4>4. CASE ~\E i \in DOMAIN f.told : f.told[i] = x
        <5>1. PICK k \in 1..Len(list) : k > f.pos /\ list[k] = x
          BY <1>6, <4>1, <4>2, <4>4
        <5>2. k > past.pos \/ k = past.pos
          BY <1>1, <1>4, <2>2, <5>1
        <5> QED BY <1>7, <2>2, <5>1, <5>2 DEF Ahead
      <4> QED BY <4>3, <4>4
    <3>2. past.due \subseteq Matching[past.arg]
      BY <1>3, <1>7, <2>2 DEF LoopOwes
    <3> QED BY <3>1, <3>2 DEF LoopOwes
  <2> QED BY <1>1, <1>7, <2>1, <2>2, <2>3, <2>4, GoesOn DEF f
<1>8. CASE /\ kind = "broadcast" \/ r \in Matching[f.arg]
           /\ frames' = Change(t, calling)
  <2>1. r \in Routes
    <3>1. CASE kind = "broadcast"
      <4>1. list \in Seq(Routes)
        BY <1>0, <3>1 DEF ListInv
      <4> QED BY <1>1, <4>1 DEF r
    <3>2. CASE r \in Matching[f.arg]
      BY <1>5, <3>2
    <3> QED BY <1>8, <3>1, <3>2
  <2>2. f.told \in Seq(Routes)
    BY <1>3 DEF Frames
  <2>3. /\ Append(f.told, r) \in Seq(Routes)
        /\ \E i \in DOMAIN Append(f.told, r) : Append(f.told, r)[i] = r
        /\ \A x : (\E i \in DOMAIN f.told : f.told[i] = x) =>
              \E i \in DOMAIN Append(f.told, r) : Append(f.told, r)[i] = x
    BY <2>1, <2>2, OneMoreTold
  <2>4. calling \in Frames
    BY <1>3, <2>3 DEF Frames
  <2>5. /\ calling.op = "post" /\ calling.arg = f.arg /\ calling.at = "handler"
        /\ calling.pos = f.pos /\ calling.due = f.due /\ calling.told = Append(f.told, r)
    BY <1>1, <1>3 DEF Frames
  <2> HIDE DEF calling
  <2>6. LoopPlace(calling, kind, list)
    BY <1>1, <1>4, <2>5 DEF LoopPlace
  <2>7. LoopOwes(calling, kind, list)
    <3>1. ASSUME NEW x \in calling.due,
                 ~\E i \in DOMAIN calling.told : calling.told[i] = x
          PROVE  x \in Ahead(calling, kind, list)
      <4>1. x \in f.due /\ x # r /\ ~\E i \in DOMAIN f.told : f.told[i] = x
        BY <2>3, <2>5, <3>1
      <4>2. PICK k \in 1..Len(list) : k > f.pos /\ list[k] = x
        BY <1>6, <4>1
      <4> QED BY <1>1, <2>5, <4>2 DEF Ahead
    <3>2. kind = "persistence" => calling.due \subseteq Matching[calling.arg]
      BY <1>3, <2>5 DEF LoopOwes
    <3> QED BY <3>1, <3>2 DEF LoopOwes
  <2> QED BY <1>1, <1>8, <2>4, <2>5, <2>6, <2>7, GoesOn DEF f
<1> QED BY <1>2, <1>7, <1>8 DEF f, r

LEMMA HandleSnapshotStep ==
    ASSUME IInv, NEW t \in Threads, HandleSnapshot(t)
    PROVE  IInv'
<1> DEFINE f == Top(t)
           r == Head(f.rest)
           calling == [f EXCEPT !.at = "handler", !.rest = Tail(@), !.told = Append(@, r)]
<1>0. TypeOK /\ RegisteredIsListed /\ StackInv /\ ListInv /\ LoopsInv
  BY DEF IInv
<1>1. /\ frames[t] # <<>> /\ f.op = "post" /\ f.at = "loop" /\ f.rest # <<>>
      /\ kind = "simple" /\ ~undefined /\ frames' = Change(t, calling)
      /\ UNCHANGED <<kind, list, mutex, undefined, registered, erased, calls>>
  BY DEF HandleSnapshot, At, Running
<1>2. undefined' \in BOOLEAN
  BY <1>0, <1>1 DEF TypeOK
<1>3. f \in Frames /\ LoopPlace(f, kind, list) /\ LoopOwes(f, kind, list)
  <2>1. f = frames[t][1] /\ 1 \in DOMAIN frames[t] /\ f \in Frames
    BY <1>0, <1>1, TopOf
  <2> QED BY <1>0, <1>1, <2>1 DEF LoopsInv
<1> HIDE DEF f
<1>4. f.rest \in Seq(Routes) /\ f.told \in Seq(Routes) /\ f.pos \in Nat
  BY <1>3, RoutersAssumption DEF Frames
<1>5. /\ Len(f.rest) \in Nat /\ Len(f.rest) > 0 /\ DOMAIN f.rest = 1..Len(f.rest)
      /\ r = f.rest[1] /\ r \in Routes
      /\ Tail(f.rest) \in Seq(Routes) /\ Len(Tail(f.rest)) = Len(f.rest) - 1
      /\ DOMAIN Tail(f.rest) = 1..(Len(f.rest) - 1)
      /\ \A i \in 1..(Len(f.rest) - 1) : Tail(f.rest)[i] = f.rest[i + 1]
  <2> DEFINE s == f.rest
  <2> HIDE DEF s
  <2>1. s \in Seq(Routes) /\ s # <<>>
    BY <1>1, <1>4 DEF s
  <2>2. Len(s) \in Nat /\ Len(s) > 0 /\ DOMAIN s = 1..Len(s) /\ Head(s) = s[1] /\ s[1] \in Routes
    BY <2>1
  <2>3. /\ Tail(s) \in Seq(Routes) /\ Len(Tail(s)) = Len(s) - 1
        /\ \A i \in 1..(Len(s) - 1) : Tail(s)[i] = s[i + 1]
    BY <2>1, HeadTailProperties
  <2>4. DOMAIN Tail(s) = 1..Len(Tail(s))
    BY <2>3, LenProperties
  <2> QED BY <2>2, <2>3, <2>4 DEF s
<1> HIDE DEF r
<1>6. /\ Append(f.told, r) \in Seq(Routes)
      /\ \E i \in DOMAIN Append(f.told, r) : Append(f.told, r)[i] = r
      /\ \A x : (\E i \in DOMAIN f.told : f.told[i] = x) =>
            \E i \in DOMAIN Append(f.told, r) : Append(f.told, r)[i] = x
  BY <1>4, <1>5, OneMoreTold
<1>7. calling \in Frames
  BY <1>3, <1>5, <1>6 DEF Frames
<1>8. /\ calling.op = "post" /\ calling.arg = f.arg /\ calling.at = "handler"
      /\ calling.pos = f.pos /\ calling.due = f.due /\ calling.told = Append(f.told, r)
      /\ calling.rest = Tail(f.rest)
  BY <1>1, <1>3 DEF Frames
<1>a. frames' = Change(t, calling)
  BY <1>1 DEF r, f
<1> HIDE DEF calling
<1>9. LoopPlace(calling, kind, list)
  <2>1. f.pos + Len(f.rest) <= MaxCalls
    BY <1>1, <1>3, <1>4, <1>5, RoutersAssumption DEF LoopPlace
  <2>2. Len(calling.rest) = Len(f.rest) - 1
    BY <1>5, <1>8
  <2>3. calling.pos + Len(calling.rest) + 1 <= MaxCalls
    <3>1. MaxCalls \in Nat /\ Len(f.rest) \in Nat
      BY <1>5, RoutersAssumption
    <3> QED BY <1>4, <1>8, <2>1, <2>2, <3>1
  <2> QED BY <1>1, <1>8, <2>3 DEF LoopPlace
<1>10. LoopOwes(calling, kind, list)
  <2> SUFFICES ASSUME NEW x \in f.due, ~\E i \in DOMAIN calling.told : calling.told[i] = x
               PROVE  x \in Ahead(calling, kind, list)
    BY <1>1, <1>8 DEF LoopOwes
  <2>1. x # r /\ ~\E i \in DOMAIN f.told : f.told[i] = x
    BY <1>6, <1>8
  <2>2. PICK k \in 1..Len(f.rest) : f.rest[k] = x
    BY <1>1, <1>3, <1>5, <2>1 DEF LoopOwes, Ahead
  <2>3. k # 1
    BY <1>5, <2>1, <2>2
  <2>4. k - 1 \in 1..(Len(f.rest) - 1) /\ (k - 1) + 1 = k
    <3>1. \A m \in Nat : \A q \in 1..m : q # 1 => q - 1 \in 1..(m - 1) /\ (q - 1) + 1 = q
      OBVIOUS
    <3> QED BY <1>5, <2>2, <2>3, <3>1
  <2>5. k - 1 \in DOMAIN calling.rest /\ calling.rest[k - 1] = x
    BY <1>5, <1>8, <2>2, <2>4
  <2> QED BY <1>1, <2>5 DEF Ahead
<1> QED BY <1>1, <1>2, <1>7, <1>8, <1>9, <1>10, <1>a, GoesOn DEF f

\* The loop goes on behind the element whose handler returned.
LEMMA HandlerReturnsStep ==
    ASSUME IInv, NEW t \in Threads, HandlerReturns(t)
    PROVE  IInv'
<1> DEFINE f == Top(t)
           on == [f EXCEPT !.at = "loop", !.pos = @ + 1]
<1>0. TypeOK /\ RegisteredIsListed /\ StackInv /\ ListInv /\ LoopsInv
  BY DEF IInv
<1>1. /\ frames[t] # <<>> /\ f.op = "post" /\ f.at = "handler" /\ ~undefined
      /\ frames' = Change(t, on)
      /\ UNCHANGED <<kind, list, mutex, undefined, registered, erased, calls>>
  BY DEF HandlerReturns, At
<1>2. undefined' \in BOOLEAN
  BY <1>0, <1>1 DEF TypeOK
<1>3. f \in Frames /\ LoopPlace(f, kind, list) /\ LoopOwes(f, kind, list)
  <2>1. f = frames[t][1] /\ 1 \in DOMAIN frames[t] /\ f \in Frames
    BY <1>0, <1>1, TopOf
  <2> QED BY <1>0, <1>1, <2>1 DEF LoopsInv
<1>4. Len(list) \in Nat /\ Len(list) <= MaxCalls /\ MaxCalls \in Nat
  <2>1. Len(list) \in 0..calls /\ calls \in 0..MaxCalls /\ MaxCalls \in Nat
    BY <1>0, ListIsShort
  <2> QED BY <2>1
<1> HIDE DEF f
<1>5. f.pos \in Nat /\ f.pos + 1 <= MaxCalls + 1 /\ Len(f.rest) \in Nat
  <2>1. f.pos \in 0..(MaxCalls + 1) /\ Len(f.rest) \in Nat
    <3>1. f.pos \in 0..(MaxCalls + 1) /\ f.rest \in Seq(Routes)
      BY <1>3 DEF Frames
    <3> QED BY <3>1, LenProperties
  <2>2. CASE kind = "simple"
    <3>1. f.pos + Len(f.rest) + 1 <= MaxCalls
      BY <1>1, <1>3, <2>2 DEF LoopPlace
    <3> QED BY <1>4, <2>1, <3>1
  <2>3. CASE kind # "simple"
    BY <1>1, <1>3, <1>4, <2>1, <2>3 DEF LoopPlace
  <2> QED BY <2>2, <2>3
<1>6. on \in Frames
  <2>1. f.pos + 1 \in 0..(MaxCalls + 1)
    BY <1>4, <1>5
  <2> QED BY <1>3, <2>1 DEF Frames
<1>7. /\ on.op = "post" /\ on.arg = f.arg /\ on.at = "loop" /\ on.pos = f.pos + 1
      /\ on.due = f.due /\ on.told = f.told /\ on.rest = f.rest
  BY <1>1, <1>3 DEF Frames
<1>a. frames' = Change(t, on)
  BY <1>1 DEF f
<1> HIDE DEF on
<1>8. LoopPlace(on, kind, list)
  <2>1. CASE kind = "simple"
    <3>1. f.pos + Len(f.rest) + 1 <= MaxCalls
      BY <1>1, <1>3, <2>1 DEF LoopPlace
    <3>2. on.pos + Len(on.rest) + 0 <= MaxCalls
      BY <1>4, <1>5, <1>7, <3>1
    <3> QED BY <1>7, <2>1, <3>2 DEF LoopPlace
  <2>2. CASE kind # "simple"
    BY <1>1, <1>3, <1>4, <1>5, <1>7, <2>2 DEF LoopPlace
  <2> QED BY <2>1, <2>2
<1>9. Ahead(f, kind, list) \subseteq Ahead(on, kind, list)
  <2>1. CASE kind = "simple"
    BY <1>7, <2>1 DEF Ahead
  <2>2. CASE kind # "simple"
    <3> SUFFICES ASSUME NEW k \in 1..Len(list), k > f.pos
                 PROVE  list[k] \in Ahead(on, kind, list)
      BY <1>1, <2>2 DEF Ahead
    <3>1. k > on.pos \/ k = on.pos
      BY <1>4, <1>5, <1>7
    <3> QED BY <1>7, <2>2, <3>1 DEF Ahead
  <2> QED BY <2>1, <2>2
<1>10. LoopOwes(on, kind, list)
  BY <1>3, <1>7, <1>9 DEF LoopOwes
<1> QED BY <1>1, <1>2, <1>6, <1>7, <1>8, <1>10, <1>a, GoesOn DEF f

LEMMA PostEndsStep ==
    ASSUME IInv, NEW t \in Threads, postEnds(t)
    PROVE  IInv'
<1>0. TypeOK /\ RegisteredIsListed /\ StackInv /\ ListInv /\ LoopsInv
  BY DEF IInv
<1>1. /\ frames[t] # <<>> /\ Top(t).at = "loop" /\ ~undefined /\ Return(t)
      /\ mutex' = IF kind = "persistence" THEN Free ELSE mutex
      /\ UNCHANGED <<kind, list, undefined, registered, erased, calls>>
  BY DEF postEnds, At
<1>2. /\ frames' \in [Threads -> Seq(Frames)] /\ StackInv' /\ Adders' \subseteq Adders \ {t}
      /\ \A u \in Threads : \A i \in DOMAIN frames'[u] : \E j \in DOMAIN frames[u] :
            frames'[u][i] = frames[u][j]
  BY <1>0, <1>1, Returned
<1>3. TypeOK'
  BY <1>0, <1>1, <1>2 DEF TypeOK
<1>4. RegisteredIsListed'
  BY <1>0, <1>1 DEF RegisteredIsListed, Listed
<1>5. ListInv'
  <2>1. Len(list) \in Nat /\ calls \in Nat
    BY <1>0, ListIsShort
  <2>2. IsFiniteSet(Adders') /\ Len(list') + Cardinality(Adders') <= calls'
    BY <1>0, <1>1, <1>2, <2>1, FewerAdders
  <2> QED BY <1>0, <1>1, <2>2 DEF ListInv
<1>6. LoopsInv'
  BY <1>0, <1>1, <1>2, LoopsKept
<1> QED BY <1>2, <1>3, <1>4, <1>5, <1>6 DEF IInv

------------------------------------------------------------------------------
LEMMA Inductive == IInv /\ [Next]_vars => IInv'
<1> SUFFICES ASSUME IInv, [Next]_vars PROVE IInv'
  OBVIOUS
<1>1. ASSUME UNCHANGED vars PROVE IInv'
  <2>1. TypeOK' /\ RegisteredIsListed'
    BY <1>1 DEF vars, IInv, TypeOK, RegisteredIsListed, Listed
  <2>2. StackInv'
    BY <1>1 DEF vars, IInv, StackInv, FrameFits
  <2>3. ListInv'
    BY <1>1 DEF vars, IInv, ListInv, Adders, Top
  <2>4. LoopsInv'
    BY <1>1 DEF vars, IInv, LoopsInv, LoopPlace, LoopOwes, Ahead
  <2> QED BY <2>1, <2>2, <2>3, <2>4 DEF IInv
<1>2. ASSUME NEW t \in Threads, Calls(t) PROVE IInv'
  BY <1>2, CallStep
<1>3. ASSUME NEW t \in Threads, GoOn(t) PROVE IInv'
  BY <1>3, AddStep, RemovePersistentStep, RemoveSimpleStep, RemoveBroadcastStep, PostLoopStep,
     PostSnapshotStep, HandleStep, HandleSnapshotStep, HandlerReturnsStep, PostEndsStep DEF GoOn
<1> QED BY <1>1, <1>2, <1>3 DEF Next

THEOREM InductiveInvariant == Spec => []IInv
BY Initially, Inductive, PTL DEF Spec

\* Whoever is in a handler of a PersistenceRouter holds its mutex.
LEMMA Exclusive == IInv => HandlersExclusive
BY DEF IInv, StackInv, HandlersExclusive

\* Every registered route is in the list, but for those that a SimpleRouter's remove
\* erased in place of the one it was given, and the handlers of a PersistenceRouter
\* are not run by two threads at once: RoutersInv, for any number of threads, routes
\* and calls.
THEOREM RoutesStayAndHandlersExclude == Spec => []RoutersInv
<1>1. IInv => RoutersInv
  BY Exclusive DEF IInv, RoutersInv
<1> QED BY <1>1, InductiveInvariant, PTL

\* A post that ends has called every route it owed a call: nothing is ahead of it.
LEMMA EndReached ==
    ASSUME IInv, NEW t \in Threads, At(t, "post", "loop"), AtEnd(Top(t)), ~undefined
    PROVE  Top(t).due \subseteq Range(Top(t).told)
<1> DEFINE f == Top(t)
<1>0. TypeOK /\ LoopsInv /\ frames[t] # <<>> /\ f.at = "loop"
  BY DEF IInv, At
<1>1. f = frames[t][1] /\ 1 \in DOMAIN frames[t] /\ f \in Frames
  BY <1>0, TopOf
<1>2. LoopPlace(f, kind, list) /\ LoopOwes(f, kind, list)
  BY <1>0, <1>1 DEF LoopsInv
<1> HIDE DEF f
<1>3. Ahead(f, kind, list) = {}
  <2>1. CASE kind = "simple"
    <3>1. f.rest = <<>>
      BY <2>1 DEF AtEnd, f
    <3> QED BY <2>1, <3>1 DEF Ahead
  <2>2. CASE kind # "simple"
    <3>1. f.pos > Len(list) /\ Len(list) \in Nat /\ f.pos \in Nat
      BY <1>0, <1>1, <2>2, RoutersAssumption DEF AtEnd, f, Frames, TypeOK
    <3>2. \A i \in 1..Len(list) : ~(i > f.pos \/ i = f.pos)
      BY <3>1
    <3> QED BY <2>2, <3>2 DEF Ahead
  <2> QED BY <2>1, <2>2
<1> QED BY <1>2, <1>3 DEF LoopOwes, Range, f

\* No other step takes a post off its stack while it is at its loop.
LEMMA PostsEndHere ==
    ASSUME IInv, [Next]_vars, NEW t \in Threads, At(t, "post", "loop"),
           Len(frames'[t]) < Len(frames[t])
    PROVE  AtEnd(Top(t)) /\ ~undefined
<1>0. TypeOK /\ frames[t] # <<>> /\ Top(t).op = "post" /\ Top(t).at = "loop"
      /\ frames \in [Threads -> Seq(Frames)]
  BY DEF IInv, At, TypeOK
<1>1. /\ frames[t] \in Seq(Frames) /\ Len(frames[t]) \in Nat /\ Len(frames[t]) > 0
      /\ Tail(frames[t]) \in Seq(Frames) /\ Len(Tail(frames[t])) = Len(frames[t]) - 1
  BY <1>0, TopOf
<1>2. CASE UNCHANGED vars
  BY <1>1, <1>2 DEF vars
<1>3. ASSUME NEW u \in Threads, NEW s, frames' = [frames EXCEPT ![u] = s], u # t
      PROVE  FALSE
  BY <1>0, <1>1, <1>3
<1>4. ASSUME NEW u \in Threads, Calls(u) PROVE FALSE
  <2>1. PICK f : frames' = [frames EXCEPT ![u] = <<f>> \o frames[u]]
    BY <1>0, <1>4 DEF Calls, Call
  <2>2. frames[u] # <<>> => Top(u).at = "handler"
    BY <1>4 DEF Calls, Call
  <2> QED BY <1>0, <1>3, <2>1, <2>2
<1>5. ASSUME NEW u \in Threads, GoOn(u), u # t PROVE FALSE
  <2>1. PICK s : frames' = [frames EXCEPT ![u] = s]
    BY <1>5 DEF GoOn, add, removePersistent, removeSimple, removeBroadcast, postLoop,
                postSnapshot, Handle, HandleSnapshot, HandlerReturns, postEnds, Return, Change
  <2> QED BY <1>3, <1>5, <2>1
<1>6. ASSUME GoOn(t) PROVE postEnds(t) \/ Handle(t) \/ HandleSnapshot(t)
  BY <1>0, <1>6 DEF GoOn, add, removePersistent, removeSimple, removeBroadcast, postLoop,
                    postSnapshot, HandlerReturns, At
<1>7. ASSUME Handle(t) \/ HandleSnapshot(t) PROVE FALSE
  <2>1. PICK f : frames' = [frames EXCEPT ![t] = <<f>> \o Tail(frames[t])]
    BY <1>0, <1>7 DEF Handle, HandleSnapshot, Change
  <2>2. frames'[t] = <<f>> \o Tail(frames[t])
    BY <1>0, <2>1
  <2>3. Len(<<f>> \o Tail(frames[t])) = 1 + Len(Tail(frames[t]))
    <3>1. <<f>> \in Seq({f} \cup Frames) /\ Tail(frames[t]) \in Seq({f} \cup Frames)
      BY <1>1, SeqMonotonic
    <3>2. Len(<<f>>) = 1
      OBVIOUS
    <3> QED BY <3>1, <3>2, ConcatProperties
  <2> QED BY <1>1, <2>2, <2>3
<1>8. CASE postEnds(t)
  BY <1>8 DEF postEnds
<1> QED BY <1>2, <1>4, <1>5, <1>6, <1>7, <1>8 DEF Next

\* A post calls every registered route that its router matches, whatever other
\* calls add and remove in the meantime: PostReachesAll.
THEOREM PostsReachAll == Spec => PostReachesAll
<1>1. IInv /\ [Next]_vars =>
          [\A t \in Threads :
              (At(t, "post", "loop") /\ Len(frames'[t]) < Len(frames[t]))
                  => Top(t).due \subseteq Range(Top(t).told)]_vars
  BY EndReached, PostsEndHere
<1> QED BY <1>1, InductiveInvariant, PTL DEF Spec, PostReachesAll

==============================================================================
