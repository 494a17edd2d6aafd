---------------------------- MODULE SharedRouters ----------------------------
(***************************************************************************)
(* The routers that keep their routes (caller/route): PersistenceRouter,   *)
(* which calls them under its mutex, SimpleRouter, which calls a snapshot  *)
(* outside its mutex, and BroadcastRouter, which has no mutex and is used  *)
(* by one thread. A route is a handler, and a handler may call the router  *)
(* again.                                                                  *)
(*                                                                         *)
(* A section under a mutex that calls no handler is one step. A handler    *)
(* runs between two steps of its post, and what it calls is a frame on top *)
(* of it. Where the program uses a null pointer or an erased element it is *)
(* undefined, and the model stops.                                         *)
(***************************************************************************)
EXTENDS Naturals, Sequences, SequencesExt, FiniteSetsExt

CONSTANTS
    Threads,    \* threads that call the router
    Owner,      \* the one that may call a broadcast router
    Kinds,      \* the routers considered
    Routes, Events,
    Null,       \* what std::remove leaves where it moved a pointer from
    Matching,   \* which routes match an event
    Group,      \* an id under the group mask, of routes and events
    Free,       \* the mutex is free
    MaxCalls,   \* bound on the number of calls
    MaxDepth    \* bound on the calls nested in one thread

ASSUME RoutersAssumption ==
    /\ Owner \in Threads /\ Free \notin Threads /\ Null \notin Routes
    /\ Kinds \subseteq {"persistence", "simple", "broadcast"} /\ Kinds # {}
    /\ Matching \in [Events -> SUBSET Routes]
    /\ DOMAIN Group = Routes \cup Events
    /\ MaxCalls \in Nat /\ MaxDepth \in Nat \ {0}

VARIABLES
    kind,        \* which of the three classes it is
    list,        \* _M_Routes, or the routes of _M_RouterList
    mutex,       \* _M_Mutex: who holds it
    frames,      \* the calls each thread is in, the innermost first
    undefined,   \* a null or erased element was used
    registered,  \* history: routes added, and not given to a remove since
    erased,      \* history: routes a SimpleRouter's remove of another one took out
    calls        \* number of calls made

vars == <<kind, list, mutex, frames, undefined, registered, erased, calls>>

\* A call: its argument, where it is, the position of its loop or the rest of
\* its snapshot, and, as history, the routes it owes a call and those it made.
Frame(op, arg) ==
    [op |-> op, arg |-> arg, at |-> "called", pos |-> 0, rest |-> <<>>, due |-> {},
     told |-> <<>>]

Init ==
    /\ kind \in Kinds
    /\ list = <<>>
    /\ mutex = Free
    /\ frames = [t \in Threads |-> <<>>]
    /\ undefined = FALSE
    /\ registered = {}
    /\ erased = {}
    /\ calls = 0

------------------------------------------------------------------------------
Top(t) == Head(frames[t])
Change(t, frame) == [frames EXCEPT ![t] = <<frame>> \o Tail(@)]
At(t, op, where) == frames[t] # <<>> /\ Top(t).op = op /\ Top(t).at = where
Running(k) == kind = k /\ ~undefined

\* What the thread returns to is a handler, or its own code.
Return(t) == frames' = [frames EXCEPT ![t] = Tail(@)]

\* A thread calls the router, from a handler or not.
Call(t, op, arg) ==
    /\ ~undefined /\ calls < MaxCalls
    /\ kind = "broadcast" => t = Owner
    /\ frames[t] # <<>> => Top(t).at = "handler" /\ Len(frames[t]) < MaxDepth
    /\ calls' = calls + 1
    /\ frames' = [frames EXCEPT ![t] = <<Frame(op, arg)>> \o @]
    /\ UNCHANGED <<kind, list, mutex, undefined, registered, erased>>

\* What of a list stands at some of its places, in order, and where a place is
\* among them.
Rank(kept, j) == Cardinality({i \in kept : i <= j})
Kept(l, kept) ==
    [i \in 1..Cardinality(kept) |-> l[CHOOSE j \in kept : Rank(kept, j) = i]]

\* The mutex is not recursive: a thread that holds it waits for itself.
Enter(t) == kind # "broadcast" => mutex = Free

------------------------------------------------------------------------------
\* PersistenceRouter::add refuses a route that is in the list; the others
\* take a route again.
Listed(r) == \E i \in 1..Len(list) : list[i] = r

add(t) ==
    LET r == Top(t).arg
    IN  /\ At(t, "add", "called") /\ Enter(t) /\ ~undefined
        /\ \/ /\ kind = "persistence" /\ Listed(r)
              /\ UNCHANGED <<list, registered, erased>>
           \/ /\ ~(kind = "persistence" /\ Listed(r))
              /\ list' = Append(list, r)
              /\ registered' = registered \cup {r}
              /\ erased' = erased \ {r}
        /\ Return(t)
        /\ UNCHANGED <<kind, mutex, undefined, calls>>

\* A remove that erases from the route to the end of the list.
RemoveToTheEnd(t) ==
    /\ At(t, "remove", "called") /\ Enter(t) /\ Running("persistence")
    /\ list' = SubSeq(list, 1, SelectInSeq(list, LAMBDA x : x = Top(t).arg) - 1)
    /\ registered' = registered \ {Top(t).arg}
    /\ Return(t)
    /\ UNCHANGED <<kind, mutex, undefined, erased, calls>>

\* std::remove with no erase: the elements behind the first match move up to
\* it, and as many null pointers as matches are left where the last were. At
\* the end of the list there is nothing to move, and the route stays.
Shifted(r) ==
    LET first == SelectInSeq(list, LAMBDA x : x = r)
        kept == Kept(list, {i \in first + 1..Len(list) : list[i] # r})
        moved == first - 1 + Len(kept)
    IN  IF first = 0 THEN list
        ELSE [i \in 1..Len(list) |->
                 IF i < first THEN list[i]
                 ELSE IF i <= moved THEN kept[i - first + 1]
                 ELSE IF list[i] = r THEN r ELSE Null]

removePersistent(t) ==
    /\ At(t, "remove", "called") /\ Enter(t) /\ Running("persistence")
    /\ list' = Shifted(Top(t).arg)
    /\ registered' = registered \ {Top(t).arg}
    /\ Return(t)
    /\ UNCHANGED <<kind, mutex, undefined, erased, calls>>

\* SimpleRouter::remove erases the first route of the group that is not the
\* one given, which stays; the order within a group is the container's.
SameGroup(r) == {x \in Routes : Group[x] = Group[r]}
Others(r) == {i \in 1..Len(list) : list[i] \in SameGroup(r) \ {r}}

removeSimple(t) ==
    LET r == Top(t).arg
    IN  /\ At(t, "remove", "called") /\ Enter(t) /\ Running("simple")
        /\ \/ Others(r) = {} /\ UNCHANGED <<list, erased>>
           \/ \E i \in Others(r) :
                 /\ list' = RemoveAt(list, i)
                 /\ erased' = (erased \cup {list[i]}) \ Range(list')
        /\ registered' = registered \ {r}
        /\ Return(t)
        /\ UNCHANGED <<kind, mutex, undefined, calls>>

\* BroadcastRouter::remove erases every element that is the route. Loops
\* further down keep their place, unless theirs is one of them.
removeBroadcast(t) ==
    LET r == Top(t).arg
        below == Tail(frames[t])
        kept == {i \in 1..Len(list) : list[i] # r}
    IN  /\ At(t, "remove", "called") /\ Running("broadcast")
        /\ list' = Kept(list, kept)
        /\ registered' = registered \ {r}
        /\ undefined' = \E k \in DOMAIN below : below[k].pos \notin kept
        /\ frames' = [frames EXCEPT ![t] = [k \in DOMAIN below |->
              [below[k] EXCEPT !.pos = Rank(kept, @), !.due = @ \ {r}]]]
        /\ UNCHANGED <<kind, mutex, erased, calls>>

------------------------------------------------------------------------------
\* What a post owes: a call of every registered route that its router matches
\* with the event, but for those that a SimpleRouter erased in place of another.
Owed(e) ==
    CASE kind = "persistence" -> registered \cap Matching[e]
      [] kind = "simple" ->
            {r \in (registered \ erased) \cap Matching[e] : Group[r] = Group[e]}
      [] kind = "broadcast" -> registered

\* PersistenceRouter::post and BroadcastRouter::post begin their loops.
postLoop(t) ==
    /\ At(t, "post", "called") /\ Enter(t) /\ ~undefined
    /\ kind \in {"persistence", "broadcast"}
    /\ mutex' = IF kind = "persistence" THEN t ELSE mutex
    /\ frames' = Change(t, [Top(t) EXCEPT !.at = "loop", !.pos = 1, !.due = Owed(Top(t).arg)])
    /\ UNCHANGED <<kind, list, undefined, registered, erased, calls>>

\* SimpleRouter::post takes its snapshot, in one section.
postSnapshot(t) ==
    LET e == Top(t).arg
        matching == {i \in 1..Len(list) : Group[list[i]] = Group[e] /\ list[i] \in Matching[e]}
    IN  /\ At(t, "post", "called") /\ Enter(t) /\ Running("simple")
        /\ frames' = Change(t, [Top(t) EXCEPT
              !.at = "loop", !.due = Owed(e), !.rest = Kept(list, matching)])
        /\ UNCHANGED <<kind, list, mutex, undefined, registered, erased, calls>>

\* The loop over the list calls the handler of the element it stands on. A
\* null pointer is used.
Handle(t) ==
    LET f == Top(t)
        r == list[f.pos]
    IN  /\ At(t, "post", "loop") /\ f.pos \in 1..Len(list)
        /\ kind \in {"persistence", "broadcast"} /\ ~undefined
        /\ undefined' = (kind = "persistence" /\ r = Null)
        /\ \/ /\ kind = "persistence" /\ (r = Null \/ r \notin Matching[f.arg])
              /\ frames' = Change(t, [f EXCEPT !.pos = @ + 1])
           \/ /\ kind = "broadcast" \/ r \in Matching[f.arg]
              /\ frames' = Change(t, [f EXCEPT !.at = "handler", !.told = Append(@, r)])
        /\ UNCHANGED <<kind, list, mutex, registered, erased, calls>>

\* The loop over the snapshot.
HandleSnapshot(t) ==
    LET f == Top(t)
    IN  /\ At(t, "post", "loop") /\ f.rest # <<>> /\ Running("simple")
        /\ frames' = Change(t, [f EXCEPT !.at = "handler", !.rest = Tail(@),
                                         !.told = Append(@, Head(f.rest))])
        /\ UNCHANGED <<kind, list, mutex, undefined, registered, erased, calls>>

HandlerReturns(t) ==
    /\ At(t, "post", "handler") /\ ~undefined
    /\ frames' = Change(t, [Top(t) EXCEPT !.at = "loop", !.pos = @ + 1])
    /\ UNCHANGED <<kind, list, mutex, undefined, registered, erased, calls>>

\* A loop over the snapshot and the list that ends in front of the last element.
PostEndsEarly(t) ==
    LET f == Top(t)
    IN  /\ At(t, "post", "loop") /\ ~undefined
        /\ IF kind = "simple" THEN f.rest = <<>> ELSE f.pos >= Len(list)
        /\ mutex' = IF kind = "persistence" THEN Free ELSE mutex
        /\ Return(t)
        /\ UNCHANGED <<kind, list, undefined, registered, erased, calls>>

\* The end of a post that keeps the mutex.
PostEndsLocked(t) ==
    /\ At(t, "post", "loop")
    /\ IF kind = "simple" THEN Top(t).rest = <<>> ELSE Top(t).pos > Len(list)
    /\ ~undefined
    /\ Return(t)
    /\ UNCHANGED <<kind, list, mutex, undefined, registered, erased, calls>>

\* The loop is over; the mutex of a PersistenceRouter is released.
AtEnd(f) == IF kind = "simple" THEN f.rest = <<>> ELSE f.pos > Len(list)

postEnds(t) ==
    /\ At(t, "post", "loop") /\ AtEnd(Top(t)) /\ ~undefined
    /\ mutex' = IF kind = "persistence" THEN Free ELSE mutex
    /\ Return(t)
    /\ UNCHANGED <<kind, list, undefined, registered, erased, calls>>

------------------------------------------------------------------------------
Calls(t) ==
    \/ \E r \in Routes : Call(t, "add", r) \/ Call(t, "remove", r)
    \/ \E e \in Events : Call(t, "post", e)

GoOn(t) ==
    \/ add(t)
    \/ removePersistent(t) \/ removeSimple(t) \/ removeBroadcast(t)
    \/ postLoop(t) \/ postSnapshot(t) \/ Handle(t) \/ HandleSnapshot(t)
    \/ HandlerReturns(t) \/ postEnds(t)

Next == \E t \in Threads : Calls(t) \/ GoOn(t)

Spec == Init /\ [][Next]_vars

\* Threads run, and handlers return.
FairSpec == Spec /\ \A t \in Threads : WF_vars(GoOn(t))

------------------------------------------------------------------------------
Frames == [op : {"add", "remove", "post"}, arg : Routes \cup Events,
           at : {"called", "loop", "handler"}, pos : 0..(MaxCalls + 1),
           rest : Seq(Routes), due : SUBSET Routes, told : Seq(Routes)]

TypeOK ==
    /\ kind \in Kinds
    /\ list \in Seq(Routes \cup {Null})
    /\ mutex \in Threads \cup {Free}
    /\ frames \in [Threads -> Seq(Frames)]
    /\ undefined \in BOOLEAN
    /\ registered \subseteq Routes
    /\ erased \subseteq Routes
    /\ calls \in 0..MaxCalls

\* No two threads are in the handlers of one PersistenceRouter, which a route
\* may count on: post holds the mutex from its first handler to its last.
HandlersExclusive ==
    kind = "persistence" =>
        \A t, u \in Threads :
            (\E i \in DOMAIN frames[t], j \in DOMAIN frames[u] :
                frames[t][i].at = "handler" /\ frames[u][j].at = "handler") => t = u

\* A registered route is in the list: no remove, which leaves null pointers in a
\* PersistenceRouter, takes any other route from it or from a BroadcastRouter. A
\* SimpleRouter is without the routes its remove erased in place of the one given,
\* and without no others.
RegisteredIsListed ==
    \A r \in registered : Listed(r) \/ (kind = "simple" /\ r \in erased)

\* A post calls every registered route that the router matches, one that was
\* added again, or behind a removed one, too, unless a SimpleRouter's remove of
\* another route erased it (simplerouter.cpp:63); a route that a handler of a
\* BroadcastRouter removes in the meantime need not be called.
PostReachesAll ==
    [][\A t \in Threads :
          (At(t, "post", "loop") /\ Len(frames'[t]) < Len(frames[t]))
              => Top(t).due \subseteq Range(Top(t).told)]_vars

\* A registered route is missing only as said above, and handlers that count on it
\* are not run by two threads at once.
RoutersInv == TypeOK /\ RegisteredIsListed /\ HandlersExclusive

\* A handler of a PersistenceRouter called it and waits for its own thread.
SelfLocked ==
    \E t \in Threads : mutex = t /\ Len(frames[t]) > 1 /\ Top(t).at = "called"

\* Every call returns, also from a router whose handlers call it, unless the
\* router is a PersistenceRouter: such a handler waits for ever, and everybody with it.
CallsReturn ==
    \A t \in Threads :
        (frames[t] # <<>>) ~> (frames[t] = <<>> \/ undefined \/ SelfLocked)

==============================================================================
