--------------------------- MODULE TemporaryRouter ---------------------------
(***************************************************************************)
(* TemporaryRouter (caller/route): a list of one-shot routes, in the order *)
(* they were added. It has no lock and is used by one thread, but post()   *)
(* runs the handler of a matched route in the middle of its loop, and the  *)
(* handler may call the router again: the loops under way are a stack of   *)
(* frames, and a handler is a place where the thread may do anything.      *)
(*                                                                         *)
(* An ID is the set of its bits, so that x & mask is an intersection.      *)
(***************************************************************************)
EXTENDS Naturals, Sequences, SequencesExt

CONSTANTS
    Routes,          \* the Route objects
    Events,          \* the events posted
    IDs,             \* identifiers and masks: sets of bits
    End,             \* the iterator past the last route
    ID, IDMask,                          \* of a route
    SequenceNumber, SequenceNumberMask,  \* of a route
    EventID, EventSequenceNumber,        \* of an event
    HandlerCalls,    \* what handlers do: a subset of {"add", "remove", "post"}
    MaxDepth,        \* bound on the loops under way at once
    MaxAdds          \* bound on the registrations of each route

ASSUME RouterAssumption ==
    /\ End \notin Routes
    /\ {ID, IDMask, SequenceNumber, SequenceNumberMask} \subseteq [Routes -> IDs]
    /\ {EventID, EventSequenceNumber} \subseteq [Events -> IDs]
    /\ HandlerCalls \subseteq {"add", "remove", "post"}
    /\ MaxDepth \in Nat /\ MaxAdds \in Nat

VARIABLES
    _M_Routes,   \* the list
    frames,      \* the calls of post under way, the innermost first
    dangling,    \* a loop's iterator was erased under it: undefined behaviour
    adds, fires, removes  \* per route: registrations, posts, effective removals

vars == <<_M_Routes, frames, dangling, adds, fires, removes>>
history == <<adds, fires, removes>>

\* A call of post: the event, the position of its iterator, the route whose
\* handler runs (or End), and the routes it still owes the event to.
Frames == [event : Events, beg : Routes \cup {End}, running : Routes \cup {End},
           due : SUBSET Routes]

Init ==
    /\ _M_Routes = <<>>
    /\ frames = <<>>
    /\ dangling = FALSE
    /\ adds = [r \in Routes |-> 0]
    /\ fires = [r \in Routes |-> 0]
    /\ removes = [r \in Routes |-> 0]

------------------------------------------------------------------------------
\* Route::match.
match(r, e) ==
    /\ ID[r] \cap IDMask[r] = EventID[e] \cap IDMask[r]
    /\ EventSequenceNumber[e] \cap SequenceNumberMask[r]
         = SequenceNumber[r] \cap SequenceNumberMask[r]

Listed == ToSet(_M_Routes)
First == IF _M_Routes = <<>> THEN End ELSE Head(_M_Routes)

\* The iterator after r.
After(r) ==
    LET i == CHOOSE i \in 1..Len(_M_Routes) : _M_Routes[i] = r
    IN  IF i = Len(_M_Routes) THEN End ELSE _M_Routes[i + 1]

\* The thread is in the program, or in the handler of a route that makes
\* such calls.
MayCall(what) ==
    /\ ~dangling
    /\ frames # <<>> => frames[1].running # End /\ what \in HandlerCalls

\* Nobody owes a route that left the list an event.
Forgive(r, calls) == [i \in DOMAIN calls |-> [calls[i] EXCEPT !.due = @ \ {r}]]

\* Another frame's iterator points at the route that is erased.
Dangles(r, calls) == \E i \in DOMAIN calls : calls[i].beg = r

\* The comment of add has a route refused for its id alone; the code compares both.
SameKey(r, s) == ID[r] = ID[s] /\ SequenceNumber[r] = SequenceNumber[s]

add(r) ==
    LET known == \E s \in Listed : SameKey(r, s)
    IN  /\ MayCall("add")
        /\ adds[r] < MaxAdds
        /\ _M_Routes' = IF known THEN _M_Routes ELSE Append(_M_Routes, r)
        /\ adds' = [adds EXCEPT ![r] = IF known THEN @ ELSE @ + 1]
        /\ UNCHANGED <<frames, dangling, fires, removes>>

remove(r) ==
    /\ MayCall("remove")
    /\ r \in Listed
    /\ _M_Routes' = RemoveFirst(_M_Routes, r)
    /\ removes' = [removes EXCEPT ![r] = @ + 1]
    /\ frames' = Forgive(r, frames)
    /\ dangling' = Dangles(r, frames)
    /\ UNCHANGED <<adds, fires>>

\* post begins: the iterator is at the first route.
post(e) ==
    /\ MayCall("post")
    /\ Len(frames) < MaxDepth
    /\ frames' = Cons([event |-> e, beg |-> First, running |-> End,
                       due |-> {r \in Listed : match(r, e)}], frames)
    /\ UNCHANGED <<_M_Routes, dangling, history>>

InLoop == frames # <<>> /\ frames[1].running = End /\ ~dangling
Outer == Tail(frames)

\* One turn of the loop: a route that does not match is passed ...
Skip ==
    /\ InLoop /\ frames[1].beg # End
    /\ ~match(frames[1].beg, frames[1].event)
    /\ frames' = [frames EXCEPT ![1].beg = After(@)]
    /\ UNCHANGED <<_M_Routes, dangling, history>>

\* ... one that does is erased, and then its handler runs.
FireSkippingNext ==
    LET r == frames[1].beg
        next == After(r)
    IN  /\ InLoop /\ r # End
        /\ match(r, frames[1].event)
        /\ _M_Routes' = RemoveFirst(_M_Routes, r)
        /\ fires' = [fires EXCEPT ![r] = @ + 1]
        /\ frames' = <<[frames[1] EXCEPT !.beg = IF next = End THEN End ELSE After(next),
                                         !.running = r, !.due = @ \ {r}]>>
                       \o Forgive(r, Outer)
        /\ dangling' = Dangles(r, Outer)
        /\ UNCHANGED <<adds, removes>>

FireKeeping ==
    LET r == frames[1].beg
    IN  /\ InLoop /\ r # End
        /\ match(r, frames[1].event)
        /\ fires' = [fires EXCEPT ![r] = @ + 1]
        /\ frames' = <<[frames[1] EXCEPT !.beg = After(r), !.running = r, !.due = @ \ {r}]>>
                       \o Forgive(r, Outer)
        /\ UNCHANGED <<_M_Routes, dangling, adds, removes>>

Fire ==
    LET r == frames[1].beg
    IN  /\ InLoop /\ r # End
        /\ match(r, frames[1].event)
        /\ _M_Routes' = RemoveFirst(_M_Routes, r)
        /\ fires' = [fires EXCEPT ![r] = @ + 1]
        /\ frames' = <<[frames[1] EXCEPT !.beg = After(r), !.running = r, !.due = @ \ {r}]>>
                       \o Forgive(r, Outer)
        /\ dangling' = Dangles(r, Outer)
        /\ UNCHANGED <<adds, removes>>

\* The handler returns to the loop of the innermost post.
HandlerReturns ==
    /\ ~dangling /\ frames # <<>> /\ frames[1].running # End
    /\ frames' = [frames EXCEPT ![1].running = End]
    /\ UNCHANGED <<_M_Routes, dangling, history>>

\* The loop reached the end: post returns.
PostReturns ==
    /\ InLoop /\ frames[1].beg = End
    /\ frames' = Outer
    /\ UNCHANGED <<_M_Routes, dangling, history>>

Next ==
    \/ \E r \in Routes : add(r) \/ remove(r)
    \/ \E e \in Events : post(e)
    \/ Skip \/ Fire \/ HandlerReturns \/ PostReturns

Spec == Init /\ [][Next]_vars

------------------------------------------------------------------------------
TypeOK ==
    /\ _M_Routes \in Seq(Routes)
    /\ frames \in Seq(Frames)
    /\ dangling \in BOOLEAN
    /\ \A count \in {adds, fires, removes} : count \in [Routes -> 0..MaxAdds]

\* A registration is served once and then over: every accepted add is still in
\* the list, was removed, or fired, whatever handlers did in the loops.
OneShot ==
    \A r \in Routes :
        adds[r] = fires[r] + removes[r] + (IF r \in Listed THEN 1 ELSE 0)

\* The list holds one route per key, so that a reply that carries an exact id
\* and sequence number fires one handler.
OneRoutePerKey ==
    \A i, j \in 1..Len(_M_Routes) : SameKey(_M_Routes[i], _M_Routes[j]) => i = j

\* Registrations are kept and keys unique, whatever handlers do to the list.
RouterInv == TypeOK /\ OneShot /\ OneRoutePerKey

\* A post that returns reached every route that was listed when it began and
\* that nobody took out meanwhile, although handlers changed the list under it.
PostReachesAll ==
    InLoop /\ frames[1].beg = End => frames[1].due = {}

==============================================================================
