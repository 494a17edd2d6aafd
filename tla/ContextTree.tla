----------------------------- MODULE ContextTree -----------------------------
(***************************************************************************)
(* Cancellation of Contexts (caller/context): a context tells its children *)
(* that it is done through the future of its Done() channel, and every     *)
(* child detaches itself from its parent when it is done. Contexts are     *)
(* made and cancelled by any thread.                                       *)
(*                                                                         *)
(* Each section under a mutex is one step: the children and the error of a *)
(* context, and the state and listeners of its done future (which behaves  *)
(* as Promise says). Listeners run in the thread that completes a future,  *)
(* or that adds them to a completed one, and nest: what a thread still has *)
(* to do is a list of steps, to which a listener adds its own in front.    *)
(*                                                                         *)
(* The only error there is is that of cancel(): setError is protected and  *)
(* called by the listener on the parent alone. So _M_Err and the result of *)
(* the done future are sets: the contexts that have one.                   *)
(***************************************************************************)
EXTENDS Integers, Sequences, SequencesExt

CONSTANTS
    Threads,
    Contexts,   \* contexts that may be made, the background aside
    Cancelable, \* those made by withCancel; the others by withValue
    Background, \* Context::backgroundContext(), which nothing can cancel
    Parent      \* the parent each context is made with

ASSUME TreeAssumption ==
    /\ Background \notin Contexts
    /\ Cancelable \subseteq Contexts
    /\ Parent \in [Contexts -> Contexts \cup {Background}]

All == Contexts \cup {Background}

VARIABLES
    err,        \* contexts whose _M_Err is set
    done,       \* contexts whose _M_DoneSender has its result
    signal,     \* the listeners of _M_DoneSender, in order
    children,   \* _M_Childrens
    made,       \* contexts that withCancel or withValue has returned
    todo        \* the steps each thread has left

vars == <<err, done, signal, children, made, todo>>

Step(do, context) == [do |-> do, context |-> context]
Steps == [do : {"addChild", "listenParent", "listenSelf", "return", "setErr",
                "report", "removeChild", "unlisten"},
          context : Contexts]

\* Two listeners exist per context: the one that tells it of its parent, and
\* the one that detaches it when it is done itself.
Listener(role, context) == [role |-> role, context |-> context]
Listeners == [role : {"fromParent", "detach"}, context : Contexts]

Init ==
    /\ err = {}
    /\ done = {}
    /\ signal = [c \in All |-> <<>>]
    /\ children = [c \in All |-> {}]
    /\ made = {Background}
    /\ todo = [t \in Threads |-> <<>>]

Idle(t) == todo[t] = <<>>
Doing(t, what) == ~Idle(t) /\ Head(todo[t]).do = what
Current(t) == Head(todo[t]).context
GoOnWith(t, steps) == todo' = [todo EXCEPT ![t] = steps \o Tail(@)]

\* A thread is in the call that makes c.
Making(c) == \E t \in Threads : Step("return", c) \in ToSet(todo[t])

------------------------------------------------------------------------------
\* What a listener does when the future it listens to has its result.
Handle(listener) ==
    LET c == listener.context
    IN  IF listener.role = "fromParent"
        THEN <<Step("setErr", c), Step("report", c)>>
        ELSE <<Step("removeChild", c), Step("unlisten", c)>>

HandleAll(listeners) ==
    [i \in 1..2 * Len(listeners) |-> Handle(listeners[(i + 1) \div 2])[2 - (i % 2)]]

\* Context::withCancel and withValue: a new context, setParent, and return.
setParent(t, c) ==
    /\ Idle(t)
    /\ c \notin made /\ ~Making(c) /\ Parent[c] \in made
    /\ todo' = [todo EXCEPT ![t] = <<Step("addChild", c), Step("listenParent", c),
                                     Step("listenSelf", c), Step("return", c)>>]
    /\ UNCHANGED <<err, done, signal, children, made>>

addChild(t) ==
    /\ Doing(t, "addChild")
    /\ children' = [children EXCEPT ![Parent[Current(t)]] = @ \cup {Current(t)}]
    /\ GoOnWith(t, <<>>)
    /\ UNCHANGED <<err, done, signal, made>>

\* A listener added to a future that has its result runs at once.
AddListenerLate(t, c, listener) ==
    /\ signal' = [signal EXCEPT ![c] = Append(@, listener)]
    /\ GoOnWith(t, <<>>)
    /\ UNCHANGED <<err, done, children, made>>

addListener(t, c, listener) ==
    /\ \/ /\ c \notin done
          /\ signal' = [signal EXCEPT ![c] = Append(@, listener)]
          /\ GoOnWith(t, <<>>)
       \/ /\ c \in done
          /\ GoOnWith(t, Handle(listener))
          /\ UNCHANGED signal
    /\ UNCHANGED <<err, done, children, made>>

listenParent(t) ==
    /\ Doing(t, "listenParent")
    /\ addListener(t, Parent[Current(t)], Listener("fromParent", Current(t)))

listenSelf(t) ==
    /\ Doing(t, "listenSelf")
    /\ addListener(t, Current(t), Listener("detach", Current(t)))

Return(t) ==
    /\ Doing(t, "return")
    /\ made' = made \cup {Current(t)}
    /\ GoOnWith(t, <<>>)
    /\ UNCHANGED <<err, done, signal, children>>

------------------------------------------------------------------------------
\* CancelableContext::cancel, through the function withCancel returned. It
\* reports the error to the done future only.
cancel(t, c) ==
    /\ Idle(t)
    /\ c \in made \cap Cancelable
    /\ todo' = [todo EXCEPT ![t] = <<Step("report", c)>>]
    /\ UNCHANGED <<err, done, signal, children, made>>

\* The first half of setError.
setErr(t) ==
    /\ Doing(t, "setErr")
    /\ err' = err \cup {Current(t)}
    /\ GoOnWith(t, <<>>)
    /\ UNCHANGED <<done, signal, children, made>>

\* reportResult: the first report takes the listeners and runs them.
report(t) ==
    LET c == Current(t)
    IN  /\ Doing(t, "report")
        /\ \/ /\ c \notin done
              /\ done' = done \cup {c}
              /\ signal' = [signal EXCEPT ![c] = <<>>]
              /\ GoOnWith(t, HandleAll(signal[c]))
           \/ /\ c \in done
              /\ GoOnWith(t, <<>>)
              /\ UNCHANGED <<done, signal>>
        /\ UNCHANGED <<err, children, made>>

\* The two halves of the listener that detaches a context.
RemoveChildNothing(t) ==
    /\ Doing(t, "removeChild")
    /\ GoOnWith(t, <<>>)
    /\ UNCHANGED <<err, done, signal, children, made>>

removeChild(t) ==
    /\ Doing(t, "removeChild")
    /\ children' = [children EXCEPT ![Parent[Current(t)]] = @ \ {Current(t)}]
    /\ GoOnWith(t, <<>>)
    /\ UNCHANGED <<err, done, signal, made>>

removeListener(t) ==
    LET c == Current(t)
    IN  /\ Doing(t, "unlisten")
        /\ signal' = [signal EXCEPT ![Parent[c]] = RemoveFirst(@, Listener("fromParent", c))]
        /\ GoOnWith(t, <<>>)
        /\ UNCHANGED <<err, done, children, made>>

------------------------------------------------------------------------------
Call(t) == \E c \in Contexts : setParent(t, c) \/ cancel(t, c)

GoOn(t) ==
    \/ addChild(t) \/ listenParent(t) \/ listenSelf(t) \/ Return(t)
    \/ setErr(t) \/ report(t) \/ removeChild(t) \/ removeListener(t)

Next == \E t \in Threads : Call(t) \/ GoOn(t)

Spec == Init /\ [][Next]_vars

\* A thread in a call goes on with it; nobody has to make or cancel a context.
FairSpec == Spec /\ \A t \in Threads : WF_vars(GoOn(t))

------------------------------------------------------------------------------
TypeOK ==
    /\ err \subseteq Contexts
    /\ done \subseteq Contexts
    /\ signal \in [All -> Seq(Listeners)]
    /\ children \in [All -> SUBSET Contexts]
    /\ made \subseteq All
    /\ todo \in [Threads -> Seq(Steps)]

Child(c, p) == c \in Contexts /\ Parent[c] = p

\* Whatever order contexts were made and cancelled in, once no thread is in a
\* call the tree is tidy: every context below a done one is done, a context
\* holds exactly its children that are not done, and its done future holds
\* exactly their listeners and its own. So no context that is done is kept
\* alive by its parent, and none that is not done was forgotten by it
\* (setParent, registering in three steps, against cancel in another thread).
TidyTree ==
    (\A t \in Threads : Idle(t)) =>
        \A p \in made :
            LET live == {c \in made \ done : Child(c, p)}
            IN  /\ children[p] = live
                /\ p \in done => live = {} /\ signal[p] = <<>>
                /\ p \notin done =>
                     /\ ToSet(signal[p]) = {Listener("fromParent", c) : c \in live}
                                           \cup ({Listener("detach", p)} \ {Listener("detach", Background)})
                     /\ IsInjective(signal[p])

\* A context that cannot be cancelled itself is done only because its parent
\* is, and whoever sees it done finds the reason in Err(): setError writes it
\* before it reports. (A context that can be cancelled may be done with an
\* empty Err(): cancel() only reports.)
DoneHasReason ==
    \A c \in done \ Cancelable : c \in err /\ Parent[c] \in done

\* The tree is tidy whenever nobody is at work on it, and reasons come first.
TreeInv == TypeOK /\ TidyTree /\ DoneHasReason

\* A cancelled context is followed by every context made from it, also by one
\* whose setParent was under way (context.cpp:83-89).
CancelPropagates ==
    \A c \in Contexts : (c \in made /\ Parent[c] \in done) ~> (c \in done)
==============================================================================
