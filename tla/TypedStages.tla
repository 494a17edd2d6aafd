---------------------------- MODULE TypedStages ----------------------------
(***************************************************************************)
(* The typed stages of caller/call: each casts the object it is given to a *)
(* type it handles and calls the handler of that type, which gives the     *)
(* next stage as many objects as it likes before it returns or throws.     *)
(*                                                                         *)
(* handleRead and handleWrite are nested, the next stage's in the handler  *)
(* of this one: frame i is the call of the i-th stage. A stage of several  *)
(* types has a try block around the cast and the handler of every type but *)
(* the last, and goes on with the next type whatever was thrown in it, be  *)
(* it by the cast, by the handler, or by a later stage. An object counts   *)
(* for its type alone.                                                     *)
(***************************************************************************)
EXTENDS Naturals, Sequences

CONSTANTS
    Chains,    \* the pipelines considered: stages in the order they are told
    Objects,   \* types of objects
    BadCast,   \* bad_any_cast
    Errors,    \* what handlers throw that is a std::exception
    Others,    \* what they throw that is none
    None

Exceptions == {BadCast} \cup Errors \cup Others

\* A stage handles different types; those of a pack differ, or it does not compile.
Stage(s) ==
    /\ s.types \in Seq(Objects) /\ s.types # <<>>
    /\ \A i, j \in DOMAIN s.types : s.types[i] = s.types[j] => i = j
    /\ s.dereferences \in BOOLEAN
    /\ s.dereferences => Len(s.types) = 1

ASSUME TypedStagesAssumption ==
    /\ None \notin Exceptions
    /\ BadCast \notin Errors \cup Others /\ Errors \cap Others = {}
    /\ \A chain \in Chains :
          chain # <<>> /\ chain \in Seq({chain[i] : i \in DOMAIN chain})
    /\ \A chain \in Chains : \A i \in DOMAIN chain : Stage(chain[i])

VARIABLES
    chain,
    depth,    \* of the calls: the last frame is that of stage number depth
    frame,    \* of each stage, the last call of it: the object, the type that is
              \* tried, where it is, and, history, the handlers it called
    raised,   \* the exception that unwinds, or None
    broken,   \* a null pointer was dereferenced
    thrown,   \* history: what a handler threw
    replaced, \* history: a stage that was to catch it had more types to try
    failure   \* of the call of the first stage: what it threw, or None

stageVars == <<chain, depth, frame, raised, broken, thrown, replaced, failure>>

Frames == [object : Objects, tried : Nat, at : {"cast", "handler", "returned", "threw"},
           handled : Seq(Objects)]

New(object) == [object |-> object, tried |-> 1, at |-> "cast", handled |-> <<>>]

Top == frame[depth]
Types(i) == chain[i].types
Update(f) == frame' = [frame EXCEPT ![depth] = f]

StagesInit ==
    /\ chain \in Chains
    /\ depth = 0
    /\ frame \in [DOMAIN chain -> {[New(o) EXCEPT !.at = "returned",
                                                  !.handled = <<o>>] : o \in Objects}]
    /\ raised = None /\ broken = FALSE
    /\ thrown = None /\ replaced = FALSE
    /\ failure = None

------------------------------------------------------------------------------
\* The pipeline tells the first stage.
handle(object) ==
    /\ depth = 0 /\ ~broken
    /\ depth' = 1
    /\ frame' = [frame EXCEPT ![1] = New(object)]
    /\ thrown' = None /\ replaced' = FALSE /\ failure' = None
    /\ UNCHANGED <<chain, raised, broken>>

\* Mutant: a cast that is content with any object.
AnyCastLoosely(type, object) == TRUE

\* The type must be that of the object, not of a base class, or of a pointer to it.
AnyCast(type, object) == type = object

Casting == depth > 0 /\ ~broken /\ raised = None /\ Top.at = "cast"
Fits == AnyCast(Types(depth)[Top.tried], Top.object)

\* The handler of the type is called.
invokeHandler ==
    /\ Casting /\ Fits
    /\ Update([Top EXCEPT !.at = "handler",
                          !.handled = Append(@, Types(depth)[Top.tried])])
    /\ UNCHANGED <<chain, depth, raised, broken, thrown, replaced, failure>>

\* A stage that reads one type by value asks for a pointer, which is null.
dereferenceNull ==
    /\ Casting /\ ~Fits /\ chain[depth].dereferences
    /\ broken' = TRUE
    /\ UNCHANGED <<chain, depth, frame, raised, thrown, replaced, failure>>

\* All others have the cast throw.
castFails ==
    /\ Casting /\ ~Fits /\ ~chain[depth].dereferences
    /\ raised' = BadCast
    /\ UNCHANGED <<chain, depth, frame, broken, thrown, replaced, failure>>

------------------------------------------------------------------------------
Handling == depth > 0 /\ ~broken /\ raised = None /\ Top.at = "handler"

\* invokeReader and invokeWriter, in a handler; there may be no next stage.
invokeNext(object) ==
    /\ Handling /\ depth < Len(chain)
    /\ depth' = depth + 1
    /\ frame' = [frame EXCEPT ![depth + 1] = New(object)]
    /\ UNCHANGED <<chain, raised, broken, thrown, replaced, failure>>

handlerReturns ==
    /\ Handling
    /\ Update([Top EXCEPT !.at = "returned"])
    /\ depth' = depth - 1
    /\ UNCHANGED <<chain, raised, broken, thrown, replaced, failure>>

\* Whether the stage has a try block around what it does now.
HasMore(i) == frame[i].tried < Len(Types(i))
Catches(i, e) == HasMore(i) /\ e \notin Others

handlerThrows(e) ==
    /\ Handling
    /\ raised' = e /\ thrown' = e
    /\ replaced' = \E i \in 1..depth : Catches(i, e)
    /\ UNCHANGED <<chain, depth, frame, broken, failure>>

------------------------------------------------------------------------------
\* catch: the next type is tried.
tryNext ==
    /\ depth > 0 /\ ~broken /\ raised # None /\ Catches(depth, raised)
    /\ Update([Top EXCEPT !.at = "cast", !.tried = @ + 1])
    /\ raised' = None
    /\ UNCHANGED <<chain, depth, broken, thrown, replaced, failure>>

\* Mutant: the last type has its try block too.
Swallowed(e) == None

\* What leaves a stage when there is no type left, or it is no std::exception.
Leaves(e) == e

unwind ==
    /\ depth > 0 /\ ~broken /\ raised # None /\ ~Catches(depth, raised)
    /\ Update([Top EXCEPT !.at = "threw"])
    /\ depth' = depth - 1
    /\ IF depth = 1 THEN raised' = None /\ failure' = Leaves(raised)
       ELSE raised' = Leaves(raised) /\ UNCHANGED failure
    /\ UNCHANGED <<chain, broken, thrown, replaced>>

StagesNext ==
    \/ \E object \in Objects : handle(object) \/ invokeNext(object)
    \/ invokeHandler \/ dereferenceNull \/ castFails
    \/ handlerReturns \/ \E e \in Errors \cup Others : handlerThrows(e)
    \/ tryNext \/ unwind

StagesSpec == StagesInit /\ [][StagesNext]_stageVars

------------------------------------------------------------------------------
StagesTypeOK ==
    /\ chain \in Chains
    /\ depth \in 0..Len(chain)
    /\ frame \in [DOMAIN chain -> Frames]
    /\ \A i \in DOMAIN chain : frame[i].tried \in DOMAIN Types(i)
    /\ raised \in Exceptions \cup {None}
    /\ thrown \in Errors \cup Others \cup {None}
    /\ failure \in Exceptions \cup {None}
    /\ {broken, replaced} \subseteq BOOLEAN

\* An object is given to the handler of its type, once, although the types that
\* are left are tried when that handler throws; a call ends well only if it was, and
\* fails without it only for the want of a handler.
HandledOnce ==
    \A i \in DOMAIN chain :
        /\ frame[i].handled \in {<<>>, <<frame[i].object>>}
        /\ frame[i].at = "returned" => frame[i].handled # <<>>
        /\ frame[i].at = "threw" /\ frame[i].handled = <<>> =>
              \A k \in DOMAIN Types(i) : Types(i)[k] # frame[i].object

\* No exception is swallowed by the try blocks it passes; it arrives as it was
\* thrown, or as bad_any_cast when a stage tried its other types upon it.
ExceptionArrives ==
    thrown # None /\ depth = 0 => failure = IF replaced THEN BadCast ELSE thrown

StagesInv == StagesTypeOK /\ HandledOnce

==============================================================================
