--------------------------- MODULE MCSharedRouters ---------------------------
(***************************************************************************)
(* SharedRouters for two threads and three routes. MaxCalls and MaxDepth   *)
(* bound the calls and how deep they nest.                                 *)
(***************************************************************************)
EXTENDS SharedRouters, TLC

CONSTANTS ra, rb, rc, ev1, ev2

\* rc is of another group than the events, and matches one of them all the same,
\* by its mask.
MCMatching == ev1 :> {ra, rc} @@ ev2 :> {ra, rb}
MCGroup == ra :> 1 @@ rb :> 1 @@ rc :> 2 @@ ev1 :> 1 @@ ev2 :> 1

==============================================================================
