---------------------------- MODULE MCContextTree ----------------------------
(***************************************************************************)
(* Three threads and a tree of four contexts: below the background c1 is   *)
(* made by withCancel; below c1 are c2, made by withValue, and c4, made by *)
(* withCancel; below c2 is c3, made by withCancel.                         *)
(***************************************************************************)
EXTENDS ContextTree, TLC

CONSTANTS c1, c2, c3, c4, bg

MCParent == (c1 :> bg) @@ (c2 :> c1) @@ (c3 :> c2) @@ (c4 :> c1)
==============================================================================
