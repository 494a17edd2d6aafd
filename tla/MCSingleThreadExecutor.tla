------------------------ MODULE MCSingleThreadExecutor ------------------------
(***************************************************************************)
(* SingleThreadExecutor with two threads; what each task is like is given  *)
(* by the constants, and nothing else needs a bound.                       *)
(***************************************************************************)
EXTENDS SingleThreadExecutor
==============================================================================
