-------------------------- MODULE MCFutureInterface --------------------------
(***************************************************************************)
(* FutureInterface with small sets of threads, listeners and results, of   *)
(* which one listener throws. The only bound of the run is the size of the *)
(* constants: each listener is registered once.                            *)
(***************************************************************************)
EXTENDS FutureInterface

==============================================================================
