--------------------------- MODULE MCSocketHandler ---------------------------
(***************************************************************************)
(* SocketHandler for a few threads; MaxCalls bounds the number of calls.   *)
(***************************************************************************)
EXTENDS SocketHandler

==============================================================================
