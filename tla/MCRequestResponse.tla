------------------------- MODULE MCRequestResponse -------------------------
(***************************************************************************)
(* RequestResponse with bytes of four values: numbers and frames' lengths  *)
(* are below 16. Requests 1 and 2 are written by a stage, the others by a  *)
(* user each; 2 is of a type that nobody handles.                          *)
(***************************************************************************)
EXTENDS RequestResponse

MCKind == <<"func", "other", "func", "monitored">>

\* The numbers are 15, 0 and, for the first one of the other kind, 15 again. The age
\* of 1 is the number of 3.
MCAge == <<0, 3, 1, 2>>

\* The buffer of 4 is too small for its message; 3 has an empty name.
MCName == <<<<1>>, <<>>, <<>>, <<1>>>>
MCRoom == <<15, 15, 15, 13>>

\* The second meta of the id comes too late.
MCRegistered ==
    <<[id |-> 9, type |-> "NewMessage"], [id |-> 2, type |-> "Other"],
      [id |-> 9, type |-> "Other"]>>

\* A frame of a message that is not registered.
Left == 6
Right == 5
MCStrays ==
    {toEndian(Left) \o toEndian(8) \o toEndian(3) \o toEndian(Right)}

==============================================================================
