-------------------------- MODULE MCTemporaryRouter --------------------------
(***************************************************************************)
(* Four routes of two-bit identifiers: two for replies to the same message *)
(* with different sequence numbers, one with the key of the first, and one *)
(* whose number is masked out, which takes any reply to message {0}.       *)
(***************************************************************************)
EXTENDS TemporaryRouter, TLC

CONSTANTS r1, r2, r3, any, e1, e2

All == {0, 1}
MCRoutes == {r1, r2, r3, any}
MCEvents == {e1, e2}
MCIDs == SUBSET All
MCID == [r \in MCRoutes |-> {0}]
MCIDMask == [r \in MCRoutes |-> All]
MCSequenceNumber == (r1 :> {0} @@ r2 :> {1} @@ r3 :> {0} @@ any :> {})
MCSequenceNumberMask == [r \in MCRoutes |-> IF r = any THEN {} ELSE All]
MCEventID == [e \in MCEvents |-> {0}]
MCEventSequenceNumber == (e1 :> {0} @@ e2 :> {1})

==============================================================================
