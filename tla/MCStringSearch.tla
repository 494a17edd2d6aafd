--------------------------- MODULE MCStringSearch ---------------------------
(***************************************************************************)
(* StringSearch of all patterns of two characters, and of up to four of    *)
(* them, in all texts of up to six, with one character that no pattern has *)
(* at their end.                                                           *)
(***************************************************************************)
EXTENDS StringSearch, SequencesExt

Views(n) == BoundedSeq({"a", "b"}, n)
MCPatterns == Views(4)
MCTexts == Views(6) \cup {v \o <<"c">> : v \in Views(4)}

==============================================================================
