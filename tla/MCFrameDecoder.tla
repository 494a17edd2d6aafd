--------------------------- MODULE MCFrameDecoder ---------------------------
(***************************************************************************)
(* FrameDecoder for a small alphabet: delimiters of two bytes that have a  *)
(* byte in common, as those of the example, and a length of one byte, of   *)
(* which the alphabet has one that is right, one that is too small, and    *)
(* one that is as short as a delimiter.                                    *)
(***************************************************************************)
EXTENDS FrameDecoder

Left == <<2, 1>>
Right == <<1, 1>>
BigEndian(bytes) == bytes[1]
\* Short reads of anything, a whole frame, one cut behind its length, and two
\* frames at once, which are more than the ring holds.
Whole1 == <<2, 1, 5, 1, 1>>
Blocks == UNION {[1..n -> Element] : n \in 1..2}
              \cup {Whole1, <<1, 1, 2, 1, 5>>, Whole1 \o Whole1}

=============================================================================
