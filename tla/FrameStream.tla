----------------------------- MODULE FrameStream -----------------------------
(***************************************************************************)
(* What DelimiterBasedFrameDecoder promises: the frames of a stream of     *)
(* bytes, read from its beginning to its end, whatever the pieces in which *)
(* it arrives. A frame starts with the left delimiter and a length, counts *)
(* that many bytes, and ends with the right delimiter. Bytes that start no *)
(* frame are passed over: a delimiter's worth when the left one is not     *)
(* there, a single byte when only the right one is missing.                *)
(***************************************************************************)
EXTENDS Integers, Sequences

CONSTANTS
    Byte,
    LeftDelimiter, RightDelimiter,  \* two sequences of DelimiterSize bytes
    DelimiterSize, LengthSize,      \* sizeof(DelimiterType), sizeof(LengthType)
    MinLength,                      \* no frame is looked at with fewer bytes there
    fromBigEndian(_)                \* the number that a sequence of bytes encodes

VARIABLES
    stream,    \* the bytes so far
    position,  \* how many of them are done with
    frames     \* found so far

streamVars == <<stream, position, frames>>

StreamInit == stream = <<>> /\ position = 0 /\ frames = <<>>

------------------------------------------------------------------------------
\* The n bytes of s that follow the first i.
Piece(s, i, n) == SubSeq(s, i + 1, i + n)
There(s, i, n) == i + n <= Len(s)

StartsAt(s, i) == There(s, i, DelimiterSize) /\ Piece(s, i, DelimiterSize) = LeftDelimiter

LengthAt(s, i) == fromBigEndian(Piece(s, i + DelimiterSize, LengthSize))

\* All of a frame that starts there has arrived. One that claims to be shorter
\* than its own delimiter never has.
CompleteAt(s, i) ==
    /\ StartsAt(s, i)
    /\ There(s, i, MinLength)
    /\ There(s, i, DelimiterSize + LengthSize)
    /\ LengthAt(s, i) >= DelimiterSize
    /\ There(s, i, LengthAt(s, i))

EndsAt(s, i) ==
    Piece(s, i + LengthAt(s, i) - DelimiterSize, DelimiterSize) = RightDelimiter

\* Nothing more can be said before more bytes arrive.
WaitsAt(s, i) ==
    \/ ~There(s, i, DelimiterSize)
    \/ StartsAt(s, i) /\ ~CompleteAt(s, i)

------------------------------------------------------------------------------
Arrive ==
    /\ Len(stream') > Len(stream)
    /\ SubSeq(stream', 1, Len(stream)) = stream
    /\ UNCHANGED <<position, frames>>

\* No frame starts here.
PassDelimiter ==
    /\ There(stream, position, DelimiterSize) /\ ~StartsAt(stream, position)
    /\ position' = position + DelimiterSize
    /\ UNCHANGED <<stream, frames>>

\* What starts here does not end as a frame does.
PassByte ==
    /\ CompleteAt(stream, position) /\ ~EndsAt(stream, position)
    /\ position' = position + 1
    /\ UNCHANGED <<stream, frames>>

Frame ==
    LET n == LengthAt(stream, position)
    IN  /\ CompleteAt(stream, position) /\ EndsAt(stream, position)
        /\ position' = position + n
        /\ frames' = Append(frames, Piece(stream, position, n))
        /\ UNCHANGED stream

StreamNext == Arrive \/ PassDelimiter \/ PassByte \/ Frame

StreamSpec == StreamInit /\ [][StreamNext]_streamVars

==============================================================================
