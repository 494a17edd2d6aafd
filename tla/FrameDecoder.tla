---------------------------- MODULE FrameDecoder ----------------------------
(***************************************************************************)
(* DelimiterBasedFrameDecoder (caller/call/pipelinestage): the read stage  *)
(* that cuts the bytes of a connection into frames, over a RingBuffer. A   *)
(* call of handleRead brings some bytes; turns of its loops are steps.     *)
(*                                                                         *)
(* decode() is the subclass's: it gives an object, or nothing, or throws,  *)
(* which ends handleRead and forgets its local variables.                  *)
(***************************************************************************)
EXTENDS RingBuffer

CONSTANTS
    LeftDelimiter, RightDelimiter,
    DelimiterSize, LengthSize,  \* sizeof(DelimiterType), sizeof(LengthType)
    MinLength,                  \* _M_MinLength
    fromBigEndian(_),
    Word,                       \* one more than the largest size_t
    Reads,                      \* the blocks of bytes that reads may bring
    MaxBytes,                   \* bound on the bytes of the connection
    Outcomes                    \* what decode does: "object", "nothing", "throws"

ASSUME FrameAssumption ==
    /\ DelimiterSize \in Nat \ {0} /\ LengthSize \in Nat \ {0} /\ MinLength \in Nat
    /\ LeftDelimiter \in [1..DelimiterSize -> Element]
    /\ RightDelimiter \in [1..DelimiterSize -> Element]
    /\ \A bytes \in [1..LengthSize -> Element] : fromBigEndian(bytes) \in Nat
    /\ Word \in Nat /\ Word >= Size + DelimiterSize
    /\ Reads \subseteq Seq(Element) \ {<<>>}
    /\ MaxBytes \in Nat
    /\ Outcomes \subseteq {"object", "nothing", "throws"}

VARIABLES
    ring,             \* _M_RingBuffer
    pc,               \* "idle", or in handleRead: at "put" or in "unpack"
    buffer,           \* the argument of handleRead
    totalWriteBytes,  \* of it that are in the ring
    DataList,         \* the objects it will hand on
    stream,     \* history: every byte that was read and not dropped
    unpacked,   \* history: the frames found
    objects,    \* history: objects that decode made and no exception took along
    delivered,  \* history: those handed to the next stage
    cut         \* history: an exception of decode ended the last read

vars == <<ring, pc, buffer, totalWriteBytes, DataList, stream, unpacked, objects,
          delivered, cut>>
history == <<stream, unpacked, objects, delivered, cut>>
locals == <<buffer, totalWriteBytes, DataList>>

Init ==
    /\ \E zero \in Element : ring = NewRing(zero)
    /\ pc = "idle"
    /\ buffer = <<>> /\ totalWriteBytes = 0 /\ DataList = <<>>
    /\ stream = <<>> /\ unpacked = <<>> /\ objects = <<>> /\ delivered = <<>>
    /\ cut = FALSE

------------------------------------------------------------------------------
ToPut == SubSeq(buffer, totalWriteBytes + 1, Len(buffer))

handleRead(bytes) ==
    /\ pc = "idle"
    /\ Len(stream) + Len(bytes) <= MaxBytes
    /\ buffer' = bytes /\ totalWriteBytes' = 0 /\ DataList' = <<>>
    /\ stream' = stream \o bytes
    /\ pc' = "put"
    /\ cut' = FALSE
    /\ UNCHANGED <<ring, unpacked, objects, delivered>>

\* What fits into the ring, then as many frames as there are.
Put ==
    /\ pc = "put" /\ totalWriteBytes < Len(buffer)
    /\ ring' = put(ring, ToPut)
    /\ totalWriteBytes' = totalWriteBytes + PutSize(ring, ToPut)
    /\ pc' = "unpack"
    /\ UNCHANGED <<buffer, DataList, history>>

\* Everything is put: the objects go on to the next stage, or the next read
\* is asked for when there are none.
Return ==
    /\ pc = "put" /\ totalWriteBytes >= Len(buffer)
    /\ delivered' = delivered \o DataList
    /\ pc' = "idle"
    /\ buffer' = <<>> /\ totalWriteBytes' = 0 /\ DataList' = <<>>
    /\ UNCHANGED <<ring, stream, unpacked, objects, cut>>

------------------------------------------------------------------------------
\* unpack: turns of its loop at the first byte in the ring.
delimiter == copyTo(ring, DelimiterSize, 0)
lengthBytes == copyTo(ring, LengthSize, DelimiterSize)
frameLength == fromBigEndian(lengthBytes)

\* The subtraction is one of size_t.
endOffset == (frameLength - DelimiterSize) % Word
rightDelimiter == copyTo(ring, DelimiterSize, endOffset)

AtDelimiter == Len(delimiter) = DelimiterSize /\ delimiter = LeftDelimiter

\* The length can be read, and as many bytes are there.
Announced ==
    /\ length(ring) >= MinLength
    /\ Len(lengthBytes) = LengthSize
    /\ length(ring) >= frameLength

Whole == Announced /\ Len(rightDelimiter) = DelimiterSize

\* It returns false, the ring where it is.
Wait ==
    /\ pc = "unpack"
    /\ Len(delimiter) # DelimiterSize \/ (AtDelimiter /\ ~Whole)
    /\ pc' = "put"
    /\ UNCHANGED <<ring, locals, history>>

Skip ==
    /\ pc = "unpack"
    /\ Len(delimiter) = DelimiterSize /\ delimiter # LeftDelimiter
    /\ ring' = move(ring, DelimiterSize)
    /\ UNCHANGED <<pc, locals, history>>

MoveToNextNowhere ==
    /\ pc = "unpack"
    /\ AtDelimiter /\ Whole /\ rightDelimiter # RightDelimiter
    /\ UNCHANGED vars

MoveToNext ==
    /\ pc = "unpack"
    /\ AtDelimiter /\ Whole /\ rightDelimiter # RightDelimiter
    /\ ring' = move(ring, 1)
    /\ UNCHANGED <<pc, locals, history>>

\* A frame that ends handleRead's inner loop, as with an if in its place.
DecodeOnce(outcome) ==
    LET pack == Taken(ring, frameLength)
    IN  /\ pc = "unpack"
        /\ AtDelimiter /\ Whole /\ rightDelimiter = RightDelimiter
        /\ outcome = "object"
        /\ ring' = take(ring, frameLength)
        /\ unpacked' = Append(unpacked, pack)
        /\ objects' = Append(objects, pack)
        /\ DataList' = Append(DataList, pack)
        /\ pc' = "put"
        /\ UNCHANGED <<buffer, totalWriteBytes, stream, delivered, cut>>

\* It takes a frame and returns true; handleRead decodes it. An exception
\* leaves the rest of the buffer unread, forgets the objects of this read, and
\* leaves the frames behind this one in the ring.
Decode(outcome) ==
    LET pack == Taken(ring, frameLength)
    IN  /\ pc = "unpack"
        /\ AtDelimiter /\ Whole /\ rightDelimiter = RightDelimiter
        /\ ring' = take(ring, frameLength)
        /\ unpacked' = Append(unpacked, pack)
        /\ \/ /\ outcome = "object"
              /\ objects' = Append(objects, pack)
              /\ DataList' = Append(DataList, pack)
              /\ UNCHANGED <<pc, buffer, totalWriteBytes, stream, cut>>
           \/ /\ outcome = "nothing"
              /\ UNCHANGED <<pc, locals, stream, objects, cut>>
           \/ /\ outcome = "throws"
              /\ stream' = SubSeq(stream, 1, Len(stream) - Len(ToPut))
              /\ buffer' = <<>> /\ totalWriteBytes' = 0 /\ DataList' = <<>>
              /\ pc' = "idle"
              /\ objects' = SubSeq(objects, 1, Len(objects) - Len(DataList))
              /\ cut' = TRUE
        /\ UNCHANGED delivered

GoOn ==
    \/ Put \/ Return
    \/ Wait \/ Skip \/ MoveToNext
    \/ \E outcome \in Outcomes : Decode(outcome)

Next == GoOn \/ \E bytes \in Reads : handleRead(bytes)

Spec == Init /\ [][Next]_vars

\* The io thread goes on with the handler it is in.
FairSpec == Spec /\ WF_vars(GoOn)

------------------------------------------------------------------------------
TypeOK ==
    /\ Sound(ring)
    /\ pc \in {"idle", "put", "unpack"}
    /\ buffer \in Seq(Element)
    /\ totalWriteBytes \in 0..Len(buffer)
    /\ stream \in Seq(Element)
    /\ cut \in BOOLEAN
    /\ DataList \in Seq(Seq(Element)) /\ unpacked \in Seq(Seq(Element))
    /\ objects \in Seq(Seq(Element)) /\ delivered \in Seq(Seq(Element))

\* The ring holds the bytes of the stream at their places, and what is still to
\* be put is the rest of the stream.
RingHolds ==
    /\ Len(stream) = ring.tailer + Len(buffer) - totalWriteBytes
    /\ \A i \in ring.header..(ring.tailer - 1) : At(ring, i) = stream[i + 1]
    /\ \A j \in (totalWriteBytes + 1)..Len(buffer) :
           buffer[j] = stream[ring.tailer + j - totalWriteBytes]

\* handleRead's variables are its own, and a read brings something.
NothingBetweenReads ==
    /\ pc = "idle" => buffer = <<>> /\ totalWriteBytes = 0 /\ DataList = <<>>
    /\ pc # "idle" => buffer # <<>>

\* The objects of a read are handed on together; an exception takes along those
\* of its own read and no others.
ObjectsGoOn == objects = delivered \o DataList

\* The ring gives back the bytes of the connection, in order and at the place
\* they have in it, however often its indices went round the array, and no
\* object is dropped on the way to the next stage but those of a read that threw.
DecoderInv == TypeOK /\ NothingBetweenReads /\ RingHolds /\ ObjectsGoOn

\* However the connection's bytes were cut into reads, the frames are those of
\* the stream, in its order; the abstract specification knows no reads, no
\* ring and no wrapping.
Stream == INSTANCE FrameStream WITH
    Byte <- Element, stream <- SubSeq(stream, 1, ring.tailer),
    position <- ring.header, frames <- unpacked

StreamSpec == Stream!StreamSpec

\* No complete frame, and no bytes that start none, wait in the ring when the
\* inner loop of handleRead is done with what it was given, nor when handleRead
\* has returned: a frame is not held back to a later read. The exception is a
\* read that decode ended by throwing: the frames behind the one it threw at stay
\* in the ring until the next read, and that read finds them.
NothingHeldBack ==
    (pc = "put" /\ totalWriteBytes > 0) \/ (pc = "idle" /\ ~cut) =>
        Stream!WaitsAt(SubSeq(stream, 1, ring.tailer), ring.header)

\* The ring is full of the beginning of a frame that never will be complete in
\* it, as it claims to be longer than the ring or shorter than its delimiter.
Choked ==
    /\ length(ring) = Size
    /\ delimiter = LeftDelimiter
    /\ frameLength \notin DelimiterSize..Size \/ MinLength > Size

\* handleRead returns, and the io thread serves others again, unless a frame
\* has such a length.
HandleReadReturns == pc # "idle" ~> (pc = "idle" \/ Choked)

==============================================================================
