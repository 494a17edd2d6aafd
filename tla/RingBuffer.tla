----------------------------- MODULE RingBuffer -----------------------------
(***************************************************************************)
(* RingBuffer (caller/common): an array of bytes between two indices that  *)
(* only grow and are reduced modulo the size when the array is accessed.   *)
(* A ring is a value here; put, take and move give the ring they leave.    *)
(*                                                                         *)
(* A block of bytes is a sequence. The caller's pointers are never null,   *)
(* and the indices do not get to the end of size_t.                        *)
(***************************************************************************)
EXTENDS Integers, Sequences

CONSTANTS
    Element,  \* the bytes
    Size      \* of the array

ASSUME RingAssumption == Size \in Nat \ {0} /\ Element # {}

Slots == 0..(Size - 1)
Rings == [datas : [Slots -> Element], header : Nat, tailer : Nat]

NewRing(zero) == [datas |-> [k \in Slots |-> zero], header |-> 0, tailer |-> 0]

Least(a, b) == IF a <= b THEN a ELSE b

length(ring) == ring.tailer - ring.header
capacity == Size

\* The i-th byte ever put, counted from 0, while it is there.
At(ring, i) == ring.datas[i % Size]

\* The array after a block of copysize bytes was copied to it from start on:
\* one memmove to the end of the array at most, the rest to its beginning.
Copied(ring, bytes, start, copysize) ==
    LET tail   == Least(start + copysize, Size)
        headTo == start + copysize - tail
    IN  [k \in Slots |->
            IF k < headTo THEN bytes[tail - start + k + 1]
            ELSE IF k \in start..(tail - 1) THEN bytes[k - start + 1]
            ELSE ring.datas[k]]

\* put: what does not fit is not taken, and the caller is told how much was.
PutSize(ring, bytes) == Least(Len(bytes), capacity - length(ring))

PutOverwriting(ring, bytes) ==
    LET copysize == Least(Len(bytes), capacity)
    IN  [ring EXCEPT !.datas = Copied(ring, bytes, ring.tailer % Size, copysize),
                     !.tailer = @ + copysize]

put(ring, bytes) ==
    LET copysize == PutSize(ring, bytes)
    IN  [ring EXCEPT !.datas = Copied(ring, bytes, ring.tailer % Size, copysize),
                     !.tailer = @ + copysize]

\* copyTo: len bytes, or as many as there are, from the off-th on.
CopyToUnwrapped(ring, len, off) ==
    IF off >= length(ring) THEN <<>>
    ELSE LET copysize == Least(len, length(ring) - off)
             start    == (ring.header + off) % Size
             tail     == Least(start + copysize, Size)
         IN  [i \in 1..copysize |-> ring.datas[IF i <= tail - start THEN start + i - 1 ELSE 0]]

copyTo(ring, len, off) ==
    IF off >= length(ring) THEN <<>>
    ELSE LET copysize == Least(len, length(ring) - off)
             start    == (ring.header + off) % Size
             tail     == Least(start + copysize, Size)
         IN  [i \in 1..copysize |->
                 ring.datas[IF i <= tail - start THEN start + i - 1 ELSE i - (tail - start) - 1]]

\* move: false, and no change, when there are fewer bytes than that.
move(ring, off) ==
    IF off > length(ring) THEN ring ELSE [ring EXCEPT !.header = @ + off]

\* take(datas, len): the bytes, and the ring without them.
Taken(ring, len) == copyTo(ring, len, 0)
take(ring, len) == [ring EXCEPT !.header = @ + Len(copyTo(ring, len, 0))]

\* What every operation keeps: no more bytes than slots.
Sound(ring) ==
    /\ ring \in Rings
    /\ length(ring) \in 0..Size

=============================================================================
