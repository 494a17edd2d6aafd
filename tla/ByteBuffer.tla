----------------------------- MODULE ByteBuffer -----------------------------
(***************************************************************************)
(* ByteBuffer (caller/common): a window of a storage, with the indices of  *)
(* what is written and of what is read. A copy or a slice is a window of   *)
(* the same storage. Numbers are uint16_t in the order of the network; a   *)
(* byte has the values below Base.                                         *)
(***************************************************************************)
EXTENDS Naturals, Sequences

CONSTANT Base    \* the number of values of a byte

ASSUME ByteBufferAssumption == Base \in Nat \ {0}

UInt16 == 0..(Base * Base - 1)
toUInt16(n) == n % (Base * Base)

\* toEndian and fromEndian for Endian::Big.
toEndian(n) == <<n \div Base, n % Base>>
fromEndian(bytes) == Base * bytes[1] + bytes[2]

\* A new buffer, whose storage is zeroed. Positions count from zero.
newBuffer(size) ==
    [data |-> [i \in 1..size |-> 0], offset |-> 0, writeIndex |-> 0, readIndex |-> 0,
     capacity |-> size]

readableLength(b) == b.writeIndex - b.readIndex
writableLength(b) == b.capacity - b.writeIndex

\* length bytes of the storage, from a position of the window.
Bytes(b, from, length) ==
    SubSeq(b.data, b.offset + from + 1, b.offset + from + length)
Readable(b) == Bytes(b, b.readIndex, readableLength(b))

setReadIndex(b, i) == IF i > b.writeIndex THEN b ELSE [b EXCEPT !.readIndex = i]
setWriteIndex(b, i) == IF i < b.readIndex THEN b ELSE [b EXCEPT !.writeIndex = i]

setReadableLength(b, len) ==
    LET d == len - readableLength(b)
    IN  IF readableLength(b) >= len \/ writableLength(b) < d
        THEN b ELSE setWriteIndex(b, b.writeIndex + d)

------------------------------------------------------------------------------
\* Bytes that do not fit are not written; no caller is interested in that.
writeData(b, bytes) ==
    LET at == b.offset + b.writeIndex
        to == at + Len(bytes)
    IN  IF writableLength(b) < Len(bytes)
        THEN b
        ELSE [b EXCEPT !.data = SubSeq(@, 1, at) \o bytes \o SubSeq(@, to + 1, Len(@)),
                       !.writeIndex = @ + Len(bytes)]

putNumber(b, n) == writeData(b, toEndian(n))

\* put of a view: its length, and, if that fitted, its bytes.
putView(b, bytes) ==
    IF writableLength(b) < 2
    THEN b ELSE writeData(putNumber(b, toUInt16(Len(bytes))), bytes)

\* take of a number; value is left as it was when there are too few bytes.
takeNumber(b, value) ==
    IF readableLength(b) < 2
    THEN [ok |-> FALSE, buffer |-> b, value |-> value]
    ELSE [ok |-> TRUE, buffer |-> setReadIndex(b, b.readIndex + 2),
          value |-> fromEndian(Bytes(b, b.readIndex, 2))]

\* take of a view: size bytes, or as many as the number in front of them says if
\* size is 0. That number stays taken when the bytes are not there.
takeView(b, size, value) ==
    LET number == takeNumber(b, 0)
        start == IF size = 0 THEN number.buffer ELSE b
        length == IF size = 0 THEN number.value ELSE size
    IN  IF (size = 0 /\ ~number.ok) \/ readableLength(start) < length
        THEN [ok |-> FALSE, buffer |-> start, value |-> value]
        ELSE [ok |-> TRUE, value |-> Bytes(start, start.readIndex, length),
              buffer |-> setReadIndex(start, start.readIndex + length)]

\* A window of the same storage: what is written to it is seen through b, when b
\* has its storage (sharing).
slice(b, offset, length, resize) ==
    IF offset + length > b.capacity
    THEN [buffer |-> b, sub |-> newBuffer(0)]
    ELSE [buffer |-> IF resize /\ offset + length > b.writeIndex
                     THEN setWriteIndex(b, offset + length) ELSE b,
          sub |-> [data |-> b.data, offset |-> offset + b.offset, writeIndex |-> 0,
                   readIndex |-> 0, capacity |-> length]]

sharing(b, sub) == [b EXCEPT !.data = sub.data]

==============================================================================
