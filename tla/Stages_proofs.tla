---------------------------- MODULE Stages_proofs -----------------------------
(***************************************************************************)
(* Theorems about what the stages of a pipeline do with what they are      *)
(* given: RingBuffer and FrameDecoder, for every size of the ring, format  *)
(* of the frames and way of cutting the stream into reads; for the         *)
(* search in a text, StringSearch, for every text and pattern; and         *)
(* TypedStages, for any pipelines, types and exceptions.                   *)
(*                                                                         *)
(* What the operations of the ring do comes first: the arithmetic modulo   *)
(* the size, the two blocks of a copy, and what fits.                      *)
(***************************************************************************)
EXTENDS FrameDecoder, StringSearch, TypedStages, SequenceTheorems, TLAPS

\* A multiple of Size and a remainder: what any i is, in one way only.
LEMMA NextMultiple ==
    ASSUME NEW p \in Int, NEW q \in Int, p < q
    PROVE  Size * q >= Size * p + Size
PROOF
<1>1. PICK d \in Nat : q = p + 1 + d
    OBVIOUS
<1>2. Size * q = Size * p + Size + Size * d
    BY <1>1, RingAssumption
<1>3. Size * d >= 0
    BY RingAssumption
<1> QED
    BY <1>2, <1>3, RingAssumption

LEMMA UniqueRemainder ==
    ASSUME NEW p \in Int, NEW q \in Int, NEW a \in Slots, NEW b \in Slots,
           Size * p + a = Size * q + b
    PROVE  p = q /\ a = b
PROOF
<1>1. CASE p < q
    BY <1>1, NextMultiple, RingAssumption DEF Slots
<1>2. CASE q < p
    BY <1>2, NextMultiple, RingAssumption DEF Slots
<1> QED
    BY <1>1, <1>2, RingAssumption DEF Slots

LEMMA Division ==
    ASSUME NEW i \in Int
    PROVE  i \div Size \in Int /\ i % Size \in Slots /\ i = (Size * (i \div Size)) + (i % Size)
BY RingAssumption DEF Slots

LEMMA InSlots ==
    ASSUME NEW i \in Nat
    PROVE  i % Size \in Slots
BY Division

\* Going k slots on from i: round the end of the array at most once.
LEMMA SlotOfSum ==
    ASSUME NEW i \in Nat, NEW k \in 0..(Size - 1)
    PROVE  (i + k) % Size = IF (i % Size) + k < Size THEN (i % Size) + k
                            ELSE (i % Size) + k - Size
PROOF
<1> DEFINE q == i \div Size
           a == i % Size
<1>1. q \in Int /\ a \in Slots /\ i = Size * q + a
    BY Division
<1>2. (i + k) \div Size \in Int /\ (i + k) % Size \in Slots
      /\ i + k = (Size * ((i + k) \div Size)) + ((i + k) % Size)
    BY Division
<1>3. CASE a + k < Size
    <2>1. a + k \in Slots /\ i + k = Size * q + (a + k)
        BY <1>1, <1>3, RingAssumption DEF Slots
    <2> QED
        BY <1>1, <1>2, <1>3, <2>1, UniqueRemainder
<1>4. CASE ~(a + k < Size)
    <2>1. a + k - Size \in Slots
        BY <1>1, <1>4, RingAssumption DEF Slots
    <2>2. Size * (q + 1) = Size * q + Size
        BY <1>1, RingAssumption
    <2>3. i + k = Size * (q + 1) + (a + k - Size)
        BY <1>1, <2>1, <2>2, RingAssumption DEF Slots
    <2> QED
        BY <1>1, <1>2, <1>4, <2>1, <2>3, UniqueRemainder
<1> QED
    BY <1>3, <1>4

\* Two bytes less than a round apart are in different slots.
LEMMA SlotsDiffer ==
    ASSUME NEW i \in Nat, NEW k \in 1..(Size - 1)
    PROVE  i % Size # (i + k) % Size
PROOF
<1> DEFINE a == i % Size
           b == (i + k) % Size
<1>1. b = IF a + k < Size THEN a + k ELSE a + k - Size
    <2>1. k \in 0..(Size - 1)
        BY RingAssumption
    <2> QED
        BY <2>1, SlotOfSum
<1>2. a \in Slots
    BY Division
<1> HIDE DEF a, b
<1>3. a # b
    BY <1>1, <1>2, RingAssumption DEF Slots
<1> QED
    BY <1>3 DEF a, b

------------------------------------------------------------------------------
\* What put wrote is found at the places behind the old bytes, which are
\* where they were.
THEOREM PutKeeps ==
    ASSUME NEW rb, Sound(rb), NEW bytes \in Seq(Element)
    PROVE  /\ Sound(put(rb, bytes))
           /\ PutSize(rb, bytes) \in 0..Len(bytes)
           /\ put(rb, bytes).header = rb.header
           /\ put(rb, bytes).tailer = rb.tailer + PutSize(rb, bytes)
           /\ \A i \in rb.header..(rb.tailer - 1) : At(put(rb, bytes), i) = At(rb, i)
           /\ \A j \in 1..PutSize(rb, bytes) :
                  At(put(rb, bytes), rb.tailer + j - 1) = bytes[j]
PROOF
<1> DEFINE n == PutSize(rb, bytes)
           start == rb.tailer % Size
           tail == Least(start + n, Size)
           headTo == start + n - tail
           datas == Copied(rb, bytes, start, n)
           after == put(rb, bytes)
<1>1. /\ rb.header \in Nat /\ rb.tailer \in Nat /\ rb.datas \in [Slots -> Element]
      /\ rb.tailer - rb.header \in 0..Size
    BY DEF Sound, Rings, length
<1>2. Len(bytes) \in Nat /\ Size \in Nat \ {0}
    BY RingAssumption
<1>3. n \in 0..Len(bytes) /\ n <= Size - (rb.tailer - rb.header) /\ n \in Nat
    BY <1>1, <1>2 DEF PutSize, Least, capacity, length
<1>4. start \in Slots
    BY <1>1, InSlots
<1>a. \A k \in 0..(Size - 1) :
          (rb.tailer + k) % Size = IF start + k < Size THEN start + k ELSE start + k - Size
    BY <1>1, SlotOfSum
<1> HIDE DEF start
<1> HIDE DEF n
<1>5. /\ tail \in start..Size /\ headTo \in 0..start
      /\ tail = IF start + n <= Size THEN start + n ELSE Size
      /\ tail - start + headTo = n
    BY <1>1, <1>2, <1>3, <1>4 DEF Least, Slots
<1>6. datas \in [Slots -> Element]
    <2> SUFFICES ASSUME NEW k \in Slots
                 PROVE  (IF k < headTo THEN bytes[tail - start + k + 1]
                         ELSE IF k \in start..(tail - 1) THEN bytes[k - start + 1]
                         ELSE rb.datas[k]) \in Element
        BY DEF Copied
    <2>1. CASE k < headTo
        BY <2>1, <1>2, <1>3, <1>4, <1>5, ElementOfSeq DEF Slots
    <2>2. CASE k \in start..(tail - 1) /\ ~(k < headTo)
        BY <2>2, <1>2, <1>3, <1>4, <1>5, ElementOfSeq DEF Slots
    <2> QED
        BY <1>1, <2>1, <2>2
<1>7. /\ after.datas = datas /\ after.header = rb.header /\ after.tailer = rb.tailer + n
      /\ after \in Rings
    <2>1. after = [rb EXCEPT !.datas = datas, !.tailer = rb.tailer + n]
        BY DEF put, datas, start, n
    <2>2. rb.tailer + n \in Nat
        BY <1>1, <1>3
    <2> HIDE DEF after, datas
    <2> QED
        BY <2>1, <2>2, <1>6 DEF Sound, Rings
<1> HIDE DEF after, n, start, tail, headTo, datas
<1>8. Sound(after)
    BY <1>1, <1>2, <1>3, <1>7 DEF Sound, length
<1>9. ASSUME NEW i \in rb.header..(rb.tailer - 1)
      PROVE  At(after, i) = At(rb, i)
    <2> DEFINE k == i % Size
    <2>1. k \in Slots /\ i \in Nat
        <3>1. i \in Nat
            BY <1>1
        <3> QED
            BY <3>1, InSlots
    <2>2. ASSUME NEW m \in 0..(n - 1)
          PROVE  k # IF start + m < Size THEN start + m ELSE start + m - Size
        <3>1. rb.tailer + m = i + (rb.tailer + m - i) /\ rb.tailer + m - i \in 1..(Size - 1)
            BY <1>1, <1>2, <1>3
        <3>2. k # (i + (rb.tailer + m - i)) % Size
            BY <2>1, <3>1, SlotsDiffer
        <3>3. k # (rb.tailer + m) % Size
            BY <3>1, <3>2
        <3>4. m \in 0..(Size - 1)
            BY <1>1, <1>2, <1>3
        <3> QED
            BY <1>a, <3>3, <3>4
    <2> HIDE DEF k
    <2>3. ~(k < headTo)
        <3> SUFFICES ASSUME k < headTo PROVE FALSE
            OBVIOUS
        <3>1. tail = Size /\ tail - start + k \in 0..(n - 1) /\ ~(start + (tail - start + k) < Size)
            BY <1>2, <1>3, <1>4, <1>5, <2>1 DEF Slots
        <3> QED
            BY <3>1, <2>1, <2>2, <1>2, <1>4 DEF Slots
    <2>4. k \notin start..(tail - 1)
        <3> SUFFICES ASSUME k \in start..(tail - 1) PROVE FALSE
            OBVIOUS
        <3>1. k - start \in 0..(n - 1) /\ start + (k - start) < Size
            BY <1>2, <1>3, <1>4, <1>5, <2>1 DEF Slots
        <3> QED
            BY <3>1, <2>1, <2>2, <1>2, <1>4 DEF Slots
    <2>5. datas[k] = rb.datas[k]
        BY <2>1, <2>3, <2>4 DEF datas, Copied, headTo, tail
    <2> QED
        BY <1>7, <2>5 DEF At, k
<1>10. ASSUME NEW j \in 1..n
       PROVE  At(after, rb.tailer + j - 1) = bytes[j]
    <2> DEFINE k == IF start + (j - 1) < Size THEN start + (j - 1) ELSE start + (j - 1) - Size
    <2>1. j - 1 \in 0..(Size - 1) /\ rb.tailer + j - 1 = rb.tailer + (j - 1)
        BY <1>1, <1>2, <1>3
    <2>2. (rb.tailer + j - 1) % Size = k
        BY <1>a, <2>1
    <2>3. k \in Slots
        BY <2>1, <1>2, <1>4 DEF Slots
    <2>4. datas[k] = bytes[j]
        <3>1. CASE start + (j - 1) < Size
            <4>1. k \in start..(tail - 1) /\ ~(k < headTo) /\ k - start + 1 = j
                BY <3>1, <1>2, <1>3, <1>4, <1>5 DEF Slots
            <4> QED
                BY <4>1, <2>3 DEF datas, Copied, headTo, tail
        <3>2. CASE ~(start + (j - 1) < Size)
            <4>1. k < headTo /\ tail - start + k + 1 = j
                BY <3>2, <1>2, <1>3, <1>4, <1>5 DEF Slots
            <4> QED
                BY <4>1, <2>3 DEF datas, Copied, headTo, tail
        <3> QED
            BY <3>1, <3>2
    <2> QED
        BY <1>7, <2>2, <2>4 DEF At
<1> QED
    BY <1>3, <1>7, <1>8, <1>9, <1>10 DEF n, after

\* What copyTo gives is the bytes at the places it was asked for, as many of
\* them as there are.
THEOREM CopyToReads ==
    ASSUME NEW rb, Sound(rb), NEW len \in Nat, NEW off \in Nat
    PROVE  /\ copyTo(rb, len, off) \in Seq(Element)
           /\ Len(copyTo(rb, len, off))
                 = IF off >= length(rb) THEN 0 ELSE Least(len, length(rb) - off)
           /\ \A i \in 1..Len(copyTo(rb, len, off)) :
                  copyTo(rb, len, off)[i] = At(rb, rb.header + off + i - 1)
PROOF
<1>1. /\ rb.header \in Nat /\ rb.tailer \in Nat /\ rb.datas \in [Slots -> Element]
      /\ length(rb) \in 0..Size /\ Size \in Nat \ {0}
    BY RingAssumption DEF Sound, Rings
<1>2. CASE off >= length(rb)
    <2>1. copyTo(rb, len, off) = <<>>
        BY <1>2 DEF copyTo
    <2> QED
        BY <1>2, <2>1, EmptySeq
<1>3. CASE ~(off >= length(rb))
    <2> DEFINE n == Least(len, length(rb) - off)
               start == (rb.header + off) % Size
               tail == Least(start + n, Size)
               slot(i) == IF i <= tail - start THEN start + i - 1 ELSE i - (tail - start) - 1
               copy == copyTo(rb, len, off)
    <2>1. n \in 0..Size
        BY <1>1, <1>3 DEF Least
    <2>2. start \in Slots
        <3>1. rb.header + off \in Nat
            BY <1>1
        <3> QED
            BY <3>1, InSlots
    <2>3. copy = [i \in 1..n |-> rb.datas[slot(i)]]
        BY <1>3 DEF copyTo
    <2>4. \A k \in 0..(Size - 1) : (rb.header + off + k) % Size
              = IF start + k < Size THEN start + k ELSE start + k - Size
        <3> DEFINE first == rb.header + off
        <3>1. first \in Nat
            BY <1>1
        <3> HIDE DEF first
        <3>2. \A k \in 0..(Size - 1) : (first + k) % Size
                  = IF (first % Size) + k < Size THEN (first % Size) + k
                    ELSE (first % Size) + k - Size
            BY <3>1, SlotOfSum
        <3> QED
            BY <3>2 DEF first
    <2> HIDE DEF n, start
    <2>5. tail = IF start + n <= Size THEN start + n ELSE Size
        BY <1>1, <2>1, <2>2 DEF Least, Slots
    <2> HIDE DEF tail, copy
    <2>6. ASSUME NEW i \in 1..n
          PROVE  slot(i) \in Slots /\ slot(i) = (rb.header + off + i - 1) % Size
        <3>1. i - 1 \in 0..(Size - 1) /\ rb.header + off + i - 1 = rb.header + off + (i - 1)
            BY <1>1, <2>1
        <3>2. (rb.header + off + i - 1) % Size
                  = IF start + (i - 1) < Size THEN start + (i - 1) ELSE start + (i - 1) - Size
            BY <2>4, <3>1
        <3> DEFINE m == (rb.header + off + i - 1) % Size
        <3> HIDE DEF m
        <3>3. m = IF start + (i - 1) < Size THEN start + (i - 1) ELSE start + (i - 1) - Size
            BY <3>2 DEF m
        <3>4. slot(i) \in Slots /\ slot(i) = m
            BY <1>1, <2>1, <2>2, <2>5, <3>3 DEF Slots
        <3> QED
            BY <3>4 DEF m
    <2> HIDE DEF slot
    <2>7. \A i \in 1..n : rb.datas[slot(i)] \in Element
        BY <1>1, <2>6
    <2>8. copy \in Seq(Element) /\ Len(copy) = n
        BY <2>1, <2>3, <2>7
    <2>9. \A i \in 1..n : copy[i] = At(rb, rb.header + off + i - 1)
        BY <2>3, <2>6 DEF At
    <2> QED
        BY <1>3, <2>8, <2>9 DEF copy, n
<1> QED
    BY <1>2, <1>3

\* move and take go on by what they are asked for when it is there, and leave
\* the bytes alone.
THEOREM MoveKeeps ==
    ASSUME NEW rb, Sound(rb), NEW off \in Nat, off <= length(rb)
    PROVE  /\ Sound(move(rb, off))
           /\ move(rb, off).header = rb.header + off
           /\ move(rb, off).tailer = rb.tailer
           /\ \A i : At(move(rb, off), i) = At(rb, i)
PROOF
<1>1. move(rb, off) = [rb EXCEPT !.header = rb.header + off]
    BY DEF move, Sound, Rings, length
<1>2. /\ rb.header \in Nat /\ rb.tailer \in Nat /\ Size \in Nat
      /\ rb.tailer - rb.header \in 0..Size /\ off <= rb.tailer - rb.header
    BY RingAssumption DEF Sound, Rings, length
<1>3. /\ move(rb, off) \in Rings
      /\ move(rb, off).header = rb.header + off
      /\ move(rb, off).tailer = rb.tailer
      /\ move(rb, off).datas = rb.datas
    BY <1>1, <1>2 DEF Sound, Rings
<1> QED
    BY <1>2, <1>3 DEF Sound, length, At

THEOREM TakeKeeps ==
    ASSUME NEW rb, Sound(rb), NEW len \in Nat, len <= length(rb)
    PROVE  take(rb, len) = move(rb, len) /\ Len(Taken(rb, len)) = len
PROOF
<1>1. length(rb) \in Nat
    BY RingAssumption DEF Sound
<1>2. Len(copyTo(rb, len, 0)) = len
    BY <1>1, CopyToReads DEF Least
<1> QED
    BY <1>1, <1>2 DEF take, move, Taken

------------------------------------------------------------------------------
\* The bytes put into the ring so far: the stream of the abstract specification.
Read == SubSeq(stream, 1, ring.tailer)

LEMMA RingTypes ==
    ASSUME TypeOK
    PROVE  /\ Sound(ring) /\ ring.header \in Nat /\ ring.tailer \in Nat
           /\ length(ring) \in 0..Size /\ length(ring) = ring.tailer - ring.header
           /\ Size \in Nat \ {0}
           /\ buffer \in Seq(Element) /\ Len(buffer) \in Nat
           /\ totalWriteBytes \in 0..Len(buffer)
           /\ stream \in Seq(Element) /\ Len(stream) \in Nat
BY RingAssumption DEF TypeOK, Sound, Rings, length

LEMMA Part ==
    ASSUME NEW s \in Seq(Element), NEW m \in Nat, NEW n \in Nat, m + n <= Len(s)
    PROVE  /\ SubSeq(s, m + 1, m + n) \in Seq(Element)
           /\ Len(SubSeq(s, m + 1, m + n)) = n
           /\ \A i \in 1..n : SubSeq(s, m + 1, m + n)[i] = s[m + i]
PROOF
<1> DEFINE first == m + 1
           last == m + n
<1>1. first \in Int /\ last \in Int /\ last - first + 1 = n
    OBVIOUS
<1>2. \A i \in first..last : s[i] \in Element
    BY LenProperties
<1>3. \A i \in 1..n : first + i - 1 = m + i
    OBVIOUS
<1>4. n = IF first <= last THEN last - first + 1 ELSE 0
    OBVIOUS
<1> HIDE DEF first, last
<1>5. /\ SubSeq(s, first, last) \in Seq(Element)
      /\ Len(SubSeq(s, first, last)) = n
      /\ \A i \in 1..n : SubSeq(s, first, last)[i] = s[first + i - 1]
    BY <1>1, <1>2, <1>4, SubSeqProperties
<1> QED
    BY <1>3, <1>5 DEF first, last

LEMMA ToPutProperties ==
    ASSUME TypeOK
    PROVE  /\ ToPut \in Seq(Element)
           /\ Len(ToPut) = Len(buffer) - totalWriteBytes
           /\ \A j \in 1..Len(ToPut) : ToPut[j] = buffer[totalWriteBytes + j]
PROOF
<1> DEFINE n == Len(buffer) - totalWriteBytes
<1>1. n \in Nat /\ totalWriteBytes \in Nat /\ totalWriteBytes + n = Len(buffer)
    BY RingTypes
<1> HIDE DEF n
<1>2. /\ SubSeq(buffer, totalWriteBytes + 1, totalWriteBytes + n) \in Seq(Element)
      /\ Len(SubSeq(buffer, totalWriteBytes + 1, totalWriteBytes + n)) = n
      /\ \A j \in 1..n : SubSeq(buffer, totalWriteBytes + 1, totalWriteBytes + n)[j]
                              = buffer[totalWriteBytes + j]
    BY <1>1, RingTypes, Part
<1> QED
    BY <1>1, <1>2 DEF ToPut, n

LEMMA ReadProperties ==
    ASSUME TypeOK, RingHolds
    PROVE  /\ ring.tailer <= Len(stream)
           /\ Read \in Seq(Element) /\ Len(Read) = ring.tailer
           /\ \A i \in 1..ring.tailer : Read[i] = stream[i]
PROOF
<1>1. ring.tailer <= Len(stream)
    BY RingTypes DEF RingHolds
<1> QED
    BY <1>1, RingTypes, Part DEF Read

------------------------------------------------------------------------------
\* What unpack reads from the ring is a piece of the stream.
LEMMA CopyIsPiece ==
    ASSUME TypeOK, RingHolds, NEW n \in Nat, NEW off \in Nat, off + n <= length(ring)
    PROVE  copyTo(ring, n, off) = Stream!Piece(Read, ring.header + off, n)
PROOF
<1> DEFINE copy == copyTo(ring, n, off)
           piece == Stream!Piece(Read, ring.header + off, n)
<1>1. copy \in Seq(Element) /\ Len(copy) = n
    BY RingTypes, CopyToReads DEF Least
<1>2. /\ piece \in Seq(Element) /\ Len(piece) = n
      /\ \A i \in 1..n : piece[i] = Read[ring.header + off + i]
    <2> DEFINE m == ring.header + off
    <2>1. m \in Nat /\ m + n <= Len(Read)
        BY RingTypes, ReadProperties
    <2> HIDE DEF m
    <2>2. /\ SubSeq(Read, m + 1, m + n) \in Seq(Element)
          /\ Len(SubSeq(Read, m + 1, m + n)) = n
          /\ \A i \in 1..n : SubSeq(Read, m + 1, m + n)[i] = Read[m + i]
        BY <2>1, ReadProperties, Part
    <2> QED
        BY <2>2 DEF Stream!Piece, m
<1> HIDE DEF piece
<1>3. ASSUME NEW i \in 1..n
      PROVE  copy[i] = piece[i]
    <2>1. copy[i] = At(ring, ring.header + off + i - 1)
        <3>1. \A k \in 1..Len(copy) : copy[k] = At(ring, ring.header + off + k - 1)
            BY RingTypes, CopyToReads
        <3> QED
            BY <1>1, <3>1
    <2>2. ring.header + off + i - 1 \in ring.header..(ring.tailer - 1)
        <3>1. /\ ring.header \in Nat /\ ring.tailer \in Nat
              /\ off + n <= ring.tailer - ring.header
            BY RingTypes
        <3> QED
            BY <3>1
    <2>3. At(ring, ring.header + off + i - 1) = stream[ring.header + off + i]
        <3>1. ring.header + off + i - 1 + 1 = ring.header + off + i
            BY RingTypes
        <3> QED
            BY <2>2, <3>1 DEF RingHolds
    <2>4. ring.header + off + i \in 1..ring.tailer
        BY <2>2, RingTypes
    <2> QED
        BY <1>2, <2>1, <2>3, <2>4, ReadProperties
<1> QED
    BY <1>1, <1>2, <1>3, SeqEqual DEF piece

LEMMA DelimiterIsPiece ==
    ASSUME TypeOK, RingHolds
    PROVE  /\ Len(delimiter) = DelimiterSize <=> Stream!There(Read, ring.header, DelimiterSize)
           /\ Len(delimiter) = DelimiterSize =>
                  /\ DelimiterSize <= length(ring)
                  /\ delimiter = Stream!Piece(Read, ring.header, DelimiterSize)
           /\ AtDelimiter <=> Stream!StartsAt(Read, ring.header)
PROOF
<1>1. Len(delimiter) = IF 0 >= length(ring) THEN 0 ELSE Least(DelimiterSize, length(ring) - 0)
    BY RingTypes, CopyToReads, FrameAssumption DEF delimiter
<1>2. Len(delimiter) = DelimiterSize <=> DelimiterSize <= length(ring)
    BY <1>1, RingTypes, FrameAssumption DEF Least
<1>3. DelimiterSize <= length(ring) <=> Stream!There(Read, ring.header, DelimiterSize)
    BY RingTypes, ReadProperties, FrameAssumption DEF Stream!There
<1>4. DelimiterSize <= length(ring) => delimiter = Stream!Piece(Read, ring.header, DelimiterSize)
    <2> SUFFICES ASSUME DelimiterSize <= length(ring)
                 PROVE  delimiter = Stream!Piece(Read, ring.header, DelimiterSize)
        OBVIOUS
    <2>1. ring.header + 0 = ring.header /\ 0 + DelimiterSize = DelimiterSize
        BY RingTypes, FrameAssumption
    <2>2. copyTo(ring, DelimiterSize, 0) = Stream!Piece(Read, ring.header + 0, DelimiterSize)
        BY <2>1, CopyIsPiece, FrameAssumption
    <2> QED
        BY <2>1, <2>2 DEF delimiter
<1> QED
    BY <1>2, <1>3, <1>4 DEF AtDelimiter, Stream!StartsAt

LEMMA LengthIsNumber ==
    ASSUME TypeOK, Len(lengthBytes) = LengthSize
    PROVE  /\ frameLength \in Nat
           /\ endOffset \in Nat
           /\ DelimiterSize + LengthSize <= length(ring)
PROOF
<1>1. /\ lengthBytes \in Seq(Element)
      /\ Len(lengthBytes) = IF DelimiterSize >= length(ring) THEN 0
                            ELSE Least(LengthSize, length(ring) - DelimiterSize)
    BY RingTypes, CopyToReads, FrameAssumption DEF lengthBytes
<1>2. lengthBytes \in [1..LengthSize -> Element]
    BY <1>1, LenProperties
<1>3. frameLength \in Nat
    BY <1>2, FrameAssumption DEF frameLength
<1> QED
    BY <1>1, <1>3, RingTypes, FrameAssumption DEF endOffset, Least

\* Whole is that a frame is complete, although its last offset is computed
\* modulo the word.
LEMMA WholeIsComplete ==
    ASSUME TypeOK, RingHolds, AtDelimiter
    PROVE  /\ Whole <=> Stream!CompleteAt(Read, ring.header)
           /\ Whole => /\ frameLength \in Nat
                       /\ frameLength = Stream!LengthAt(Read, ring.header)
                       /\ frameLength \in DelimiterSize..length(ring)
                       /\ rightDelimiter = Stream!Piece(Read,
                              ring.header + frameLength - DelimiterSize, DelimiterSize)
PROOF
<1>1. CASE ~(DelimiterSize + LengthSize <= length(ring))
    <2>1. ~Whole
        BY <1>1, LengthIsNumber DEF Whole, Announced
    <2>2. ~Stream!CompleteAt(Read, ring.header)
        BY <1>1, RingTypes, ReadProperties, FrameAssumption DEF Stream!CompleteAt, Stream!There
    <2> QED
        BY <2>1, <2>2
<1>2. CASE DelimiterSize + LengthSize <= length(ring)
    <2>1. Len(lengthBytes) = LengthSize
        BY <1>2, RingTypes, CopyToReads, FrameAssumption DEF lengthBytes, Least
    <2>2. lengthBytes = Stream!Piece(Read, ring.header + DelimiterSize, LengthSize)
        BY <1>2, CopyIsPiece, FrameAssumption DEF lengthBytes
    <2>3. frameLength = Stream!LengthAt(Read, ring.header)
        BY <2>2 DEF frameLength, Stream!LengthAt
    <2>4. frameLength \in Nat /\ endOffset \in Nat
        BY <2>1, LengthIsNumber
    <2>5. Stream!CompleteAt(Read, ring.header)
              <=> /\ length(ring) >= MinLength
                  /\ frameLength >= DelimiterSize
                  /\ length(ring) >= frameLength
        <3>1. Stream!StartsAt(Read, ring.header)
            BY DelimiterIsPiece
        <3> QED
            BY <3>1, <1>2, <2>3, <2>4, RingTypes, ReadProperties, FrameAssumption
            DEF Stream!CompleteAt, Stream!There
    <2>6. /\ Len(rightDelimiter) = IF endOffset >= length(ring) THEN 0
                                   ELSE Least(DelimiterSize, length(ring) - endOffset)
        BY <2>4, RingTypes, CopyToReads, FrameAssumption DEF rightDelimiter
    <2>7. CASE ~(length(ring) >= frameLength)
        BY <2>5, <2>7 DEF Whole, Announced
    <2>8. CASE length(ring) >= frameLength /\ frameLength < DelimiterSize
        <3>1. endOffset = frameLength - DelimiterSize + Word
            <4> DEFINE d == frameLength - DelimiterSize
            <4>1. d \in Int /\ d < 0 /\ d + Word \in 0..(Word - 1) /\ Word \in Nat \ {0}
                BY <2>4, <2>8, RingTypes, FrameAssumption
            <4> HIDE DEF d
            <4>2. d % Word = d + Word
                BY <4>1
            <4> QED
                BY <4>2 DEF endOffset, d
        <3>2. Len(rightDelimiter) = 0
            BY <2>4, <2>6, <3>1, RingTypes, FrameAssumption
        <3> QED
            BY <2>4, <2>5, <2>8, <3>2, FrameAssumption DEF Whole
    <2>9. CASE length(ring) >= frameLength /\ frameLength >= DelimiterSize
        <3>1. endOffset = frameLength - DelimiterSize
            <4> DEFINE d == frameLength - DelimiterSize
            <4>1. d \in 0..(Word - 1) /\ Word \in Nat \ {0}
                BY <2>4, <2>9, RingTypes, FrameAssumption
            <4> HIDE DEF d
            <4>2. d % Word = d
                BY <4>1
            <4> QED
                BY <4>2 DEF endOffset, d
        <3>2. Len(rightDelimiter) = DelimiterSize
            BY <2>4, <2>6, <2>9, <3>1, RingTypes, FrameAssumption DEF Least
        <3>3. /\ ring.header + (frameLength - DelimiterSize)
                     = ring.header + frameLength - DelimiterSize
              /\ (frameLength - DelimiterSize) + DelimiterSize <= length(ring)
              /\ frameLength - DelimiterSize \in Nat
            BY <2>4, <2>9, RingTypes, FrameAssumption
        <3>4. rightDelimiter = Stream!Piece(Read, ring.header + frameLength - DelimiterSize,
                                            DelimiterSize)
            BY <3>1, <3>3, CopyIsPiece, FrameAssumption DEF rightDelimiter
        <3> QED
            BY <2>1, <2>3, <2>4, <2>5, <2>9, <3>2, <3>4, RingTypes, FrameAssumption
            DEF Whole, Announced
    <2> QED
        BY <2>4, <2>7, <2>8, <2>9, RingTypes, FrameAssumption
<1> QED
    BY <1>1, <1>2, RingTypes, FrameAssumption

------------------------------------------------------------------------------
\* One lemma per action: what it leaves of the invariant.
LEMMA InitInv == Init => DecoderInv
PROOF
<1> SUFFICES ASSUME Init PROVE DecoderInv
    OBVIOUS
<1>1. /\ ring.header = 0 /\ ring.tailer = 0 /\ ring \in Rings
    BY DEF Init, NewRing, Rings
<1>2. Sound(ring)
    BY <1>1, RingAssumption DEF Sound, length
<1>3. <<>> \in Seq(Element) /\ <<>> \in Seq(Seq(Element)) /\ Len(<<>>) = 0
    OBVIOUS
<1>4. TypeOK
    <2>1. /\ pc = "idle" /\ buffer = <<>> /\ totalWriteBytes = 0 /\ DataList = <<>>
          /\ stream = <<>> /\ unpacked = <<>> /\ objects = <<>> /\ delivered = <<>>
          /\ cut \in BOOLEAN
        BY DEF Init
    <2>2. 0 \in 0..Len(<<>>)
        BY <1>3
    <2> QED
        BY <1>2, <1>3, <2>1, <2>2 DEF TypeOK
<1>5. NothingBetweenReads /\ ObjectsGoOn
    <2>1. <<>> = <<>> \o <<>>
        BY <1>3
    <2> QED
        BY <2>1 DEF Init, NothingBetweenReads, ObjectsGoOn
<1>6. RingHolds
    BY <1>1, <1>3 DEF Init, RingHolds
<1> QED
    BY <1>4, <1>5, <1>6 DEF DecoderInv

LEMMA HandleReadInv ==
    ASSUME DecoderInv, NEW bytes \in Reads, handleRead(bytes)
    PROVE  DecoderInv' /\ Read' = Read
PROOF
<1> USE DEF DecoderInv
<1>1. bytes \in Seq(Element) /\ Len(bytes) \in Nat
    BY FrameAssumption
<1>2. buffer = <<>> /\ totalWriteBytes = 0 /\ DataList = <<>>
    BY DEF handleRead, NothingBetweenReads
<1>3. Len(stream) = ring.tailer
    BY <1>2, RingTypes DEF RingHolds
<1>4. /\ stream' \in Seq(Element) /\ Len(stream') = ring.tailer + Len(bytes)
      /\ \A i \in 1..ring.tailer : stream'[i] = stream[i]
      /\ \A j \in 1..Len(bytes) : stream'[ring.tailer + j] = bytes[j]
    <2>1. stream' = stream \o bytes /\ stream \in Seq(Element) /\ ring.tailer \in Nat
        BY RingTypes DEF handleRead
    <2>2. /\ stream \o bytes \in Seq(Element)
          /\ Len(stream \o bytes) = Len(stream) + Len(bytes)
          /\ \A i \in 1..(Len(stream) + Len(bytes)) :
                 (stream \o bytes)[i] = IF i <= Len(stream) THEN stream[i]
                                        ELSE bytes[i - Len(stream)]
        BY <1>1, <2>1, ConcatProperties
    <2>3. ASSUME NEW j \in 1..Len(bytes)
          PROVE  stream'[ring.tailer + j] = bytes[j]
        <3>1. /\ ring.tailer + j \in 1..(ring.tailer + Len(bytes))
              /\ ~(ring.tailer + j <= ring.tailer)
              /\ ring.tailer + j - ring.tailer = j
            BY <1>1, <2>1
        <3>2. (stream \o bytes)[ring.tailer + j] = bytes[ring.tailer + j - ring.tailer]
            BY <1>3, <2>2, <3>1
        <3> QED
            BY <2>1, <3>1, <3>2
    <2>4. ASSUME NEW i \in 1..ring.tailer
          PROVE  stream'[i] = stream[i]
        <3>1. i \in 1..(ring.tailer + Len(bytes)) /\ i <= ring.tailer
            BY <1>1, <2>1
        <3> QED
            BY <1>3, <2>1, <2>2, <3>1
    <2> QED
        BY <1>3, <2>1, <2>2, <2>3, <2>4
<1>5. TypeOK'
    <2>1. cut' \in BOOLEAN /\ pc' \in {"idle", "put", "unpack"}
        BY DEF handleRead
    <2>2. /\ Sound(ring') /\ buffer' \in Seq(Element) /\ totalWriteBytes' \in 0..Len(buffer')
          /\ stream' \in Seq(Element)
        BY <1>1, <1>4 DEF handleRead, TypeOK
    <2>3. <<>> \in Seq(Seq(Element))
        OBVIOUS
    <2>4. /\ DataList' \in Seq(Seq(Element)) /\ unpacked' \in Seq(Seq(Element))
          /\ objects' \in Seq(Seq(Element)) /\ delivered' \in Seq(Seq(Element))
        BY <2>3 DEF handleRead, TypeOK
    <2> QED
        BY <2>1, <2>2, <2>4 DEF TypeOK
<1>6. RingHolds'
    <2>1. ASSUME NEW i \in ring.header..(ring.tailer - 1)
          PROVE  At(ring, i) = stream'[i + 1]
        <3>1. i + 1 \in 1..ring.tailer
            BY RingTypes
        <3> QED
            BY <1>4, <3>1 DEF RingHolds
    <2>2. /\ ring' = ring /\ buffer' = bytes /\ totalWriteBytes' = 0
        BY DEF handleRead
    <2>3. ASSUME NEW j \in 1..Len(bytes)
          PROVE  bytes[j] = stream'[ring.tailer + j - 0]
        <3>1. ring.tailer + j - 0 = ring.tailer + j
            BY <1>1, RingTypes
        <3> QED
            BY <1>4, <3>1
    <2>4. Len(stream') = ring.tailer + Len(bytes) - 0 /\ 0 + 1 = 1
        BY <1>1, <1>4, RingTypes
    <2> QED
        BY <2>1, <2>2, <2>3, <2>4 DEF RingHolds
<1>7. ObjectsGoOn'
    BY <1>2 DEF ObjectsGoOn, handleRead
<1>8. NothingBetweenReads'
    <2>1. bytes # <<>>
        BY FrameAssumption
    <2> QED
        BY <2>1 DEF NothingBetweenReads, handleRead
<1>9. Read' = Read
    <2>1. Len(Read') = ring.tailer /\ Read' \in Seq(Element)
          /\ \A i \in 1..ring.tailer : Read'[i] = stream'[i]
        <3>1. ring.tailer \in Nat /\ ring.tailer <= Len(stream')
            BY <1>1, <1>4, RingTypes
        <3>2. /\ SubSeq(stream', 1, ring.tailer) \in Seq(Element)
              /\ Len(SubSeq(stream', 1, ring.tailer)) = ring.tailer
              /\ \A i \in 1..ring.tailer : SubSeq(stream', 1, ring.tailer)[i] = stream'[i]
            BY <1>4, <3>1, Part
        <3> QED
            BY <3>2 DEF Read, handleRead
    <2> QED
        BY <1>4, <2>1, ReadProperties, SeqEqual
<1> QED
    BY <1>5, <1>6, <1>7, <1>8, <1>9

LEMMA PutInv ==
    ASSUME DecoderInv, Put
    PROVE  /\ DecoderInv'
           /\ stream' = stream /\ ring'.header = ring.header /\ ring'.tailer >= ring.tailer
           /\ ring'.tailer <= Len(stream)
PROOF
<1> USE DEF DecoderInv
<1> DEFINE n == PutSize(ring, ToPut)
<1>1. /\ Sound(ring') /\ n \in 0..(Len(buffer) - totalWriteBytes)
      /\ ring'.header = ring.header /\ ring'.tailer = ring.tailer + n
      /\ \A i \in ring.header..(ring.tailer - 1) : At(ring', i) = At(ring, i)
      /\ \A j \in 1..n : At(ring', ring.tailer + j - 1) = ToPut[j]
    <2>1. ring' = put(ring, ToPut)
        BY DEF Put
    <2> QED
        BY <2>1, RingTypes, ToPutProperties, PutKeeps
<1> HIDE DEF n
<1>2. /\ pc' = "unpack" /\ buffer' = buffer /\ DataList' = DataList
      /\ totalWriteBytes' = totalWriteBytes + n
      /\ stream' = stream /\ unpacked' = unpacked /\ objects' = objects
      /\ delivered' = delivered /\ cut' = cut
    BY DEF Put, history, n
<1>3. /\ n \in Nat /\ totalWriteBytes \in Nat /\ totalWriteBytes + n <= Len(buffer)
      /\ Len(ToPut) = Len(buffer) - totalWriteBytes /\ n <= Len(ToPut)
    BY <1>1, RingTypes, ToPutProperties
<1>4. TypeOK'
    <2>1. totalWriteBytes + n \in 0..Len(buffer)
        BY <1>3, RingTypes
    <2> QED
        BY <1>1, <1>2, <2>1 DEF TypeOK
<1>5. RingHolds'
    <2>1. Len(stream') = ring'.tailer + Len(buffer') - totalWriteBytes'
        <3>1. Len(stream) = ring.tailer + Len(buffer) - totalWriteBytes
            BY DEF RingHolds
        <3>2. ring.tailer + Len(buffer) - totalWriteBytes
                  = (ring.tailer + n) + Len(buffer) - (totalWriteBytes + n)
            BY <1>3, RingTypes
        <3> QED
            BY <1>1, <1>2, <3>1, <3>2
    <2>0. ring'.header..(ring'.tailer - 1) = ring.header..(ring.tailer + n - 1)
        <3>1. /\ ring'.header = ring.header /\ ring'.tailer = ring.tailer + n
              /\ ring.header \in Int /\ ring.tailer \in Int /\ n \in Int
            BY <1>1, RingTypes
        <3> QED
            BY <3>1
    <2>2. ASSUME NEW i \in ring.header..(ring.tailer + n - 1)
          PROVE  At(ring', i) = stream'[i + 1]
        <3>1. CASE i < ring.tailer
            <4>1. i \in ring.header..(ring.tailer - 1)
                BY <1>3, <3>1, RingTypes
            <4> QED
                BY <1>1, <1>2, <4>1 DEF RingHolds
        <3>2. CASE i >= ring.tailer
            <4>1. PICK j \in 1..n : i = ring.tailer + j - 1
                <5>1. i - ring.tailer + 1 \in 1..n
                      /\ i = ring.tailer + (i - ring.tailer + 1) - 1
                    BY <1>3, <3>2, RingTypes
                <5> QED
                    BY <5>1
            <4>2. At(ring', i) = ToPut[j]
                BY <1>1, <4>1
            <4>3. ToPut[j] = buffer[totalWriteBytes + j]
                <5>1. j \in 1..Len(ToPut)
                    BY <1>3
                <5> QED
                    BY <5>1, ToPutProperties
            <4>4. buffer[totalWriteBytes + j]
                      = stream[ring.tailer + (totalWriteBytes + j) - totalWriteBytes]
                <5>1. totalWriteBytes + j \in (totalWriteBytes + 1)..Len(buffer)
                    BY <1>3, RingTypes
                <5> QED
                    BY <5>1 DEF RingHolds
            <4>5. ring.tailer + (totalWriteBytes + j) - totalWriteBytes = i + 1
                BY <1>3, <4>1, RingTypes
            <4> QED
                BY <1>2, <4>2, <4>3, <4>4, <4>5
        <3>3. i \in Int /\ ring.tailer \in Int
            BY <1>3, RingTypes
        <3> QED
            BY <3>1, <3>2, <3>3
    <2>3. ASSUME NEW j \in (totalWriteBytes' + 1)..Len(buffer')
          PROVE  buffer'[j] = stream'[ring'.tailer + j - totalWriteBytes']
        <3>1. j \in (totalWriteBytes + n + 1)..Len(buffer)
            BY <1>2
        <3>2. j \in (totalWriteBytes + 1)..Len(buffer)
              /\ (ring.tailer + n) + j - (totalWriteBytes + n) = ring.tailer + j - totalWriteBytes
            BY <1>3, <3>1, RingTypes
        <3>3. buffer[j] = stream[ring.tailer + j - totalWriteBytes]
            BY <3>2 DEF RingHolds
        <3> QED
            BY <1>1, <1>2, <3>2, <3>3
    <2> QED
        BY <2>0, <2>1, <2>2, <2>3 DEF RingHolds
<1>6. NothingBetweenReads' /\ ObjectsGoOn'
    BY <1>2 DEF Put, NothingBetweenReads, ObjectsGoOn
<1>7. /\ ring.tailer + n >= ring.tailer /\ ring.tailer + n <= Len(stream)
    <2>1. Len(stream) = ring.tailer + Len(buffer) - totalWriteBytes
        BY DEF RingHolds
    <2> QED
        BY <1>3, <2>1, RingTypes
<1> QED
    BY <1>1, <1>2, <1>4, <1>5, <1>6, <1>7

LEMMA ReturnInv ==
    ASSUME DecoderInv, Return
    PROVE  DecoderInv'
PROOF
<1> USE DEF DecoderInv
<1>1. /\ <<>> \in Seq(Element) /\ Len(<<>>) = 0 /\ <<>> \in Seq(Seq(Element))
    OBVIOUS
<1>2. DataList \in Seq(Seq(Element)) /\ delivered \in Seq(Seq(Element))
    BY DEF TypeOK
<1>3. /\ delivered \o DataList \in Seq(Seq(Element))
      /\ (delivered \o DataList) \o <<>> = delivered \o DataList
    BY <1>2
<1>4. TypeOK'
    BY <1>1, <1>3 DEF TypeOK, Return
<1>5. RingHolds'
    <2>1. Len(stream) = ring.tailer
        BY RingTypes DEF RingHolds, Return
    <2>2. ring' = ring /\ stream' = stream /\ buffer' = <<>> /\ totalWriteBytes' = 0
        BY DEF Return
    <2> QED
        BY <1>1, <2>1, <2>2, RingTypes DEF RingHolds
<1>6. ObjectsGoOn'
    BY <1>3 DEF ObjectsGoOn, Return
<1>7. NothingBetweenReads'
    BY DEF NothingBetweenReads, Return
<1> QED
    BY <1>4, <1>5, <1>6, <1>7

\* Moving on in the ring.
LEMMA MoveInv ==
    ASSUME DecoderInv, NEW n \in Nat, n <= length(ring), ring' = move(ring, n),
           UNCHANGED <<pc, locals, history>>
    PROVE  DecoderInv' /\ Read' = Read /\ ring'.header = ring.header + n
PROOF
<1> USE DEF DecoderInv
<1>1. /\ Sound(ring') /\ ring'.header = ring.header + n /\ ring'.tailer = ring.tailer
      /\ \A i : At(ring', i) = At(ring, i)
    BY RingTypes, MoveKeeps
<1>2. /\ pc' = pc /\ buffer' = buffer /\ totalWriteBytes' = totalWriteBytes
      /\ DataList' = DataList /\ stream' = stream /\ unpacked' = unpacked
      /\ objects' = objects /\ delivered' = delivered /\ cut' = cut
    BY DEF locals, history
<1>3. TypeOK'
    BY <1>1, <1>2 DEF TypeOK
<1>4. RingHolds'
    <2>1. \A i \in ring'.header..(ring'.tailer - 1) : i \in ring.header..(ring.tailer - 1)
        BY <1>1, RingTypes
    <2> QED
        BY <1>1, <1>2, <2>1 DEF RingHolds
<1>5. NothingBetweenReads' /\ ObjectsGoOn'
    BY <1>2 DEF NothingBetweenReads, ObjectsGoOn
<1> QED
    BY <1>1, <1>2, <1>3, <1>4, <1>5 DEF Read

\* A frame leaves the ring as any move over as many bytes does.
LEMMA DecodeInv ==
    ASSUME DecoderInv, NEW outcome \in Outcomes, Decode(outcome)
    PROVE  /\ DecoderInv' /\ Read' = Read
           /\ ring'.header = ring.header + frameLength
           /\ unpacked' = Append(unpacked, Stream!Piece(Read, ring.header, frameLength))
PROOF
<1> USE DEF DecoderInv
<1> DEFINE n == frameLength
           pack == Taken(ring, n)
<1>1. n \in Nat /\ n <= length(ring)
    <2>1. n \in Nat /\ n \in DelimiterSize..length(ring)
        BY WholeIsComplete DEF Decode
    <2> QED
        BY <2>1, RingTypes, FrameAssumption
<1>2. ring' = move(ring, n)
    <2>1. ring' = take(ring, n)
        BY DEF Decode
    <2> QED
        BY <1>1, <2>1, RingTypes, TakeKeeps
<1>3. unpacked' = Append(unpacked, pack) /\ delivered' = delivered
    BY DEF Decode
<1>4. /\ pack \in Seq(Element)
      /\ pack = Stream!Piece(Read, ring.header, n)
    <2>1. copyTo(ring, n, 0) \in Seq(Element)
        BY <1>1, RingTypes, CopyToReads
    <2>2. ring.header + 0 = ring.header /\ 0 + n <= length(ring)
        BY <1>1, RingTypes
    <2>3. copyTo(ring, n, 0) = Stream!Piece(Read, ring.header + 0, n)
        BY <1>1, <2>2, CopyIsPiece
    <2> QED
        BY <2>1, <2>2, <2>3 DEF Taken
<1>5. \/ /\ objects' = Append(objects, pack) /\ DataList' = Append(DataList, pack)
         /\ UNCHANGED <<pc, buffer, totalWriteBytes, stream, cut>>
      \/ UNCHANGED <<pc, locals, stream, objects, cut>>
      \/ /\ stream' = SubSeq(stream, 1, Len(stream) - Len(ToPut))
         /\ buffer' = <<>> /\ totalWriteBytes' = 0 /\ DataList' = <<>>
         /\ pc' = "idle" /\ cut' = TRUE
         /\ objects' = SubSeq(objects, 1, Len(objects) - Len(DataList))
    BY DEF Decode
<1>6. pc = "unpack"
    BY DEF Decode
<1> HIDE DEF n, pack
<1>7. /\ Sound(ring') /\ ring'.header = ring.header + n /\ ring'.tailer = ring.tailer
      /\ \A i : At(ring', i) = At(ring, i)
    BY <1>1, <1>2, RingTypes, MoveKeeps
<1>8. \A i \in ring'.header..(ring'.tailer - 1) : i \in ring.header..(ring.tailer - 1)
    BY <1>1, <1>7, RingTypes
<1>9. /\ unpacked' \in Seq(Seq(Element)) /\ delivered' \in Seq(Seq(Element))
      /\ Append(objects, pack) \in Seq(Seq(Element))
      /\ Append(DataList, pack) \in Seq(Seq(Element))
    BY <1>3, <1>4 DEF TypeOK
<1>10. Read \in Seq(Element) /\ Len(Read) = ring.tailer /\ ring.tailer \in Nat
       /\ \A i \in 1..ring.tailer : Read[i] = stream[i]
    BY ReadProperties, RingTypes
<1>0. objects = delivered \o DataList
    BY DEF ObjectsGoOn
<1>11. ASSUME stream' = stream, buffer' = buffer, totalWriteBytes' = totalWriteBytes,
              pc' = pc, cut' = cut,
              \/ objects' = Append(objects, pack) /\ DataList' = Append(DataList, pack)
              \/ objects' = objects /\ DataList' = DataList
       PROVE  DecoderInv' /\ Read' = Read
    <2>1. TypeOK'
        BY <1>7, <1>9, <1>11 DEF TypeOK
    <2>2. RingHolds'
        BY <1>7, <1>8, <1>11 DEF RingHolds
    <2>3. ObjectsGoOn'
        <3>1. /\ delivered \in Seq(Seq(Element)) /\ DataList \in Seq(Seq(Element))
              /\ pack \in Seq(Element)
            BY <1>4 DEF TypeOK
        <3>2. /\ delivered \o DataList \in Seq(Seq(Element)) /\ <<pack>> \in Seq(Seq(Element))
              /\ Append(delivered \o DataList, pack) = (delivered \o DataList) \o <<pack>>
              /\ Append(DataList, pack) = DataList \o <<pack>>
            BY <3>1, ConcatProperties, AppendIsConcat
        <3>3. (delivered \o DataList) \o <<pack>> = delivered \o (DataList \o <<pack>>)
            BY <3>1, <3>2, ConcatAssociative
        <3> QED
            BY <1>0, <1>3, <1>11, <3>2, <3>3 DEF ObjectsGoOn
    <2>4. NothingBetweenReads'
        BY <1>6, <1>11 DEF NothingBetweenReads
    <2>5. Read' = Read
        BY <1>7, <1>11 DEF Read
    <2> QED
        BY <2>1, <2>2, <2>3, <2>4, <2>5
<1>12. ASSUME stream' = SubSeq(stream, 1, Len(stream) - Len(ToPut)),
              buffer' = <<>>, totalWriteBytes' = 0, DataList' = <<>>,
              pc' = "idle", cut' = TRUE,
              objects' = SubSeq(objects, 1, Len(objects) - Len(DataList))
       PROVE  DecoderInv' /\ Read' = Read
    <2>1. Len(stream) - Len(ToPut) = ring.tailer
        <3>1. /\ Len(stream) = ring.tailer + Len(buffer) - totalWriteBytes
              /\ Len(ToPut) = Len(buffer) - totalWriteBytes
            BY ToPutProperties DEF RingHolds
        <3> QED
            BY <3>1, RingTypes
    <2>2. stream' = Read
        BY <1>12, <2>1 DEF Read
    <2>3. <<>> \in Seq(Element) /\ <<>> \in Seq(Seq(Element)) /\ Len(<<>>) = 0
        OBVIOUS
    <2>8. objects' = delivered
        <3>1. /\ delivered \in Seq(Seq(Element)) /\ DataList \in Seq(Seq(Element))
              /\ Len(delivered) \in Nat /\ Len(DataList) \in Nat
            BY LenProperties DEF TypeOK
        <3>2. /\ objects \in Seq(Seq(Element)) /\ Len(objects) = Len(delivered) + Len(DataList)
              /\ \A i \in 1..Len(delivered) : objects[i] = delivered[i]
            <4>1. \A i \in 1..Len(delivered) : i \in 1..(Len(delivered) + Len(DataList))
                                               /\ i <= Len(delivered)
                BY <3>1
            <4> QED
                BY <1>0, <3>1, <4>1, ConcatProperties
        <3>3. Len(objects) - Len(DataList) = Len(delivered) /\ Len(delivered) <= Len(objects)
            BY <3>1, <3>2
        <3>4. /\ SubSeq(objects, 1, Len(delivered)) \in Seq(Seq(Element))
              /\ Len(SubSeq(objects, 1, Len(delivered))) = Len(delivered)
              /\ \A i \in 1..Len(delivered) :
                     SubSeq(objects, 1, Len(delivered))[i] = objects[i]
            <4>1. \A i \in 1..Len(delivered) : 1 + i - 1 = i
                BY <3>1
            <4>2. Len(delivered) - 1 + 1 = Len(delivered)
                BY <3>1
            <4> QED
                BY <3>1, <3>2, <3>3, <4>1, <4>2, SubSeqProperties
        <3> QED
            BY <1>12, <3>1, <3>2, <3>3, <3>4, SeqEqual
    <2>9. delivered = delivered \o <<>>
        BY DEF TypeOK
    <2>4. TypeOK'
        <3>1. cut' \in BOOLEAN /\ pc' \in {"idle", "put", "unpack"}
            BY <1>12
        <3>2. /\ Sound(ring') /\ buffer' \in Seq(Element)
              /\ totalWriteBytes' \in 0..Len(buffer') /\ stream' \in Seq(Element)
            BY <1>7, <1>10, <1>12, <2>2, <2>3
        <3>3. /\ DataList' \in Seq(Seq(Element)) /\ unpacked' \in Seq(Seq(Element))
              /\ objects' \in Seq(Seq(Element)) /\ delivered' \in Seq(Seq(Element))
            BY <1>3, <1>9, <1>12, <2>3, <2>8 DEF TypeOK
        <3> QED
            BY <3>1, <3>2, <3>3 DEF TypeOK
    <2>5. RingHolds'
        <3>1. ASSUME NEW i \in ring'.header..(ring'.tailer - 1)
              PROVE  At(ring', i) = stream'[i + 1]
            <4>1. i \in ring.header..(ring.tailer - 1)
                BY <1>8
            <4>2. i + 1 \in 1..ring.tailer
                BY <4>1, RingTypes
            <4> QED
                BY <1>7, <1>10, <2>2, <4>1, <4>2 DEF RingHolds
        <3>2. Len(stream') = ring'.tailer + Len(buffer') - totalWriteBytes'
            BY <1>7, <1>10, <1>12, <2>2, <2>3
        <3>3. (totalWriteBytes' + 1)..Len(buffer') = {}
            BY <1>12, <2>3
        <3> QED
            BY <3>1, <3>2, <3>3 DEF RingHolds
    <2>6. ObjectsGoOn' /\ NothingBetweenReads'
        BY <1>3, <1>12, <2>8, <2>9 DEF ObjectsGoOn, NothingBetweenReads
    <2>7. Read' = Read
        <3>1. SubSeq(Read, 0 + 1, 0 + ring.tailer) = Read
            <4>1. /\ SubSeq(Read, 0 + 1, 0 + ring.tailer) \in Seq(Element)
                  /\ Len(SubSeq(Read, 0 + 1, 0 + ring.tailer)) = ring.tailer
                  /\ \A i \in 1..ring.tailer : SubSeq(Read, 0 + 1, 0 + ring.tailer)[i] = Read[0 + i]
                BY <1>10, Part
            <4>2. \A i \in 1..ring.tailer : 0 + i = i
                OBVIOUS
            <4> QED
                BY <1>10, <4>1, <4>2, SeqEqual
        <3>2. 0 + 1 = 1 /\ 0 + ring.tailer = ring.tailer
            BY <1>10
        <3>3. Read' = SubSeq(stream', 1, ring'.tailer)
            BY DEF Read
        <3> QED
            BY <1>7, <2>2, <3>1, <3>2, <3>3
    <2> QED
        BY <2>4, <2>5, <2>6, <2>7
<1>13. DecoderInv' /\ Read' = Read
    BY <1>5, <1>11, <1>12 DEF locals
<1> QED
    BY <1>3, <1>4, <1>7, <1>13 DEF n

LEMMA NextInv == DecoderInv /\ [Next]_vars => DecoderInv'
PROOF
<1> SUFFICES ASSUME DecoderInv, [Next]_vars PROVE DecoderInv'
    OBVIOUS
<1>1. CASE Put
    BY <1>1, PutInv
<1>2. CASE Return
    BY <1>2, ReturnInv
<1>3. CASE Wait
    BY <1>3 DEF Wait, locals, history, DecoderInv, TypeOK, NothingBetweenReads, RingHolds,
                ObjectsGoOn
<1>4. CASE Skip
    BY <1>4, DelimiterIsPiece, MoveInv, FrameAssumption DEF Skip, DecoderInv
<1>5. CASE MoveToNext
    <2>1. 1 \in Nat /\ 1 <= length(ring)
        BY <1>5, DelimiterIsPiece, RingTypes, FrameAssumption DEF MoveToNext, AtDelimiter, DecoderInv
    <2> QED
        BY <1>5, <2>1, MoveInv DEF MoveToNext
<1>6. CASE \E outcome \in Outcomes : Decode(outcome)
    BY <1>6, DecodeInv
<1>7. CASE \E bytes \in Reads : handleRead(bytes)
    BY <1>7, HandleReadInv
<1>8. CASE UNCHANGED vars
    BY <1>8 DEF vars, DecoderInv, TypeOK, NothingBetweenReads, RingHolds, ObjectsGoOn, ToPut
<1> QED
    BY <1>1, <1>2, <1>3, <1>4, <1>5, <1>6, <1>7, <1>8 DEF Next, GoOn

\* The ring buffer of the decoder (ringbuffer.cpp) holds, at every step of
\* handleRead (delimiterbasedframedecoder.hpp:24-49), the bytes of the stream at
\* their places, and no object gets lost before the next stage.
THEOREM DecoderInvHolds == Spec => []DecoderInv
PROOF
<1>1. Init => DecoderInv
    BY InitInv
<1>2. DecoderInv /\ [Next]_vars => DecoderInv'
    BY NextInv
<1> QED
    BY <1>1, <1>2, PTL DEF Spec

------------------------------------------------------------------------------
\* What unpack finds is what the abstract specification finds.
LEMMA ActionsOfStream ==
    ASSUME DecoderInv, [Next]_vars
    PROVE  [Stream!StreamNext]_(Stream!streamVars)
PROOF
<1> USE DEF DecoderInv
<1> DEFINE Stutter == Read' = Read /\ ring'.header = ring.header /\ unpacked' = unpacked
<1>0. ASSUME Stutter
      PROVE  [Stream!StreamNext]_(Stream!streamVars)
    BY <1>0 DEF Read, Stream!streamVars
<1>1. CASE Put
    <2>1. /\ stream' = stream /\ ring'.header = ring.header /\ ring'.tailer >= ring.tailer
          /\ ring'.tailer <= Len(stream) /\ DecoderInv'
        BY <1>1, PutInv
    <2>2. unpacked' = unpacked
        BY <1>1 DEF Put, history
    <2>3. /\ Read' \in Seq(Element) /\ Len(Read') = ring'.tailer
          /\ \A i \in 1..ring'.tailer : Read'[i] = stream[i]
        <3>1. TypeOK' /\ RingHolds'
            BY <2>1
        <3>2. ring'.tailer \in Nat
            BY <3>1 DEF TypeOK, Sound, Rings
        <3>3. /\ SubSeq(stream, 0 + 1, 0 + ring'.tailer) \in Seq(Element)
              /\ Len(SubSeq(stream, 0 + 1, 0 + ring'.tailer)) = ring'.tailer
              /\ \A i \in 1..ring'.tailer :
                     SubSeq(stream, 0 + 1, 0 + ring'.tailer)[i] = stream[0 + i]
            BY <2>1, <3>2, RingTypes, Part
        <3>4. /\ 0 + 1 = 1 /\ 0 + ring'.tailer = ring'.tailer
              /\ \A i \in 1..ring'.tailer : 0 + i = i
            BY <3>2
        <3>5. Read' = SubSeq(stream, 1, ring'.tailer)
            BY <2>1 DEF Read
        <3> QED
            BY <3>3, <3>4, <3>5
    <2>4. /\ Read \in Seq(Element) /\ Len(Read) = ring.tailer /\ ring.tailer \in Nat
          /\ \A i \in 1..ring.tailer : Read[i] = stream[i]
        BY ReadProperties, RingTypes
    <2>5. SubSeq(Read', 1, Len(Read)) = Read
        <3>1. /\ SubSeq(Read', 0 + 1, 0 + ring.tailer) \in Seq(Element)
              /\ Len(SubSeq(Read', 0 + 1, 0 + ring.tailer)) = ring.tailer
              /\ \A i \in 1..ring.tailer : SubSeq(Read', 0 + 1, 0 + ring.tailer)[i] = Read'[0 + i]
            BY <2>1, <2>3, <2>4, Part
        <3>2. /\ 0 + 1 = 1 /\ 0 + ring.tailer = ring.tailer
              /\ \A i \in 1..ring.tailer : 0 + i = i /\ i \in 1..ring'.tailer
            BY <2>1, <2>3, <2>4, LenProperties
        <3> QED
            BY <2>3, <2>4, <3>1, <3>2, SeqEqual
    <2>6. CASE ring'.tailer > ring.tailer
        <3>1. Len(Read') > Len(Read)
            BY <2>3, <2>4, <2>6
        <3>2. Stream!Arrive
            BY <2>1, <2>2, <2>5, <3>1 DEF Stream!Arrive, Read
        <3> QED
            BY <3>2 DEF Stream!StreamNext
    <2>7. CASE ring'.tailer = ring.tailer
        BY <1>0, <2>1, <2>2, <2>7 DEF Read
    <2> QED
        BY <2>1, <2>3, <2>4, <2>6, <2>7, LenProperties
<1>2. CASE Return \/ Wait
    BY <1>0, <1>2 DEF Return, Wait, history, Read
<1>3. CASE Skip
    <2>1. Len(delimiter) = DelimiterSize /\ delimiter # LeftDelimiter
        BY <1>3 DEF Skip
    <2>2. DecoderInv' /\ Read' = Read /\ ring'.header = ring.header + DelimiterSize
        BY <1>3, <2>1, DelimiterIsPiece, MoveInv, FrameAssumption DEF Skip
    <2>3. unpacked' = unpacked
        BY <1>3 DEF Skip, history
    <2>4. /\ Stream!There(Read, ring.header, DelimiterSize)
          /\ ~Stream!StartsAt(Read, ring.header)
        BY <2>1, DelimiterIsPiece DEF AtDelimiter
    <2>5. Stream!PassDelimiter
        BY <2>2, <2>3, <2>4 DEF Stream!PassDelimiter, Read
    <2> QED
        BY <2>5 DEF Stream!StreamNext
<1>4. CASE MoveToNext
    <2>1. AtDelimiter /\ Whole /\ rightDelimiter # RightDelimiter
        BY <1>4 DEF MoveToNext
    <2>2. 1 \in Nat /\ 1 <= length(ring)
        BY <2>1, DelimiterIsPiece, RingTypes, FrameAssumption DEF AtDelimiter
    <2>3. Read' = Read /\ ring'.header = ring.header + 1
        BY <1>4, <2>2, MoveInv DEF MoveToNext
    <2>4. unpacked' = unpacked
        BY <1>4 DEF MoveToNext, history
    <2>5. Stream!CompleteAt(Read, ring.header) /\ ~Stream!EndsAt(Read, ring.header)
        BY <2>1, WholeIsComplete DEF Stream!EndsAt
    <2>6. Stream!PassByte
        BY <2>3, <2>4, <2>5 DEF Stream!PassByte, Read
    <2> QED
        BY <2>6 DEF Stream!StreamNext
<1>5. ASSUME NEW outcome \in Outcomes, Decode(outcome)
      PROVE  [Stream!StreamNext]_(Stream!streamVars)
    <2>1. AtDelimiter /\ Whole /\ rightDelimiter = RightDelimiter
        BY <1>5 DEF Decode
    <2>2. /\ Read' = Read
          /\ ring'.header = ring.header + frameLength
          /\ unpacked' = Append(unpacked, Stream!Piece(Read, ring.header, frameLength))
        BY <1>5, DecodeInv
    <2>3. /\ Stream!CompleteAt(Read, ring.header) /\ Stream!EndsAt(Read, ring.header)
          /\ frameLength = Stream!LengthAt(Read, ring.header)
        BY <2>1, WholeIsComplete DEF Stream!EndsAt
    <2>4. Stream!Frame
        BY <2>2, <2>3 DEF Stream!Frame, Read
    <2> QED
        BY <2>4 DEF Stream!StreamNext
<1>6. ASSUME NEW bytes \in Reads, handleRead(bytes)
      PROVE  [Stream!StreamNext]_(Stream!streamVars)
    <2>1. Read' = Read
        BY <1>6, HandleReadInv
    <2>2. ring' = ring /\ unpacked' = unpacked
        BY <1>6 DEF handleRead
    <2> QED
        BY <1>0, <2>1, <2>2
<1>7. CASE UNCHANGED vars
    BY <1>0, <1>7 DEF vars, Read
<1> QED
    BY <1>1, <1>2, <1>3, <1>4, <1>5, <1>6, <1>7 DEF Next, GoOn

\* DelimiterBasedFrameDecoder finds the frames of the stream, in its order and
\* however it was cut into reads (delimiterbasedframedecoder.hpp:24-109).
THEOREM DecoderImplementsStream == Spec => StreamSpec
PROOF
<1>1. Init => Stream!StreamInit
    <2> SUFFICES ASSUME Init PROVE Stream!StreamInit
        OBVIOUS
    <2>1. ring.header = 0 /\ ring.tailer = 0 /\ stream = <<>> /\ unpacked = <<>>
        BY DEF Init, NewRing
    <2>2. SubSeq(<<>>, 1, 0) = <<>>
        OBVIOUS
    <2> QED
        BY <2>1, <2>2 DEF Stream!StreamInit
<1>2. DecoderInv /\ [Next]_vars => [Stream!StreamNext]_(Stream!streamVars)
    BY ActionsOfStream
<1> QED
    BY <1>1, <1>2, DecoderInvHolds, PTL DEF Spec, StreamSpec, Stream!StreamSpec

\* handleRead leaves its inner loop only where nothing more can be said of the
\* bytes that are there, and so leaves none of them to a later read
\* (delimiterbasedframedecoder.hpp:35-48), unless decode ended it by throwing (:37).
THEOREM NothingHeldBackHolds == Spec => []NothingHeldBack
PROOF
<1>1. Init => NothingHeldBack
    <2> SUFFICES ASSUME Init PROVE NothingHeldBack
        OBVIOUS
    <2>1. /\ pc = "idle" /\ ring.header = 0 /\ ring.tailer = 0 /\ stream = <<>>
        BY DEF Init, NewRing
    <2>2. SubSeq(<<>>, 1, 0) = <<>> /\ Len(<<>>) = 0
        OBVIOUS
    <2>3. ~Stream!There(<<>>, 0, DelimiterSize)
        BY <2>2, FrameAssumption DEF Stream!There
    <2> QED
        BY <2>1, <2>2, <2>3 DEF NothingHeldBack, Stream!WaitsAt
<1>2. DecoderInv /\ NothingHeldBack /\ [Next]_vars => NothingHeldBack'
    <2> SUFFICES ASSUME DecoderInv, NothingHeldBack, [Next]_vars,
                        \/ pc' = "put" /\ totalWriteBytes' > 0
                        \/ pc' = "idle" /\ ~cut'
                 PROVE  Stream!WaitsAt(Read', ring'.header)
        BY DEF NothingHeldBack, Read
    <2> USE DEF DecoderInv
    <2>1. CASE Wait
        <3>1. Stream!WaitsAt(Read, ring.header)
            BY <2>1, DelimiterIsPiece, WholeIsComplete DEF Wait, Stream!WaitsAt
        <3>2. Read' = Read /\ ring' = ring
            BY <2>1 DEF Wait, history, Read
        <3> QED
            BY <3>1, <3>2
    <2>2. CASE Return
        <3>1. pc = "put" /\ totalWriteBytes >= Len(buffer)
            BY <2>2 DEF Return
        <3>2. buffer # <<>> /\ buffer \in Seq(Element) /\ totalWriteBytes \in 0..Len(buffer)
            BY <3>1 DEF NothingBetweenReads, TypeOK
        <3>3. Len(buffer) > 0
            BY <3>2, EmptySeq, LenProperties
        <3>4. totalWriteBytes > 0
            BY <3>1, <3>2, <3>3, LenProperties
        <3>5. Read' = Read /\ ring' = ring
            BY <2>2 DEF Return, Read
        <3> QED
            BY <3>1, <3>4, <3>5 DEF NothingHeldBack, Read
    <2>3. CASE Put \/ Skip \/ MoveToNext
        BY <2>3 DEF Put, Skip, MoveToNext
    <2>4. CASE \E outcome \in Outcomes : Decode(outcome)
        BY <2>4 DEF Decode, locals
    <2>5. CASE \E bytes \in Reads : handleRead(bytes)
        BY <2>5 DEF handleRead
    <2>6. CASE UNCHANGED vars
        <3>1. /\ pc' = pc /\ totalWriteBytes' = totalWriteBytes /\ cut' = cut
              /\ Read' = Read /\ ring' = ring
            BY <2>6 DEF vars, Read
        <3> QED
            BY <3>1 DEF NothingHeldBack, Read
    <2> QED
        BY <2>1, <2>2, <2>3, <2>4, <2>5, <2>6 DEF Next, GoOn
<1> QED
    BY <1>1, <1>2, DecoderInvHolds, PTL DEF Spec

------------------------------------------------------------------------------
\* StringSearch. The invariant says of the table that it moves the window no
\* further than a place of its character, and of the window that no place is
\* before it.
TableInv == \A k \in 0..filled - 1 : table[CharAt(substr, k)] <= shift(k)

\* The table is filled before the window moves, and never changes then.
WindowInv ==
    /\ phase = "table" => pos = 0
    /\ phase = "search" => filled = subsize
    /\ phase = "search" => \A i \in 0..pos - 1 : ~PlaceOf(i)

SearchIInv == SearchInv /\ TableInv /\ WindowInv

\* The characters of a view, by their index.
LEMMA CharAtType ==
    ASSUME NEW s \in Seq(Characters), NEW i \in 0..Len(s) - 1
    PROVE  CharAt(s, i) \in Characters
  BY DEF CharAt

LEMMA SearchInitially == SearchInit => SearchIInv
<1> SUFFICES ASSUME SearchInit PROVE SearchIInv
  OBVIOUS
<1>1. PICK text \in Texts, other \in Patterns, from \in 0..MaxFrom :
         /\ str = SubSeq(text, from + 1, Len(text)) /\ substr = other
         /\ phase = IF fits(text, other, from) THEN "table" ELSE "returned"
         /\ table = [c \in Characters |-> 0] /\ filled = 0
         /\ pos = 0 /\ result = -1
  BY DEF SearchInit
<1>2. text \in Seq(Characters) /\ other \in Seq(Characters) /\ from \in Nat
  BY StringSearchAssumption
<1>3. str \in Seq(Characters)
  BY <1>1, <1>2
<1>4. SearchTypeOK
  BY <1>1, <1>2, <1>3 DEF SearchTypeOK, subsize, size
<1>5. FindsFirst
  <2> SUFFICES ASSUME phase = "returned", NEW i \in 0..size - 1, PlaceOf(i)
               PROVE  FALSE
    BY <1>1 DEF FindsFirst
  <2>1. from + Len(other) > Len(text)
    BY <1>1, <1>2 DEF fits
  <2>2. size \in Nat /\ (size > 0 => size = Len(text) - from)
    BY <1>1, <1>2 DEF size
  <2>3. size >= i + subsize /\ subsize = Len(other) /\ subsize \in Nat /\ i \in Nat
    BY <1>1, <1>2 DEF PlaceOf, subsize
  <2> QED
    BY <2>1, <2>2, <2>3, <1>2
<1>6. TableInv /\ WindowInv
  BY <1>1 DEF TableInv, WindowInv
<1> QED
  BY <1>4, <1>5, <1>6 DEF SearchIInv, SearchInv

\* The window is not moved over a place: the character behind it is at a place of the
\* pattern that the table does not pass.
LEMMA MovesOverNone ==
    ASSUME SearchIInv, Move, NEW i \in 0..pos' - 1
    PROVE  ~PlaceOf(i)
<1> DEFINE c == CharAt(str, nextMatch)
<1>1. /\ phase = "search" /\ Window /\ ~Matches(pos) /\ nextMatch < size
      /\ pos' = pos + table[c]
  BY DEF Move
<1>2. /\ str \in Seq(Characters) /\ substr \in Seq(Characters)
      /\ size \in Nat /\ subsize \in Nat /\ pos \in Nat /\ nextMatch = pos + subsize
      /\ table \in [Characters -> 0..subsize] /\ filled = subsize
  BY <1>1 DEF SearchIInv, SearchInv, SearchTypeOK, WindowInv, size, subsize, nextMatch
<1>3. c \in Characters
  BY <1>1, <1>2, CharAtType DEF size
<1>4. table[c] \in 0..subsize
  BY <1>2, <1>3
<1>5. CASE i < pos
  BY <1>1, <1>2, <1>5 DEF SearchIInv, WindowInv
<1>6. CASE i = pos
  BY <1>1, <1>6 DEF PlaceOf
<1>7. CASE i > pos
  <2> DEFINE k == nextMatch - i
  <2>1. k \in 0..subsize - 1 /\ i + k = nextMatch /\ i < pos + table[c]
    BY <1>1, <1>2, <1>4, <1>7
  <2> SUFFICES ASSUME Matches(i) PROVE FALSE
    BY DEF PlaceOf
  <2>2. c = CharAt(substr, k)
    BY <2>1 DEF Matches
  <2>3. table[c] <= shift(k)
    BY <2>1, <2>2, <1>2 DEF SearchIInv, TableInv
  <2> QED
    BY <2>1, <2>3, <1>2, <1>4 DEF shift
<1> QED
  BY <1>1, <1>2, <1>4, <1>5, <1>6, <1>7

LEMMA SearchInductive == SearchIInv /\ [SearchNext]_searchVars => SearchIInv'
<1> SUFFICES ASSUME SearchIInv, [SearchNext]_searchVars PROVE SearchIInv'
  OBVIOUS
<1> USE DEF SearchIInv, SearchInv
<1>1. /\ str \in Seq(Characters) /\ substr \in Seq(Characters)
      /\ size \in Nat /\ subsize \in Nat /\ pos \in Nat
  BY DEF SearchTypeOK, size, subsize
<1>2. CASE Fill
  <2> DEFINE c == CharAt(substr, filled)
  <2>1. /\ str' = str /\ substr' = substr /\ size' = size /\ subsize' = subsize
        /\ phase' = "table" /\ phase = "table" /\ filled \in 0..subsize - 1
        /\ filled' = filled + 1 /\ pos' = pos /\ result' = result
        /\ table' = [table EXCEPT ![c] = subsize - filled]
    BY <1>1, <1>2 DEF Fill, called, SearchTypeOK, size, subsize, shift
  <2>2. c \in Characters
    BY <1>1, <2>1, CharAtType DEF subsize
  <2>3. SearchTypeOK'
    BY <2>1, <2>2, <1>1 DEF SearchTypeOK
  <2>4. TableInv'
    <3> SUFFICES ASSUME NEW k \in 0..filled
                 PROVE  table'[CharAt(substr, k)] <= subsize - k
      BY <2>1, <1>1 DEF TableInv, shift, CharAt
    <3>1. CharAt(substr, k) \in Characters
      BY <1>1, <2>1, CharAtType DEF subsize
    <3>2. CASE CharAt(substr, k) = c
      BY <3>2, <3>1, <2>1, <1>1 DEF SearchTypeOK
    <3>3. CASE CharAt(substr, k) # c
      <4>1. k \in 0..filled - 1
        BY <3>3, <2>1
      <4> QED
        BY <4>1, <3>1, <3>3, <2>1 DEF TableInv, SearchTypeOK, shift
    <3> QED
      BY <3>2, <3>3
  <2> QED
    BY <2>1, <2>3, <2>4 DEF WindowInv, FindsFirst
<1>3. CASE Filled
  <2>1. /\ UNCHANGED <<str, substr, table, filled, pos, result>>
        /\ phase = "table" /\ phase' = "search" /\ filled = subsize
    BY <1>3 DEF Filled, called
  <2> QED
    BY <2>1 DEF SearchTypeOK, TableInv, WindowInv, FindsFirst, PlaceOf, Matches, CharAt,
                size, subsize, shift
<1>4. CASE Found
  <2>1. /\ UNCHANGED <<str, substr, table, filled, pos>> /\ phase = "search"
        /\ phase' = "returned" /\ result' = pos /\ Window /\ Matches(pos)
    BY <1>4 DEF Found, return, called
  <2>2. PlaceOf(pos) /\ pos \in 0..size - 1
    BY <2>1, <1>1 DEF Window, PlaceOf
  <2> QED
    BY <2>1, <2>2, <1>1 DEF SearchTypeOK, TableInv, WindowInv, FindsFirst, PlaceOf, Matches, CharAt,
                            size, subsize, shift
<1>5. CASE NotFound
  <2>1. /\ UNCHANGED <<str, substr, table, filled, pos>> /\ phase = "search"
        /\ phase' = "returned" /\ result' = -1
        /\ ~Window \/ (~Matches(pos) /\ nextMatch >= size)
    BY <1>5 DEF NotFound, return, called
  <2>2. \A i \in 0..size - 1 : ~PlaceOf(i)
    BY <2>1, <1>1 DEF WindowInv, PlaceOf, Window, nextMatch
  <2> QED
    BY <2>1, <2>2, <1>1 DEF SearchTypeOK, TableInv, WindowInv, FindsFirst, PlaceOf, Matches, CharAt,
                            size, subsize, shift
<1>6. CASE Move
  <2>1. /\ UNCHANGED <<str, substr, phase, table, filled, result>> /\ phase = "search"
        /\ pos' = pos + table[CharAt(str, nextMatch)] /\ nextMatch < size
    BY <1>6 DEF Move, called
  <2>2. pos' \in Nat
    BY <2>1, <1>1, CharAtType DEF SearchTypeOK, nextMatch, size
  <2>3. \A i \in 0..pos' - 1 : ~PlaceOf(i)
    BY <1>6, MovesOverNone
  <2> QED
    BY <2>1, <2>2, <2>3 DEF SearchTypeOK, TableInv, WindowInv, FindsFirst, PlaceOf, Matches, CharAt,
                            size, subsize, shift
<1>7. CASE UNCHANGED searchVars
  BY <1>7 DEF searchVars, called, SearchTypeOK, TableInv, WindowInv, FindsFirst, PlaceOf, Matches, CharAt,
              size, subsize, shift
<1> QED
  BY <1>2, <1>3, <1>4, <1>5, <1>6, <1>7 DEF SearchNext

LEMMA SearchInductiveInvariant == SearchSpec => []SearchIInv
  BY SearchInitially, SearchInductive, PTL DEF SearchSpec

\* find and contains give the first place of the pattern in the text, and -1 only when
\* there is none: no shift of the table skips one, for any characters.
THEOREM SearchCorrect == SearchSpec => []SearchInv
<1>1. SearchIInv => SearchInv
  BY DEF SearchIInv
<1> QED
  BY <1>1, SearchInductiveInvariant, PTL

------------------------------------------------------------------------------
\* TypedStages. The invariant says where the frames below and above the last one
\* are, what each stage has tried and handled, and, once a handler threw, that what
\* unwinds is that exception or, behind a try block that tried on, the failure of
\* casts.

\* A type that the stage tried before is that of the object.
Past(i) == \E k \in 1..frame[i].tried - 1 : Types(i)[k] = frame[i].object

FrameInv(i) ==
    /\ frame[i].at = "cast" =>
          frame[i].handled = IF Past(i) THEN <<frame[i].object>> ELSE <<>>
    /\ frame[i].at = "handler" =>
          /\ frame[i].handled = <<frame[i].object>>
          /\ Types(i)[frame[i].tried] = frame[i].object
    /\ frame[i].at = "returned" => frame[i].handled = <<frame[i].object>>
    /\ frame[i].at = "threw" =>
          \/ frame[i].handled = <<frame[i].object>>
          \/ /\ frame[i].handled = <<>>
             /\ \A k \in DOMAIN Types(i) : Types(i)[k] # frame[i].object

StackInv ==
    /\ \A i \in DOMAIN chain : i < depth => frame[i].at = "handler"
    /\ depth > 0 => frame[depth].at \in {"cast", "handler"}
    /\ \A i \in DOMAIN chain : i > depth => frame[i].at \in {"returned", "threw"}
    /\ raised # None => depth > 0
    /\ raised # None /\ frame[depth].at = "cast" =>
          raised = BadCast /\ Types(depth)[frame[depth].tried] # frame[depth].object

\* What a handler threw is on its way, or a stage that caught it has only types left
\* that do not fit.
Unwinding ==
    thrown # None /\ depth > 0 =>
        \/ raised = thrown /\ replaced = (\E i \in 1..depth : Catches(i, thrown))
        \/ replaced /\ raised = BadCast /\ (frame[depth].at = "cast" => Past(depth))
        \/ replaced /\ raised = None /\ frame[depth].at = "cast" /\ Past(depth)

FramesInv == \A i \in DOMAIN chain : FrameInv(i)

StagesIInv == StagesTypeOK /\ FramesInv /\ StackInv /\ Unwinding /\ ExceptionArrives

------------------------------------------------------------------------------
LEMMA InvariantImplies == StagesIInv => StagesInv /\ ExceptionArrives
<1> SUFFICES ASSUME StagesIInv PROVE HandledOnce
  BY DEF StagesIInv, StagesInv
<1> SUFFICES ASSUME NEW i \in DOMAIN chain
             PROVE  /\ frame[i].handled \in {<<>>, <<frame[i].object>>}
                    /\ frame[i].at = "returned" => frame[i].handled # <<>>
                    /\ frame[i].at = "threw" /\ frame[i].handled = <<>> =>
                          \A k \in DOMAIN Types(i) : Types(i)[k] # frame[i].object
  BY DEF HandledOnce
<1>1. FrameInv(i) /\ frame[i].at \in {"cast", "handler", "returned", "threw"}
  BY DEF StagesIInv, FramesInv, StagesTypeOK, Frames
<1>2. <<frame[i].object>> # <<>>
  OBVIOUS
<1> QED
  BY <1>1, <1>2 DEF FrameInv

\* The stages of the pipeline.
LEMMA ChainFacts ==
    ASSUME chain \in Chains
    PROVE  /\ Len(chain) \in Nat \ {0} /\ DOMAIN chain = 1..Len(chain)
           /\ \A i \in DOMAIN chain :
                 /\ Types(i) \in Seq(Objects) /\ Len(Types(i)) \in Nat \ {0}
                 /\ DOMAIN Types(i) = 1..Len(Types(i))
                 /\ \A j, k \in DOMAIN Types(i) : Types(i)[j] = Types(i)[k] => j = k
                 /\ chain[i].dereferences => Len(Types(i)) = 1
<1>1. /\ chain # <<>> /\ chain \in Seq({chain[i] : i \in DOMAIN chain})
      /\ \A i \in DOMAIN chain : Stage(chain[i])
  BY TypedStagesAssumption
<1>2. Len(chain) \in Nat \ {0} /\ DOMAIN chain = 1..Len(chain)
  BY <1>1
<1>3. ASSUME NEW i \in DOMAIN chain
      PROVE  /\ Types(i) \in Seq(Objects) /\ Len(Types(i)) \in Nat \ {0}
             /\ DOMAIN Types(i) = 1..Len(Types(i))
             /\ \A j, k \in DOMAIN Types(i) : Types(i)[j] = Types(i)[k] => j = k
             /\ chain[i].dereferences => Len(Types(i)) = 1
  BY <1>1 DEF Stage, Types
<1> QED
  BY <1>2, <1>3

LEMMA Initially == StagesInit => StagesIInv
<1> SUFFICES ASSUME StagesInit PROVE StagesIInv
  OBVIOUS
<1>1. chain \in Chains /\ depth = 0 /\ raised = None /\ thrown = None /\ failure = None
      /\ broken = FALSE /\ replaced = FALSE
  BY DEF StagesInit
<1>2. ASSUME NEW i \in DOMAIN chain
      PROVE  /\ frame[i] \in Frames /\ frame[i].tried = 1 /\ frame[i].at = "returned"
             /\ frame[i].handled = <<frame[i].object>>
  <2>1. PICK o \in Objects : frame[i] = [New(o) EXCEPT !.at = "returned", !.handled = <<o>>]
    BY DEF StagesInit
  <2>2. frame[i] = [object |-> o, tried |-> 1, at |-> "returned", handled |-> <<o>>]
    BY <2>1 DEF New
  <2>3. <<o>> \in Seq(Objects)
    OBVIOUS
  <2> QED
    BY <2>2, <2>3 DEF Frames
<1>3. frame \in [DOMAIN chain -> Frames]
  BY <1>2 DEF StagesInit
<1>4. StagesTypeOK
  <2>1. \A i \in DOMAIN chain : frame[i].tried \in DOMAIN Types(i)
    BY <1>1, <1>2, ChainFacts
  <2>2. depth \in 0..Len(chain)
    BY <1>1, ChainFacts
  <2> QED
    BY <1>1, <1>3, <2>1, <2>2 DEF StagesTypeOK
<1>5. FramesInv /\ StackInv
  BY <1>1, <1>2, ChainFacts DEF FramesInv, FrameInv, StackInv
<1> QED
  BY <1>1, <1>4, <1>5 DEF StagesIInv, Unwinding, ExceptionArrives

------------------------------------------------------------------------------
\* What every step from a state of the invariant may use.
LEMMA Facts ==
    ASSUME StagesIInv
    PROVE  /\ chain \in Chains /\ depth \in 0..Len(chain) /\ Len(chain) \in Nat \ {0}
           /\ DOMAIN chain = 1..Len(chain)
           /\ frame \in [DOMAIN chain -> Frames]
           /\ \A i \in DOMAIN chain :
                 /\ FrameInv(i)
                 /\ frame[i].object \in Objects /\ frame[i].handled \in Seq(Objects)
                 /\ frame[i].tried \in 1..Len(Types(i)) /\ frame[i].tried \in Nat
                 /\ DOMAIN Types(i) = 1..Len(Types(i)) /\ Len(Types(i)) \in Nat \ {0}
                 /\ \A j, k \in DOMAIN Types(i) : Types(i)[j] = Types(i)[k] => j = k
                 /\ chain[i].dereferences => Len(Types(i)) = 1
  BY ChainFacts DEF StagesIInv, FramesInv, StagesTypeOK, Frames

\* A step that changes nothing but the last frame, in which it leaves the object.
LEMMA LastFrame ==
    ASSUME StagesIInv, NEW d \in DOMAIN chain, d = depth, NEW f \in Frames, Update(f), chain' = chain,
           f.object = frame[d].object, f.tried \in 1..Len(Types(d)),
           FrameInv(d)'
    PROVE  /\ frame' \in [DOMAIN chain' -> Frames] /\ frame'[d] = f
           /\ \A i \in DOMAIN chain : i # d => frame'[i] = frame[i]
           /\ \A i \in DOMAIN chain : frame'[i].tried \in DOMAIN Types(i)
           /\ \A i \in DOMAIN chain : Types(i)' = Types(i)
           /\ FramesInv'
<1>1. /\ frame' = [frame EXCEPT ![d] = f] /\ frame \in [DOMAIN chain -> Frames]
      /\ \A i \in DOMAIN chain : FrameInv(i) /\ frame[i].tried \in 1..Len(Types(i))
                                 /\ DOMAIN Types(i) = 1..Len(Types(i))
  BY Facts DEF Update
<1>2. /\ frame' \in [DOMAIN chain' -> Frames] /\ frame'[d] = f
      /\ \A i \in DOMAIN chain : i # d => frame'[i] = frame[i]
  BY <1>1
<1>3. \A i \in DOMAIN chain : Types(i)' = Types(i)
  BY DEF Types
<1>4. \A i \in DOMAIN chain : frame'[i].tried \in DOMAIN Types(i)
  BY <1>1, <1>2
<1>5. ASSUME NEW i \in DOMAIN chain, i # d PROVE FrameInv(i)'
  <2>1. frame'[i] = frame[i] /\ Types(i)' = Types(i) /\ FrameInv(i)
    BY <1>1, <1>2, <1>3, <1>5
  <2>2. Past(i)' = Past(i)
    BY <2>1 DEF Past
  <2> QED
    BY <2>1, <2>2 DEF FrameInv
<1>6. FramesInv'
  <2> SUFFICES ASSUME NEW i \in DOMAIN chain PROVE FrameInv(i)'
    BY DEF FramesInv
  <2>1. CASE i = d
    BY <2>1
  <2> QED
    BY <1>5, <2>1
<1> QED
  BY <1>2, <1>3, <1>4, <1>6

\* Frames that stay as they are keep their invariant.
LEMMA SameFrames ==
    ASSUME StagesIInv, UNCHANGED <<chain, frame>>
    PROVE  FramesInv'
  BY DEF StagesIInv, FramesInv, FrameInv, Past, Types

\* What a new call of a stage is.
LEMMA NewFrame ==
    ASSUME NEW o \in Objects
    PROVE  New(o) \in Frames /\ New(o).object = o /\ New(o).tried = 1 /\ New(o).at = "cast"
           /\ New(o).handled = <<>>
<1>1. <<>> \in Seq(Objects)
  OBVIOUS
<1> QED
  BY <1>1 DEF New, Frames

\* A call of stage d begins, above all others.
LEMMA Enter ==
    ASSUME StagesIInv, NEW d \in DOMAIN chain, NEW o \in Objects, chain' = chain,
           frame' = [frame EXCEPT ![d] = New(o)]
    PROVE  /\ frame' \in [DOMAIN chain' -> Frames] /\ frame'[d] = New(o)
           /\ \A i \in DOMAIN chain : i # d => frame'[i] = frame[i]
           /\ \A i \in DOMAIN chain : frame'[i].tried \in DOMAIN Types(i)
           /\ \A i \in DOMAIN chain : Types(i)' = Types(i)
           /\ FramesInv'
<1>1. /\ frame' \in [DOMAIN chain' -> Frames] /\ frame'[d] = New(o)
      /\ \A i \in DOMAIN chain : i # d => frame'[i] = frame[i]
      /\ \A i \in DOMAIN chain : Types(i)' = Types(i)
  BY Facts, NewFrame DEF Types
<1>2. \A i \in DOMAIN chain : frame'[i].tried \in DOMAIN Types(i)
  <2> SUFFICES ASSUME NEW i \in DOMAIN chain PROVE frame'[i].tried \in DOMAIN Types(i)
    OBVIOUS
  <2>1. CASE i = d
    BY <1>1, <2>1, NewFrame, Facts
  <2> QED
    BY <1>1, <2>1, Facts
<1>3. FramesInv'
  <2> SUFFICES ASSUME NEW i \in DOMAIN chain PROVE FrameInv(i)'
    BY DEF FramesInv
  <2>1. CASE i = d
    <3>1. frame'[i].at = "cast" /\ frame'[i].handled = <<>> /\ frame'[i].tried = 1
      BY <1>1, <2>1, NewFrame
    <3>2. ~Past(i)'
      BY <3>1 DEF Past
    <3> QED
      BY <3>1, <3>2 DEF FrameInv
  <2>2. CASE i # d
    <3>1. frame'[i] = frame[i] /\ Types(i)' = Types(i) /\ FrameInv(i)
      BY <1>1, <2>2, Facts
    <3>2. Past(i)' = Past(i)
      BY <3>1 DEF Past
    <3> QED
      BY <3>1, <3>2 DEF FrameInv
  <2> QED
    BY <2>1, <2>2
<1> QED
  BY <1>1, <1>2, <1>3

LEMMA HandleStep == ASSUME StagesIInv, NEW object \in Objects, handle(object) PROVE StagesIInv'
<1>1. /\ depth = 0 /\ depth' = 1 /\ frame' = [frame EXCEPT ![1] = New(object)]
      /\ thrown' = None /\ replaced' = FALSE /\ failure' = None
      /\ UNCHANGED <<chain, raised, broken>>
  BY DEF handle
<1>2. 1 \in DOMAIN chain
  BY Facts
<1>3. /\ frame' \in [DOMAIN chain' -> Frames] /\ frame'[1] = New(object)
      /\ \A i \in DOMAIN chain : i # 1 => frame'[i] = frame[i]
      /\ \A i \in DOMAIN chain : frame'[i].tried \in DOMAIN Types(i)
      /\ \A i \in DOMAIN chain : Types(i)' = Types(i)
      /\ FramesInv'
  BY <1>1, <1>2, Enter
<1>4. StagesTypeOK'
  <2>1. depth' \in 0..Len(chain')
    BY <1>1, Facts
  <2>2. {broken', replaced'} \subseteq BOOLEAN
    BY <1>1 DEF StagesIInv, StagesTypeOK
  <2> QED
    BY <1>1, <1>3, <2>1, <2>2 DEF StagesIInv, StagesTypeOK
<1>5. raised = None
  BY <1>1 DEF StagesIInv, StackInv
<1>6. StackInv'
  BY <1>1, <1>2, <1>3, <1>5, Facts, NewFrame DEF StagesIInv, StackInv
<1> QED
  BY <1>1, <1>3, <1>4, <1>6 DEF StagesIInv, Unwinding, ExceptionArrives

LEMMA InvokeNextStep == ASSUME StagesIInv, NEW object \in Objects, invokeNext(object) PROVE StagesIInv'
<1>1. /\ depth > 0 /\ raised = None /\ frame[depth].at = "handler" /\ depth < Len(chain)
      /\ depth' = depth + 1 /\ frame' = [frame EXCEPT ![depth + 1] = New(object)]
      /\ UNCHANGED <<chain, raised, broken, thrown, replaced, failure>>
  BY DEF invokeNext, Handling, Top
<1>2. depth + 1 \in DOMAIN chain /\ depth \in DOMAIN chain /\ depth \in Nat
  BY <1>1, Facts
<1> DEFINE d == depth + 1
<1>3. /\ frame' \in [DOMAIN chain' -> Frames] /\ frame'[d] = New(object)
      /\ \A i \in DOMAIN chain : i # d => frame'[i] = frame[i]
      /\ \A i \in DOMAIN chain : frame'[i].tried \in DOMAIN Types(i)
      /\ \A i \in DOMAIN chain : Types(i)' = Types(i)
      /\ FramesInv'
  <2> HIDE DEF d
  <2>1. d \in DOMAIN chain /\ frame' = [frame EXCEPT ![d] = New(object)]
    BY <1>1, <1>2 DEF d
  <2> QED
    BY <1>1, <2>1, Enter
<1>4. StagesTypeOK'
  <2>1. depth' \in 0..Len(chain')
    BY <1>1, <1>2, Facts
  <2>2. \A i \in DOMAIN chain' : frame'[i].tried \in DOMAIN Types(i)'
    BY <1>1, <1>3
  <2> QED
    BY <1>1, <1>3, <2>1, <2>2 DEF StagesIInv, StagesTypeOK
<1>5. StackInv'
  <2>1. \A i \in DOMAIN chain : i < d => frame'[i].at = "handler"
    BY <1>1, <1>2, <1>3, Facts DEF StagesIInv, StackInv
  <2>2. \A i \in DOMAIN chain : i > d => frame'[i].at \in {"returned", "threw"}
    BY <1>1, <1>2, <1>3, Facts DEF StagesIInv, StackInv
  <2> QED
    BY <1>1, <1>2, <1>3, <2>1, <2>2, NewFrame DEF StackInv
<1>6. thrown = None
  BY <1>1, TypedStagesAssumption DEF StagesIInv, Unwinding, StagesTypeOK, Exceptions
<1> QED
  BY <1>1, <1>2, <1>3, <1>4, <1>5, <1>6 DEF StagesIInv, Unwinding, ExceptionArrives

\* The three ends of a cast.
LEMMA InvokeHandlerStep == ASSUME StagesIInv, invokeHandler PROVE StagesIInv'
<1>1. /\ depth > 0 /\ raised = None /\ frame[depth].at = "cast"
      /\ Update([frame[depth] EXCEPT !.at = "handler",
                     !.handled = Append(@, Types(depth)[frame[depth].tried])])
      /\ Types(depth)[frame[depth].tried] = frame[depth].object
      /\ UNCHANGED <<chain, depth, raised, broken, thrown, replaced, failure>>
  BY DEF invokeHandler, Casting, Fits, AnyCast, Top
<1>2. PICK d \in DOMAIN chain : d = depth
  BY <1>1, Facts
<1>3. ~Past(d)
  BY <1>1, <1>2, Facts DEF Past
<1>4. frame[d].handled = <<>> /\ frame[d].object \in Objects /\ frame[d] \in Frames
      /\ frame[d].tried \in 1..Len(Types(d))
  BY <1>1, <1>2, <1>3, Facts DEF FrameInv
<1>5. PICK g \in Frames :
         /\ Update(g) /\ g.object = frame[d].object /\ g.tried = frame[d].tried
         /\ g.at = "handler" /\ g.handled = <<frame[d].object>>
  <2> DEFINE h == [frame[d] EXCEPT !.at = "handler", !.handled = <<frame[d].object>>]
  <2>1. Append(frame[d].handled, Types(d)[frame[d].tried]) = <<frame[d].object>>
    BY <1>1, <1>2, <1>4
  <2>2. <<frame[d].object>> \in Seq(Objects)
    BY <1>4
  <2>3. /\ h \in Frames /\ h.object = frame[d].object /\ h.tried = frame[d].tried
        /\ h.at = "handler" /\ h.handled = <<frame[d].object>>
    BY <1>4, <2>2 DEF Frames
  <2>4. Update(h)
    BY <1>1, <1>2, <2>1 DEF Update
  <2> QED
    BY <2>3, <2>4
<1>6. thrown = None
  BY <1>1, <1>2, <1>3, TypedStagesAssumption DEF StagesIInv, Unwinding, StagesTypeOK, Exceptions
<1>7. FrameInv(d)'
  <2>1. frame'[d] = g /\ Types(d)' = Types(d)
    BY <1>1, <1>2, <1>5, Facts DEF Update, Types
  <2> QED
    BY <2>1, <1>1, <1>2, <1>5 DEF FrameInv
<1>8. /\ frame' \in [DOMAIN chain' -> Frames] /\ frame'[d] = g
      /\ \A i \in DOMAIN chain : i # d => frame'[i] = frame[i]
      /\ \A i \in DOMAIN chain : frame'[i].tried \in DOMAIN Types(i)
      /\ \A i \in DOMAIN chain : Types(i)' = Types(i)
      /\ FramesInv'
  BY <1>1, <1>2, <1>4, <1>5, <1>7, LastFrame
<1>9. StagesTypeOK'
  BY <1>1, <1>8 DEF StagesIInv, StagesTypeOK
<1>10. StackInv'
  BY <1>1, <1>2, <1>5, <1>8, Facts DEF StagesIInv, StackInv
<1> QED
  BY <1>1, <1>6, <1>8, <1>9, <1>10 DEF StagesIInv, Unwinding, ExceptionArrives

LEMMA DereferenceNullStep == ASSUME StagesIInv, dereferenceNull PROVE StagesIInv'
<1>1. broken' = TRUE /\ UNCHANGED <<chain, depth, frame, raised, thrown, replaced, failure>>
  BY DEF dereferenceNull
<1> QED
  BY <1>1, SameFrames DEF StagesIInv, StagesTypeOK, Types, StackInv, Unwinding, Catches, HasMore, Past,
                          ExceptionArrives

LEMMA CastFailsStep == ASSUME StagesIInv, castFails PROVE StagesIInv'
<1>1. /\ depth > 0 /\ raised = None /\ frame[depth].at = "cast"
      /\ Types(depth)[frame[depth].tried] # frame[depth].object
      /\ raised' = BadCast
      /\ UNCHANGED <<chain, depth, frame, broken, thrown, replaced, failure>>
  BY DEF castFails, Casting, Fits, AnyCast, Top
<1>2. StagesTypeOK'
  BY <1>1 DEF StagesIInv, StagesTypeOK, Types, Exceptions
<1>3. StackInv'
  BY <1>1 DEF StagesIInv, StackInv, Types
<1>4. Unwinding'
  <2>1. thrown # None => replaced /\ Past(depth)
    BY <1>1, TypedStagesAssumption DEF StagesIInv, Unwinding, StagesTypeOK, Exceptions
  <2>2. Past(depth)' = Past(depth)
    BY <1>1 DEF Past, Types
  <2> QED
    BY <1>1, <2>1, <2>2 DEF Unwinding
<1> QED
  BY <1>1, <1>2, <1>3, <1>4, SameFrames DEF StagesIInv, ExceptionArrives

\* The last call ends, and the one that made it is in its handler.
LEMMA Leave ==
    ASSUME StagesIInv, NEW d \in DOMAIN chain, d = depth, depth' = depth - 1, chain' = chain,
           \A i \in DOMAIN chain : i # d => frame'[i] = frame[i],
           frame'[d].at \in {"returned", "threw"},
           raised' # None => depth' > 0
    PROVE  StackInv' /\ (depth' > 0 => frame'[depth'].at = "handler")
<1>1. depth \in 1..Len(chain) /\ Len(chain) \in Nat /\ DOMAIN chain = 1..Len(chain)
  BY Facts
<1>2. \A i \in DOMAIN chain : i < depth => frame'[i].at = "handler"
  BY <1>1 DEF StagesIInv, StackInv
<1>3. \A i \in DOMAIN chain : i > depth => frame'[i].at \in {"returned", "threw"}
  BY <1>1 DEF StagesIInv, StackInv
<1>4. \A i \in DOMAIN chain : i > depth' => frame'[i].at \in {"returned", "threw"}
  <2> SUFFICES ASSUME NEW i \in DOMAIN chain, i > depth'
               PROVE  frame'[i].at \in {"returned", "threw"}
    OBVIOUS
  <2>1. i = d \/ i > depth
    BY <1>1
  <2> QED
    BY <1>3, <2>1
<1>5. \A i \in DOMAIN chain : i < depth' => frame'[i].at = "handler"
  BY <1>1, <1>2
<1>6. depth' > 0 => frame'[depth'].at = "handler"
  BY <1>1, <1>2
<1>7. StackInv'
  BY <1>4, <1>5, <1>6 DEF StackInv
<1> QED
  BY <1>6, <1>7

\* A handler returns to the stage in front, which is in its own handler.
LEMMA HandlerReturnsStep == ASSUME StagesIInv, handlerReturns PROVE StagesIInv'
<1>1. /\ depth > 0 /\ raised = None /\ frame[depth].at = "handler"
      /\ Update([frame[depth] EXCEPT !.at = "returned"]) /\ depth' = depth - 1
      /\ UNCHANGED <<chain, raised, broken, thrown, replaced, failure>>
  BY DEF handlerReturns, Handling, Top
<1>2. PICK d \in DOMAIN chain : d = depth
  BY <1>1, Facts
<1>3. PICK g \in Frames :
         /\ Update(g) /\ g.object = frame[d].object /\ g.tried = frame[d].tried
         /\ g.at = "returned" /\ g.handled = frame[d].handled
  <2> DEFINE h == [frame[d] EXCEPT !.at = "returned"]
  <2>1. /\ h \in Frames /\ h.object = frame[d].object /\ h.tried = frame[d].tried
        /\ h.at = "returned" /\ h.handled = frame[d].handled
    BY <1>2, Facts DEF Frames
  <2> QED
    BY <1>1, <1>2, <2>1
<1>4. frame'[d] = g /\ Types(d)' = Types(d)
  BY <1>1, <1>2, <1>3, Facts DEF Update, Types
<1>5. FrameInv(d)'
  BY <1>1, <1>2, <1>3, <1>4, Facts DEF FrameInv
<1>6. g.tried \in 1..Len(Types(d))
  BY <1>3, Facts
<1>7. /\ frame' \in [DOMAIN chain' -> Frames]
      /\ \A i \in DOMAIN chain : i # d => frame'[i] = frame[i]
      /\ \A i \in DOMAIN chain : frame'[i].tried \in DOMAIN Types(i)
      /\ \A i \in DOMAIN chain : Types(i)' = Types(i)
      /\ FramesInv'
  BY <1>1, <1>2, <1>3, <1>5, <1>6, LastFrame
<1>8. StagesTypeOK'
  <2>1. depth' \in 0..Len(chain')
    BY <1>1, <1>2, Facts
  <2> QED
    BY <1>1, <1>7, <2>1 DEF StagesIInv, StagesTypeOK
<1>9. thrown = None
  BY <1>1, <1>2, TypedStagesAssumption DEF StagesIInv, Unwinding, StagesTypeOK, Exceptions
<1>10. StackInv'
  BY <1>1, <1>2, <1>3, <1>4, <1>7, Leave
<1> QED
  BY <1>1, <1>7, <1>8, <1>9, <1>10 DEF StagesIInv, Unwinding, ExceptionArrives

\* A handler throws: the stages below it are in their handlers.
LEMMA HandlerThrowsStep ==
    ASSUME StagesIInv, NEW e \in Errors \cup Others, handlerThrows(e)
    PROVE  StagesIInv'
<1>1. /\ depth > 0 /\ raised = None /\ frame[depth].at = "handler"
      /\ raised' = e /\ thrown' = e
      /\ replaced' = \E i \in 1..depth : Catches(i, e)
      /\ UNCHANGED <<chain, depth, frame, broken, failure>>
  BY DEF handlerThrows, Handling, Top
<1>2. StagesTypeOK'
  <2>1. replaced' \in BOOLEAN
    BY <1>1
  <2> QED
    BY <1>1, <2>1 DEF StagesIInv, StagesTypeOK, Types, Exceptions
<1>3. StackInv'
  <2>1. raised' # None /\ frame'[depth'].at = "cast" => FALSE
    BY <1>1
  <2> QED
    BY <1>1, <2>1 DEF StagesIInv, StackInv
<1>4. replaced' = (\E i \in 1..depth : Catches(i, e))'
  BY <1>1 DEF Catches, HasMore, Types
<1>5. Unwinding'
  BY <1>1, <1>4 DEF Unwinding
<1> QED
  BY <1>1, <1>2, <1>3, <1>5, SameFrames DEF StagesIInv, ExceptionArrives

\* A stage catches what unwinds, and has not seen its object's type or has handled it.
LEMMA TryNextStep == ASSUME StagesIInv, tryNext PROVE StagesIInv'
<1>1. /\ depth > 0 /\ raised # None /\ Catches(depth, raised) /\ raised' = None
      /\ Update([frame[depth] EXCEPT !.at = "cast", !.tried = @ + 1])
      /\ UNCHANGED <<chain, depth, broken, thrown, replaced, failure>>
  BY DEF tryNext, Top
<1>2. PICK d \in DOMAIN chain : d = depth
  BY <1>1, Facts
<1>3. /\ frame[d].tried < Len(Types(d)) /\ frame[d].tried \in Nat
      /\ Len(Types(d)) \in Nat /\ frame[d] \in Frames
  BY <1>1, <1>2, Facts DEF Catches, HasMore
<1>4. PICK g \in Frames :
         /\ Update(g) /\ g.object = frame[d].object /\ g.tried = frame[d].tried + 1
         /\ g.at = "cast" /\ g.handled = frame[d].handled
  <2>1. PICK n \in Nat : n = frame[d].tried + 1
    BY <1>3
  <2> DEFINE h == [frame[d] EXCEPT !.at = "cast", !.tried = n]
  <2>2. /\ h \in Frames /\ h.object = frame[d].object /\ h.tried = n
        /\ h.at = "cast" /\ h.handled = frame[d].handled
    BY <1>3 DEF Frames
  <2> QED
    BY <1>1, <1>2, <2>1, <2>2
<1>5. frame'[d] = g /\ Types(d)' = Types(d)
  BY <1>1, <1>2, <1>4, Facts DEF Update, Types
<1>6. g.tried \in 1..Len(Types(d))
  BY <1>3, <1>4
<1>7. Past(d)' = (Past(d) \/ Types(d)[frame[d].tried] = frame[d].object)
  <2>1. 1..g.tried - 1 = (1..frame[d].tried - 1) \cup {frame[d].tried}
    <3>1. frame[d].tried \in Nat \ {0}
      BY Facts
    <3> QED
      BY <3>1, <1>4
  <2>2. Past(d)' = \E k \in 1..g.tried - 1 : Types(d)[k] = frame[d].object
    BY <1>4, <1>5 DEF Past
  <2> QED
    BY <2>1, <2>2 DEF Past
<1>8. FrameInv(d)'
  <2>1. CASE frame[d].at = "cast"
    <3>1. Types(d)[frame[d].tried] # frame[d].object
      BY <1>1, <1>2, <2>1 DEF StagesIInv, StackInv
    <3>2. Past(d)' = Past(d)
      BY <1>7, <3>1 DEF Past
    <3> QED
      BY <1>4, <1>5, <2>1, <3>2, Facts DEF FrameInv
  <2>2. CASE frame[d].at = "handler"
    <3>1. Past(d)' /\ frame[d].handled = <<frame[d].object>>
      BY <1>7, <2>2, Facts DEF FrameInv
    <3> QED
      BY <1>4, <1>5, <3>1 DEF FrameInv
  <2> QED
    BY <1>1, <1>2, <2>1, <2>2 DEF StagesIInv, StackInv
<1>9. /\ frame' \in [DOMAIN chain' -> Frames]
      /\ \A i \in DOMAIN chain : i # d => frame'[i] = frame[i]
      /\ \A i \in DOMAIN chain : frame'[i].tried \in DOMAIN Types(i)
      /\ \A i \in DOMAIN chain : Types(i)' = Types(i)
      /\ FramesInv'
  BY <1>1, <1>2, <1>4, <1>6, <1>8, LastFrame
<1>10. StagesTypeOK'
  BY <1>1, <1>9 DEF StagesIInv, StagesTypeOK
<1>11. StackInv'
  BY <1>1, <1>2, <1>4, <1>5, <1>9, Facts DEF StagesIInv, StackInv
<1>12. Unwinding'
  <2> SUFFICES ASSUME thrown # None PROVE Unwinding'
    BY <1>1 DEF Unwinding
  <2>1. replaced /\ (frame[d].at = "cast" => Past(d))
    <3>1. CASE raised = thrown /\ replaced = (\E i \in 1..depth : Catches(i, thrown))
      <4>1. depth \in 1..depth
        BY <1>2, Facts
      <4>2. frame[d].at # "cast"
        BY <1>1, <1>2, <3>1, TypedStagesAssumption DEF StagesIInv, StackInv, StagesTypeOK
      <4> QED
        BY <1>1, <3>1, <4>1, <4>2
    <3> QED
      BY <1>1, <1>2, <3>1 DEF StagesIInv, Unwinding
  <2>2. Past(d)'
    <3>1. frame[d].at \in {"cast", "handler"}
      BY <1>1, <1>2 DEF StagesIInv, StackInv
    <3> QED
      BY <1>7, <2>1, <3>1, Facts DEF FrameInv
  <2>3. Past(depth)' /\ frame'[depth'].at = "cast"
    BY <1>1, <1>2, <1>4, <1>5, <2>2 DEF Past
  <2> QED
    BY <1>1, <2>1, <2>3 DEF Unwinding
<1> QED
  BY <1>1, <1>9, <1>10, <1>11, <1>12 DEF StagesIInv, ExceptionArrives

\* The exception leaves the last call.
LEMMA UnwindStep == ASSUME StagesIInv, unwind PROVE StagesIInv'
<1>1. /\ depth > 0 /\ raised # None /\ ~Catches(depth, raised)
      /\ Update([frame[depth] EXCEPT !.at = "threw"]) /\ depth' = depth - 1
      /\ IF depth = 1 THEN raised' = None /\ failure' = raised
         ELSE raised' = raised /\ UNCHANGED failure
      /\ UNCHANGED <<chain, broken, thrown, replaced>>
  BY DEF unwind, Top, Leaves
<1>2. PICK d \in DOMAIN chain : d = depth
  BY <1>1, Facts
<1>3. PICK g \in Frames :
         /\ Update(g) /\ g.object = frame[d].object /\ g.tried = frame[d].tried
         /\ g.at = "threw" /\ g.handled = frame[d].handled
  <2> DEFINE h == [frame[d] EXCEPT !.at = "threw"]
  <2>1. /\ h \in Frames /\ h.object = frame[d].object /\ h.tried = frame[d].tried
        /\ h.at = "threw" /\ h.handled = frame[d].handled
    BY <1>2, Facts DEF Frames
  <2> QED
    BY <1>1, <1>2, <2>1
<1>4. frame'[d] = g /\ Types(d)' = Types(d)
  BY <1>1, <1>2, <1>3, Facts DEF Update, Types
<1>5. FrameInv(d)'
  <2>1. \/ frame[d].handled = <<frame[d].object>>
        \/ frame[d].handled = <<>> /\ \A k \in DOMAIN Types(d) : Types(d)[k] # frame[d].object
    <3>1. CASE frame[d].at = "handler"
      BY <3>1, Facts DEF FrameInv
    <3>2. CASE frame[d].at = "cast"
      <4>1. raised = BadCast /\ Types(d)[frame[d].tried] # frame[d].object
        BY <1>1, <1>2, <3>2 DEF StagesIInv, StackInv
      <4>2. frame[d].tried = Len(Types(d))
        BY <1>1, <1>2, <4>1, Facts, TypedStagesAssumption DEF Catches, HasMore
      <4>3. frame[d].handled = IF Past(d) THEN <<frame[d].object>> ELSE <<>>
        BY <3>2, Facts DEF FrameInv
      <4>4. ~Past(d) => \A k \in DOMAIN Types(d) : Types(d)[k] # frame[d].object
        BY <4>1, <4>2, Facts DEF Past
      <4> QED
        BY <4>3, <4>4
    <3> QED
      BY <1>1, <1>2, <3>1, <3>2 DEF StagesIInv, StackInv
  <2> QED
    BY <1>3, <1>4, <2>1 DEF FrameInv
<1>6. g.tried \in 1..Len(Types(d))
  BY <1>3, Facts
<1>7. /\ frame' \in [DOMAIN chain' -> Frames]
      /\ \A i \in DOMAIN chain : i # d => frame'[i] = frame[i]
      /\ \A i \in DOMAIN chain : frame'[i].tried \in DOMAIN Types(i)
      /\ \A i \in DOMAIN chain : Types(i)' = Types(i)
      /\ FramesInv'
  BY <1>1, <1>2, <1>3, <1>5, <1>6, LastFrame
<1>8. depth \in 1..Len(chain) /\ depth' \in 0..Len(chain')
  BY <1>1, <1>2, Facts
<1>9. StagesTypeOK'
  BY <1>1, <1>7, <1>8 DEF StagesIInv, StagesTypeOK
<1>10. StackInv' /\ (depth' > 0 => frame'[depth'].at = "handler")
  BY <1>1, <1>2, <1>3, <1>4, <1>7, <1>8, Leave
\* Nobody behind this one caught it, so somebody in front of it does or nobody.
<1>11. ASSUME raised = thrown, replaced = \E i \in 1..depth : Catches(i, thrown)
       PROVE  replaced = \E i \in 1..depth' : Catches(i, thrown)'
  <2>1. ~Catches(depth, thrown)
    BY <1>1, <1>11
  <2>2. 1..depth = 1..depth' \cup {depth}
    BY <1>1, <1>8
  <2>3. replaced = \E i \in 1..depth' : Catches(i, thrown)
    BY <1>11, <2>1, <2>2
  <2>4. \A i \in 1..depth' : Catches(i, thrown)' = Catches(i, thrown)
    BY <1>1, <1>2, <1>7, <1>8, Facts DEF Catches, HasMore
  <2> QED
    BY <2>3, <2>4
<1>12. Unwinding'
  <2> SUFFICES ASSUME thrown # None, depth' > 0 PROVE Unwinding'
    BY <1>1 DEF Unwinding
  <2>1. raised' = raised /\ raised # None
    BY <1>1
  <2>2. CASE raised = thrown /\ replaced = (\E i \in 1..depth : Catches(i, thrown))
    BY <1>1, <1>11, <2>1, <2>2 DEF Unwinding
  <2>3. CASE replaced /\ raised = BadCast
    BY <1>1, <1>10, <2>1, <2>3 DEF Unwinding
  <2> QED
    BY <1>1, <2>1, <2>2, <2>3 DEF StagesIInv, Unwinding
<1>13. ExceptionArrives'
  <2> SUFFICES ASSUME thrown # None, depth' = 0
               PROVE  failure' = IF replaced THEN BadCast ELSE thrown
    BY <1>1 DEF ExceptionArrives
  <2>1. failure' = raised
    BY <1>1, <1>8
  <2>2. CASE raised = thrown /\ replaced = (\E i \in 1..depth : Catches(i, thrown))
    BY <1>11, <2>1, <2>2
  <2>3. CASE replaced /\ raised = BadCast
    BY <2>1, <2>3
  <2> QED
    BY <1>1, <2>2, <2>3 DEF StagesIInv, Unwinding
<1> QED
  BY <1>7, <1>9, <1>10, <1>12, <1>13 DEF StagesIInv

LEMMA Inductive == StagesIInv /\ [StagesNext]_stageVars => StagesIInv'
<1> SUFFICES ASSUME StagesIInv, [StagesNext]_stageVars PROVE StagesIInv'
  OBVIOUS
<1>1. CASE UNCHANGED stageVars
  BY <1>1, SameFrames DEF stageVars, StagesIInv, StagesTypeOK, Types, StackInv, Unwinding, Catches, HasMore, Past,
                          ExceptionArrives
<1> QED
  BY <1>1, HandleStep, InvokeNextStep, InvokeHandlerStep, DereferenceNullStep, CastFailsStep,
     HandlerReturnsStep, HandlerThrowsStep, TryNextStep, UnwindStep DEF StagesNext

LEMMA InductiveInvariant == StagesSpec => []StagesIInv
  BY Initially, Inductive, PTL DEF StagesSpec

\* An object is given to the handler of its type once, in every pipeline, whatever is
\* thrown by it and tried behind it.
THEOREM StagesCorrect == StagesSpec => []StagesInv
<1>1. StagesIInv => StagesInv
  BY InvariantImplies
<1> QED
  BY <1>1, InductiveInvariant, PTL

\* What a handler throws arrives at the caller of the pipeline, as itself or, past a
\* stage that tried its other types on it, as bad_any_cast; it never disappears.
THEOREM ExceptionsArrive == StagesSpec => []ExceptionArrives
<1>1. StagesIInv => ExceptionArrives
  BY InvariantImplies
<1> QED
  BY <1>1, InductiveInvariant, PTL

==============================================================================
