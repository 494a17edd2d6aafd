----------------------------- MODULE NewMessage -----------------------------
(***************************************************************************)
(* The message of the example, and how it is written to a ByteBuffer and   *)
(* read from one. Neither side looks at what put and take return: a field  *)
(* that does not fit is left out, one that is not there keeps its value.   *)
(***************************************************************************)
EXTENDS ByteBuffer

CONSTANTS
    messageId,   \* NewMessage::messageId()
    Unset        \* a field that was never assigned

\* NewMessage().
Fresh ==
    [pif |-> Unset, length |-> 10, mid |-> messageId, seq |-> Unset, age |-> Unset,
     name |-> <<>>, eif |-> Unset]

\* Mutant: the length is taken before the right delimiter is put.
MeasuresEarly(b, m) ==
    LET opened == putNumber(putNumber(b, m.pif), m.length)
        lengthBuff == slice(opened, opened.writeIndex - 2, 2, FALSE).sub
        body == putView(putNumber(putNumber(putNumber(opened, m.mid), m.seq), m.age), m.name)
        whole == putNumber(body, m.eif)
        len == toUInt16(readableLength(body))
    IN  sharing(whole, putNumber(sharing(lengthBuff, whole), len))

\* The length is put twice: as it is, and through the slice when all is there.
serialize(b, m) ==
    LET opened == putNumber(putNumber(b, m.pif), m.length)
        lengthBuff == slice(opened, opened.writeIndex - 2, 2, FALSE).sub
        body == putView(putNumber(putNumber(putNumber(opened, m.mid), m.seq), m.age), m.name)
        whole == putNumber(body, m.eif)
        len == toUInt16(readableLength(whole))
    IN  sharing(whole, putNumber(sharing(lengthBuff, whole), len))

\* Takes a field of s.message from s.buffer.
takeField(s, field) ==
    LET taken == takeNumber(s.buffer, s.message[field])
    IN  [buffer |-> taken.buffer, message |-> [s.message EXCEPT ![field] = taken.value]]

\* Mutant: the age and the sequence number are taken in each other's place.
SwapsFields(b) ==
    LET opened == takeField(takeField([buffer |-> b, message |-> Fresh], "pif"), "length")
        start == takeField(takeField(takeField(opened, "mid"), "age"), "seq")
        nameSize == takeNumber(start.buffer, 0)
        view == takeView(nameSize.buffer, nameSize.value, [i \in 1..nameSize.value |-> 0])
    IN  takeField([buffer |-> view.buffer,
                   message |-> [start.message EXCEPT !.name = view.value]], "eif").message

\* The name is resized to the number in front of it before its bytes are taken.
deserialize(b) ==
    LET opened == takeField(takeField([buffer |-> b, message |-> Fresh], "pif"), "length")
        start == takeField(takeField(takeField(opened, "mid"), "seq"), "age")
        nameSize == takeNumber(start.buffer, 0)
        view == takeView(nameSize.buffer, nameSize.value, [i \in 1..nameSize.value |-> 0])
    IN  takeField([buffer |-> view.buffer,
                   message |-> [start.message EXCEPT !.name = view.value]], "eif").message

\* What decode looks at first: the id, behind the delimiter and the length.
idOf(b) == takeNumber(setReadIndex(b, b.readIndex + 4), 0).value

==============================================================================
