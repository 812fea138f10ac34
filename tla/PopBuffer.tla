------------------------------ MODULE PopBuffer ------------------------------
(***************************************************************************)
(* The Buffer of src/src/server_pop as operators on a record: the bytes of *)
(* buffer_ (its size() is their number) and the two indices.  Only append, *)
(* ReadAllAsString and sendFd are called, and each of the last two resets. *)
(***************************************************************************)
EXTENDS Integers, Sequences

EmptyBuffer == [bytes |-> << >>, readIndex |-> 0, writeIndex |-> 0]

\* (the mutant stops one short)
ReadableBytes_Short(b) == b.writeIndex - b.readIndex - 1
ReadableBytes(b) == b.writeIndex - b.readIndex

\* What the vector holds behind the next len bytes to write: nothing if MakeSpace
\* has to make it longer, and then exactly as long as needed.
Behind(b, len) == SubSeq(b.bytes, b.writeIndex + len + 1, Len(b.bytes))

\* append writes at writeIndex_.
AppendTo(b, data) ==
    [b EXCEPT !.bytes = SubSeq(@, 1, b.writeIndex) \o data \o Behind(b, Len(data)),
              !.writeIndex = @ + Len(data)]

ReadAllAsString(b) == SubSeq(b.bytes, b.readIndex + 1, b.writeIndex)
==============================================================================
