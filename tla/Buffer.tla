-------------------------------- MODULE Buffer --------------------------------
(***************************************************************************)
(* The Buffer of src/src/server: an array of which [begin, end) is in use. *)
(* What it holds is not followed.                                          *)
(***************************************************************************)
EXTENDS Naturals

CONSTANT
    Exp             \* exp_: the least capacity

ASSUME ExpAssumption == Exp \in Nat \ {0}

EmptyBuffer == [begin |-> 0, end |-> 0, capacity |-> 0]

readableSize(b) == b.end - b.begin

Greater(m, n) == IF m >= n THEN m ELSE n

\* The mutant only doubles.
Expand_Doubles(b, len) ==
    [begin |-> 0, end |-> readableSize(b), capacity |-> Greater(Exp, 2 * b.capacity)]
Expand(b, len) ==
    [begin |-> 0, end |-> readableSize(b),
     capacity |-> Greater(Exp, Greater(2 * b.capacity, readableSize(b) + len))]

\* (If there is room enough before begin, nothing is done about it.)
MakeRoom(b, len) ==
    IF b.end + len <= b.capacity \/ readableSize(b) + len < b.capacity
      THEN b
      ELSE Expand(b, len)

append(b, len) == [MakeRoom(b, len) EXCEPT !.end = @ + len]

InBounds(b) == b.begin <= b.end /\ b.end <= b.capacity
==============================================================================
