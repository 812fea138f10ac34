------------------------------ MODULE CoRecords ------------------------------
(***************************************************************************)
(* Co-occurrence records (CoRec and CoRec_id of declare.h): the weight     *)
(* gathered by a cell (i, j) of the matrix, and the order in which the     *)
(* temporary files and the merged file list them.                          *)
(***************************************************************************)
EXTENDS Integers, Sequences, FiniteSetsExt, Functions

Rec(i, j, w) == [i |-> i, j |-> j, weight |-> w]

(* operator== *)
SameCell(a, b) == a.i = b.i /\ a.j = b.j

(* operator<, and operator> with the arguments swapped *)
Precedes(a, b) ==
  \/ a.i < b.i
  \/ a.i = b.i /\ a.j < b.j

(* What the records of s add up to in cell (i, j). *)
WeightOf(s, i, j) ==
  SumFunctionOnSet([k \in DOMAIN s |-> s[k].weight],
                   {k \in DOMAIN s : s[k].i = i /\ s[k].j = j})

Sorted(s) == \A k \in 1 .. Len(s) - 1 : ~ Precedes(s[k + 1], s[k])

=============================================================================
