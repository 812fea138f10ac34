----------------------------- MODULE MCMergeFiles -----------------------------
EXTENDS MergeFiles

CONSTANTS Cells, MaxLength

(* The cells of the matrix are numbered 0, 1, ... in the order of the file. *)
Cell(n) == Rec(n \div 2, n % 2, 1)

AllCells == {Cell(c) : c \in 0 .. Cells - 1}

Listings(shortest) ==
  {s \in UNION {[1 .. n -> AllCells] : n \in shortest .. MaxLength} : Sorted(s)}

(* Sorted files, each with at least one record. *)
MCInputs == [Files -> Listings(1)]

(* The same, where files may be empty. *)
MCInputsWithEmpty == [Files -> Listings(0)]

MCGarbage == {Rec(1, 1, 7)}
=============================================================================
