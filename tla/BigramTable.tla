----------------------------- MODULE BigramTable -----------------------------
(***************************************************************************)
(* The dense corner of the co-occurrence matrix.  CoMat::initParas lays    *)
(* the rows out one after the other in a single vector: index[i] is the    *)
(* offset of row i, and row i is as long as MaxProduct / (i + 1) allows.   *)
(* CoMat::build adds weights to cells, CoMat::write_high_cooccur walks the *)
(* rows and lists the cells that are not zero.  CoBuild joins the two.     *)
(*                                                                         *)
(* MaxProduct stands for the member max_product, which initParas computes  *)
(* from the memory limit in floating point; nothing here depends on how.   *)
(* Weights are integers: 1/distance in a unit that CoMat chooses.          *)
(***************************************************************************)
EXTENDS HighPairs, Sequences

CONSTANT UIntRange  \* number of values of uint32_t

ASSUME TableAssumption ==
  /\ VocabSize \in Nat
  /\ MaxProduct \in Nat
  /\ UIntRange \in Nat \ {0}
  /\ MaxProduct < UIntRange
  /\ MaxWeight \in Nat

(* (int) max_product, converted to unsigned by the division by a uint32_t. *)
Narrowed(n) == n % UIntRange

(* std::min((int) max_product / i, vocab_size), for the row of word id i. *)
RowWidth(i) ==
  LET w == Narrowed(MaxProduct) \div (i + 1)
  IN  IF w < VocabSize THEN w ELSE VocabSize

VARIABLES
  tablePhase,  \* "layout", "fill", "scan" or "done"
  row,         \* loop variable of initParas
  index,       \* offset of each row, and the total length at VocabSize
  bigram_table,
  ci, cj,      \* loop variables of write_high_cooccur
  high         \* high_cooccur, as written to the temporary file

tableVars == <<tablePhase, row, index, bigram_table, ci, cj, high>>

TableInit ==
  /\ tablePhase = "layout"
  /\ row = 1
  /\ index = [i \in 0 .. VocabSize |-> 0]
  /\ bigram_table = [c \in {} |-> 0]
  /\ ci = 0
  /\ cj = 0
  /\ high = << >>

-----------------------------------------------------------------------------
(* CoMat::initParas *)

(* A row whose offset forgets the rows before it. *)
LayRow_Flat ==
  /\ tablePhase = "layout"
  /\ row # VocabSize + 1
  /\ index' = [index EXCEPT ![row] = RowWidth(row - 1)]
  /\ row' = row + 1
  /\ UNCHANGED <<tablePhase, bigram_table, ci, cj, high>>

LayRow ==
  /\ tablePhase = "layout"
  /\ row # VocabSize + 1
  /\ index' = [index EXCEPT ![row] = index[row - 1] + RowWidth(row - 1)]
  /\ row' = row + 1
  /\ UNCHANGED <<tablePhase, bigram_table, ci, cj, high>>

AllocTable ==
  /\ tablePhase = "layout"
  /\ row = VocabSize + 1
  /\ bigram_table' = [c \in 0 .. index[VocabSize] - 1 |-> 0]
  /\ tablePhase' = "fill"
  /\ UNCHANGED <<row, index, ci, cj, high>>

-----------------------------------------------------------------------------
(* CoMat::build, the branch for frequent pairs *)

Cell(i, j) == index[i] + j

AddHigh(i, j, w) ==
  /\ tablePhase = "fill"
  /\ IsHigh(i, j)
  /\ bigram_table[Cell(i, j)] + w <= MaxWeight
  /\ bigram_table' = [bigram_table EXCEPT ![Cell(i, j)] = @ + w]
  /\ UNCHANGED <<tablePhase, row, index, ci, cj, high>>

-----------------------------------------------------------------------------
(* CoMat::write_high_cooccur *)

Present(w) == w > 0

StartScan ==
  /\ tablePhase = "fill"
  /\ tablePhase' = "scan"
  /\ UNCHANGED <<row, index, bigram_table, ci, cj, high>>

ScanCell ==
  /\ tablePhase = "scan"
  /\ ci # VocabSize
  /\ cj # index[ci + 1] - index[ci]
  /\ LET weight == bigram_table[Cell(ci, cj)]
     IN  high' = IF Present(weight)
                 THEN Append(high, [i |-> ci, j |-> cj, weight |-> weight])
                 ELSE high
  /\ cj' = cj + 1
  /\ UNCHANGED <<tablePhase, row, index, bigram_table, ci>>

(* The first cell of every row but the first is left out. *)
ScanRow_FromOne ==
  /\ tablePhase = "scan"
  /\ ci # VocabSize
  /\ cj = index[ci + 1] - index[ci]
  /\ ci' = ci + 1
  /\ cj' = 1
  /\ UNCHANGED <<tablePhase, row, index, bigram_table, high>>

ScanRow ==
  /\ tablePhase = "scan"
  /\ ci # VocabSize
  /\ cj = index[ci + 1] - index[ci]
  /\ ci' = ci + 1
  /\ cj' = 0
  /\ UNCHANGED <<tablePhase, row, index, bigram_table, high>>

EndScan ==
  /\ tablePhase = "scan"
  /\ ci = VocabSize
  /\ tablePhase' = "done"
  /\ UNCHANGED <<row, index, bigram_table, ci, cj, high>>

TableNext ==
  \/ LayRow
  \/ AllocTable
  \/ \E i, j \in Ids, w \in 1 .. MaxWeight : AddHigh(i, j, w)
  \/ StartScan
  \/ ScanCell
  \/ ScanRow
  \/ EndScan

TableSpec == TableInit /\ [][TableNext]_tableVars

-----------------------------------------------------------------------------
TableTypeOK ==
  /\ tablePhase \in {"layout", "fill", "scan", "done"}
  /\ row \in 1 .. VocabSize + 1
  /\ index \in [0 .. VocabSize -> Nat]
  /\ DOMAIN bigram_table \subseteq Nat
  /\ \A c \in DOMAIN bigram_table : bigram_table[c] \in 0 .. MaxWeight
  /\ ci \in 0 .. VocabSize
  /\ cj \in 0 .. VocabSize
  /\ high \in Seq([i : Ids, j : Ids, weight : 1 .. MaxWeight])

(* bigram_table[index[id] + ids[i]] is unchecked: the test isHigh of build *)
(* and the row lengths of initParas, written apart, must agree, or a       *)
(* frequent pair lands outside the vector.                                 *)
HighCellsInBounds ==
  tablePhase # "layout" =>
    \A i, j \in Ids : IsHigh(i, j) => Cell(i, j) \in DOMAIN bigram_table

(* Two frequent pairs never share a cell. *)
HighCellsDistinct ==
  tablePhase # "layout" =>
    \A p, q \in Ids \X Ids :
      /\ IsHigh(p[1], p[2])
      /\ IsHigh(q[1], q[2])
      /\ Cell(p[1], p[2]) = Cell(q[1], q[2])
      => p = q

(* The vector behaves as one counter per frequent pair, and the list that  *)
(* is written holds each non-zero counter once, in order: merge_files      *)
(* needs the order.                                                        *)
Counters == INSTANCE PairCounts WITH
  counts  <- [p \in Ids \X Ids |->
                IF tablePhase # "layout" /\ IsHigh(p[1], p[2])
                THEN bigram_table[Cell(p[1], p[2])] ELSE 0],
  emitted <- IF tablePhase = "done" THEN high ELSE << >>,
  closed  <- tablePhase = "done"

ImplementsPairCounts == Counters!Spec
=============================================================================
