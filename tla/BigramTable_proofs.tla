-------------------------- MODULE BigramTable_proofs --------------------------
(***************************************************************************)
(* The table of frequent pairs is indexed safely, and implements one       *)
(* counter for each pair, for every vocabulary size and every max_product  *)
(* that fits in a uint32_t.                                                *)
(*                                                                         *)
(* HighCellsInBounds and HighCellsDistinct are not inductive.  Layout adds *)
(* what the loop of initParas builds row after row: each row begins where  *)
(* the one before it ends, and hence after every earlier row.  ScanInv is  *)
(* what the refinement needs besides: the list is that of the cells passed.*)
(*                                                                         *)
(* The last section is about the table within build (CoBuild).             *)
(***************************************************************************)
EXTENDS CoBuild, SequenceTheorems, WellFoundedInduction, TLAPS

(* The rows below row are laid out one behind the other; once they all     *)
(* are, the table is as long as the rows together.                         *)
Layout ==
  /\ index[0] = 0
  /\ \A n \in 1 .. row - 1 : index[n] = index[n - 1] + RowWidth(n - 1)
  /\ \A a, b \in 0 .. row - 1 : a < b => index[a] + RowWidth(a) <= index[b]
  /\ tablePhase # "layout" =>
       /\ row = VocabSize + 1
       /\ DOMAIN bigram_table = 0 .. index[VocabSize] - 1
  /\ ci < VocabSize => cj <= RowWidth(ci)
  /\ ci = VocabSize => cj = 0

Inv == TableTypeOK /\ Layout

(* A row is at most as long as the vocabulary (cooccur.cpp:274). *)
LEMMA RowWidthBound ==
  ASSUME NEW i \in Nat
  PROVE  RowWidth(i) \in 0 .. VocabSize
BY TableAssumption, SMT DEF RowWidth, Narrowed

(* The rows of initParas are long enough for every pair that build takes   *)
(* for frequent: the test of cooccur.cpp:68 and the width of line 274      *)
(* agree when max_product fits in 32 bits.                                 *)
LEMMA HighFitsRow ==
  ASSUME NEW i \in Ids, NEW j \in Ids, IsHigh(i, j)
  PROVE  j < RowWidth(i)
<1>1. Narrowed(MaxProduct) = MaxProduct
  BY TableAssumption DEF Narrowed
<1>2. MaxProduct \div (i + 1) >= j + 1
  BY DEF IsHigh
<1>3. j + 1 <= VocabSize /\ j \in Nat /\ i \in Nat
  BY TableAssumption DEF Ids
<1>4. MaxProduct \div (i + 1) \in Nat
  BY <1>3, TableAssumption
<1> QED
  BY <1>1, <1>2, <1>3, <1>4, TableAssumption DEF RowWidth

LEMMA InitInv == TableInit => Inv
<1> SUFFICES ASSUME TableInit PROVE Inv
  OBVIOUS
<1> USE TableAssumption DEF TableInit
<1>1. TableTypeOK
  BY DEF TableTypeOK
<1>2. RowWidth(0) \in 0 .. VocabSize
  BY RowWidthBound
<1>3. Layout
  BY <1>2 DEF Layout
<1> QED
  BY <1>1, <1>3 DEF Inv

(* The next row is put behind the last one, and thereby behind all.        *)
LEMMA LayRowInv == Inv /\ LayRow => Inv'
<1> SUFFICES ASSUME Inv, LayRow PROVE Inv'
  OBVIOUS
<1>1. /\ row \in 1 .. VocabSize /\ row' = row + 1 /\ VocabSize \in Nat
      /\ index \in [0 .. VocabSize -> Nat] /\ index[0] = 0
      /\ \A n \in 1 .. row - 1 : index[n] = index[n - 1] + RowWidth(n - 1)
      /\ \A a, b \in 0 .. row - 1 : a < b => index[a] + RowWidth(a) <= index[b]
  BY TableAssumption DEF Inv, TableTypeOK, Layout, LayRow
<1>2. \A i \in Nat : RowWidth(i) \in Nat
  BY RowWidthBound, TableAssumption
<1>3. /\ index' \in [0 .. VocabSize -> Nat]
      /\ index'[row] = index[row - 1] + RowWidth(row - 1)
      /\ \A n \in 0 .. row - 1 : index'[n] = index[n]
  <2>1. row - 1 \in 0 .. VocabSize /\ row - 1 \in Nat /\ row \in 0 .. VocabSize
    BY <1>1
  <2>2. index[row - 1] + RowWidth(row - 1) \in Nat
    BY <1>1, <1>2, <2>1
  <2>3. index' = [index EXCEPT ![row] = index[row - 1] + RowWidth(row - 1)]
    BY DEF LayRow
  <2> QED
    BY <1>1, <2>1, <2>2, <2>3
<1>4. TableTypeOK'
  BY <1>1, <1>3 DEF Inv, TableTypeOK, LayRow
<1>5. ASSUME NEW n \in 1 .. row' - 1
      PROVE  index'[n] = index'[n - 1] + RowWidth(n - 1)
  <2>1. CASE n = row
    BY <1>1, <1>3, <2>1
  <2>2. CASE n # row
    <3>1. n \in 1 .. row - 1 /\ n - 1 \in 0 .. row - 1
      BY <1>1, <2>2
    <3>2. index[n] = index[n - 1] + RowWidth(n - 1)
      BY <1>1, <3>1
    <3> QED
      BY <1>3, <3>1, <3>2
  <2> QED
    BY <2>1, <2>2
<1>6. ASSUME NEW a \in 0 .. row' - 1, NEW b \in 0 .. row' - 1, a < b
      PROVE  index'[a] + RowWidth(a) <= index'[b]
  <2>1. CASE b < row
    <3>1. a \in 0 .. row - 1 /\ b \in 0 .. row - 1
      BY <1>1, <1>6, <2>1
    <3> QED
      BY <1>1, <1>3, <1>6, <3>1
  <2>2. CASE b = row /\ a = row - 1
    BY <1>1, <1>3, <2>2
  <2>3. CASE b = row /\ a < row - 1
    <3>1. index[a] + RowWidth(a) <= index[row - 1]
      BY <1>1, <1>6, <2>3
    <3>2. a \in 0 .. row - 1 /\ row - 1 \in 0 .. row - 1
      BY <1>1, <1>6, <2>3
    <3>4. index'[a] = index[a] /\ index[a] \in Nat /\ index[row - 1] \in Nat
      BY <1>1, <1>3, <3>2
    <3>3. RowWidth(a) \in Nat /\ RowWidth(row - 1) \in Nat
      BY <1>1, <1>2, <1>6
    <3> QED
      BY <1>1, <1>3, <2>3, <3>1, <3>3, <3>4
  <2> QED
    BY <1>1, <1>6, <2>1, <2>2, <2>3
<1>7. Layout'
  <2>1. index'[0] = 0
    BY <1>1, <1>3
  <2>2. /\ tablePhase' = "layout"
        /\ ci' < VocabSize => cj' <= RowWidth(ci')
        /\ ci' = VocabSize => cj' = 0
    BY DEF Inv, Layout, LayRow
  <2> QED
    BY <1>5, <1>6, <2>1, <2>2 DEF Layout
<1> QED
  BY <1>4, <1>7 DEF Inv

(* Once the table is allocated, the cell of a frequent pair is in it.      *)
LEMMA CellInTable ==
  ASSUME Inv, tablePhase # "layout", NEW i \in Ids, NEW j \in Nat, j < RowWidth(i)
  PROVE  Cell(i, j) \in DOMAIN bigram_table
<1> USE TableAssumption DEF Inv, TableTypeOK, Layout, Ids
<1>1. /\ i \in 0 .. VocabSize - 1
      /\ index[i] \in Nat /\ index[VocabSize] \in Nat
      /\ DOMAIN bigram_table = 0 .. index[VocabSize] - 1
  OBVIOUS
<1>2. index[i] + RowWidth(i) <= index[VocabSize]
  BY <1>1
<1>3. RowWidth(i) \in 0 .. VocabSize
  BY <1>1, RowWidthBound
<1> HIDE DEF Inv, TableTypeOK, Layout
<1> QED
  BY <1>1, <1>2, <1>3 DEF Cell

LEMMA NextInv == Inv /\ [TableNext]_tableVars => Inv'
<1> SUFFICES ASSUME Inv, [TableNext]_tableVars PROVE Inv'
  OBVIOUS
<1>1. CASE LayRow
  BY <1>1, LayRowInv
<1>2. CASE AllocTable
  <2> USE TableAssumption DEF Inv, TableTypeOK, Layout, AllocTable
  <2>1. index[VocabSize] \in Nat
    OBVIOUS
  <2>2. /\ DOMAIN bigram_table' = 0 .. index[VocabSize] - 1
        /\ \A c \in DOMAIN bigram_table' : bigram_table'[c] = 0
    BY <1>2
  <2>3. TableTypeOK'
    BY <1>2, <2>1, <2>2
  <2>4. Layout'
    BY <1>2, <2>2
  <2> HIDE DEF TableTypeOK, Layout
  <2> QED
    BY <2>3, <2>4
<1>3. ASSUME NEW i \in Ids, NEW j \in Ids, NEW w \in 1 .. MaxWeight,
             AddHigh(i, j, w)
      PROVE  Inv'
  <2> DEFINE c == Cell(i, j)
  <2>1. j \in Nat /\ j < RowWidth(i) /\ tablePhase # "layout"
    BY <1>3, HighFitsRow, TableAssumption DEF AddHigh, Ids
  <2>2. c \in DOMAIN bigram_table
    BY <2>1, CellInTable
  <2>3. /\ bigram_table' = [bigram_table EXCEPT ![c] = @ + w]
        /\ bigram_table[c] + w <= MaxWeight
    BY <1>3 DEF AddHigh
  <2>4. \A d \in DOMAIN bigram_table : bigram_table[d] \in 0 .. MaxWeight
    BY DEF Inv, TableTypeOK
  <2> HIDE DEF c
  <2>5. bigram_table[c] + w \in 0 .. MaxWeight
    BY <2>2, <2>3, <2>4, TableAssumption
  <2>6. DOMAIN bigram_table' = DOMAIN bigram_table
    BY <2>3
  <2>7. \A d \in DOMAIN bigram_table' : bigram_table'[d] \in 0 .. MaxWeight
    BY <2>2, <2>3, <2>4, <2>5
  <2>8. TableTypeOK'
    BY <1>3, <2>6, <2>7 DEF Inv, TableTypeOK, AddHigh
  <2>9. Layout'
    BY <1>3, <2>6 DEF Inv, Layout, AddHigh
  <2> QED
    BY <2>8, <2>9 DEF Inv
<1>4. CASE StartScan
  BY <1>4 DEF Inv, TableTypeOK, Layout, StartScan
<1>5. CASE ScanCell
  <2> USE TableAssumption DEF Inv, TableTypeOK, Layout, ScanCell, Present
  <2>1. ci \in Ids /\ row = VocabSize + 1
    BY <1>5 DEF Ids
  <2>2. index[ci + 1] - index[ci] = RowWidth(ci)
    <3>1. ci + 1 \in 1 .. row - 1 /\ (ci + 1) - 1 = ci
      BY <2>1 DEF Ids
    <3>2. index[ci + 1] = index[ci] + RowWidth(ci)
      BY <3>1
    <3>3. index[ci] \in Nat /\ RowWidth(ci) \in Nat
      BY <2>1, RowWidthBound DEF Ids
    <3> QED
      BY <3>2, <3>3
  <2>3. RowWidth(ci) \in 0 .. VocabSize
    BY <2>1, RowWidthBound DEF Ids
  <2>4. cj < RowWidth(ci) /\ cj \in Nat
    BY <1>5, <2>1, <2>2, <2>3 DEF Ids
  <2>5. Cell(ci, cj) \in DOMAIN bigram_table
    BY <1>5, <2>1, <2>4, CellInTable
  <2>6. cj \in Ids
    BY <2>3, <2>4 DEF Ids
  <2> DEFINE Cells == [i : Ids, j : Ids, weight : 1 .. MaxWeight]
             new == [i |-> ci, j |-> cj, weight |-> bigram_table[Cell(ci, cj)]]
  <2>7. high' \in Seq(Cells)
    <3>1. high \in Seq(Cells)
      OBVIOUS
    <3>2. CASE bigram_table[Cell(ci, cj)] > 0
      <4>1. bigram_table[Cell(ci, cj)] \in 1 .. MaxWeight
        BY <2>5, <3>2
      <4>2. new \in Cells
        BY <2>1, <2>6, <4>1
      <4>3. high' = Append(high, new)
        BY <1>5, <3>2
      <4> HIDE DEF new, Cells, Inv, TableTypeOK, Layout
      <4> QED
        BY <3>1, <4>2, <4>3
    <3>3. CASE ~(bigram_table[Cell(ci, cj)] > 0)
      BY <1>5, <3>3
    <3> QED
      BY <3>2, <3>3
  <2>8. TableTypeOK'
    <3>1. cj' \in 0 .. VocabSize
      BY <1>5, <2>3, <2>4
    <3> QED
      BY <1>5, <2>7, <3>1
  <2>9. Layout'
    BY <1>5, <2>3, <2>4
  <2> HIDE DEF TableTypeOK, Layout
  <2> QED
    BY <2>8, <2>9
<1>6. CASE ScanRow
  <2> USE TableAssumption DEF Inv, TableTypeOK, Layout, ScanRow
  <2>1. ci' \in Nat /\ RowWidth(ci') \in 0 .. VocabSize
    BY <1>6, RowWidthBound
  <2> QED
    BY <1>6, <2>1
<1>7. CASE EndScan
  BY <1>7 DEF Inv, TableTypeOK, Layout, EndScan
<1>8. CASE UNCHANGED tableVars
  BY <1>8 DEF Inv, TableTypeOK, Layout, tableVars
<1> QED
  BY <1>1, <1>2, <1>3, <1>4, <1>5, <1>6, <1>7, <1>8 DEF TableNext

(* The invariant in every reachable state. *)
THEOREM InvHolds == TableSpec => []Inv
BY InitInv, NextInv, PTL DEF TableSpec

(* The variables of initParas, build and write_high_cooccur keep their     *)
(* types; in particular no cell outside the vector is ever read or written.*)
THEOREM TypeCorrect == TableSpec => []TableTypeOK
<1>1. Inv => TableTypeOK
  BY DEF Inv
<1> QED
  BY <1>1, InvHolds, PTL

(* bigram_table[index[id] + ids[i]] of CoMat::build stays inside the       *)
(* vector for every vocabulary and every max_product below 2^32.           *)
THEOREM InBounds == TableSpec => []HighCellsInBounds
<1>1. Inv => HighCellsInBounds
  <2> SUFFICES ASSUME Inv, tablePhase # "layout",
                      NEW i \in Ids, NEW j \in Ids, IsHigh(i, j)
               PROVE  Cell(i, j) \in DOMAIN bigram_table
    BY DEF HighCellsInBounds
  <2>1. j < RowWidth(i) /\ j \in Nat
    BY HighFitsRow, TableAssumption DEF Ids
  <2> QED
    BY <2>1, CellInTable
<1> QED
  BY <1>1, InvHolds, PTL

(* A place in a row is before the rows that follow.                        *)
LEMMA RowEnds ==
  ASSUME NEW x \in Nat, NEW y \in Nat, NEW r \in Nat, NEW b \in Nat, NEW d \in Nat,
         b < r, x + r <= y
  PROVE  x + b # y + d
<1> QED
  OBVIOUS

(* Rows follow one another, and a frequent pair lies within its own.       *)
LEMMA CellsAreApart == ASSUME Inv PROVE HighCellsDistinct
<1> SUFFICES ASSUME Inv, tablePhase # "layout",
                    NEW a \in Ids, NEW b \in Ids,
                    NEW c \in Ids, NEW d \in Ids,
                    IsHigh(a, b), IsHigh(c, d), Cell(a, b) = Cell(c, d)
             PROVE  a = c /\ b = d
  BY DEF HighCellsDistinct
<1> USE TableAssumption DEF Inv, TableTypeOK, Layout, Ids
<1>1. b < RowWidth(a) /\ d < RowWidth(c)
  BY HighFitsRow
<1>2. /\ RowWidth(a) \in Nat /\ RowWidth(c) \in Nat
      /\ index[a] \in Nat /\ index[c] \in Nat
  BY RowWidthBound
<1>3. index[a] + b = index[c] + d
  BY DEF Cell
<1>4. ~(a < c)
  <2>1. a < c => index[a] + RowWidth(a) <= index[c]
    OBVIOUS
  <2>2. b \in Nat /\ d \in Nat
    OBVIOUS
  <2> QED
    BY ONLY <1>1, <1>2, <1>3, <2>1, <2>2, RowEnds
<1>5. ~(c < a)
  <2>1. c < a => index[c] + RowWidth(c) <= index[a]
    OBVIOUS
  <2>2. b \in Nat /\ d \in Nat
    OBVIOUS
  <2> QED
    BY ONLY <1>1, <1>2, <1>3, <2>1, <2>2, RowEnds
<1> QED
  BY <1>2, <1>3, <1>4, <1>5

(* No two frequent pairs of CoMat::build add to the same cell.             *)
THEOREM CellsDistinct == TableSpec => []HighCellsDistinct
<1>1. Inv => HighCellsDistinct
  BY CellsAreApart
<1> QED
  BY <1>1, InvHolds, PTL
-----------------------------------------------------------------------------
(***************************************************************************)
(* The table implements PairCounts.  The list is that of PairCounts!Emit   *)
(* because of what the scan has left behind it: the list so far has each   *)
(* counter behind the cursor that is not zero, and these only, in order.   *)
(***************************************************************************)
Behind(i, j, a, b) == i < a \/ (i = a /\ j < b)

Cursor ==
  /\ tablePhase \in {"layout", "fill"} => ci = 0 /\ cj = 0 /\ high = << >>
  /\ tablePhase = "done" => ci = VocabSize

ListedAreCounted ==
  \A n \in DOMAIN high :
    /\ Behind(high[n].i, high[n].j, ci, cj)
    /\ high[n].j < RowWidth(high[n].i)
    /\ high[n].weight = bigram_table[Cell(high[n].i, high[n].j)]

CountedAreListed ==
  \A i, j \in Ids :
    j < RowWidth(i) /\ Behind(i, j, ci, cj) /\ bigram_table[Cell(i, j)] > 0 =>
      \E n \in DOMAIN high : high[n].i = i /\ high[n].j = j

Earlier(e, f) == e.i < f.i \/ (e.i = f.i /\ e.j < f.j)

ListedInOrder == \A n, l \in DOMAIN high : n < l => Earlier(high[n], high[l])

ScanInv == Cursor /\ ListedAreCounted /\ CountedAreListed /\ ListedInOrder

Entry == [i : Ids, j : Ids, weight : 1 .. MaxWeight]

LEMMA RestInv ==
  ASSUME Inv, ScanInv, tablePhase \in {"layout", "fill"}, tablePhase' # "done",
         UNCHANGED <<ci, cj, high>>
  PROVE  ScanInv'
<1>1. ci' = 0 /\ cj' = 0 /\ high' = << >>
  BY DEF ScanInv, Cursor
<1>2. RowWidth(0) \in 0 .. VocabSize /\ VocabSize \in Nat
  BY RowWidthBound, TableAssumption
<1>3. Cursor'
  BY <1>1, <1>2 DEF Cursor
<1>4. \A i, j \in Ids : ~ Behind(i, j, ci', cj')
  BY <1>1, <1>2 DEF Behind, Ids
<1> QED
  BY <1>1, <1>3, <1>4 DEF ScanInv, ListedAreCounted, CountedAreListed, ListedInOrder

LEMMA ScanCellInv ==
  ASSUME Inv, ScanInv, ScanCell
  PROVE  ScanInv'
<1> DEFINE weight == bigram_table[Cell(ci, cj)]
           e == [i |-> ci, j |-> cj, weight |-> weight]
<1>1. /\ tablePhase = "scan" /\ ci # VocabSize /\ cj # index[ci + 1] - index[ci]
      /\ high' = IF Present(weight) THEN Append(high, e) ELSE high
      /\ cj' = cj + 1
      /\ UNCHANGED <<tablePhase, row, index, bigram_table, ci>>
  BY DEF ScanCell
<1>2. /\ VocabSize \in Nat /\ ci \in 0 .. VocabSize /\ cj \in 0 .. VocabSize
      /\ high \in Seq(Entry) /\ ci \in Ids /\ RowWidth(ci) \in 0 .. VocabSize
  BY <1>1, RowWidthBound, TableAssumption DEF Inv, TableTypeOK, Entry, Ids
<1>3. index[ci + 1] - index[ci] = RowWidth(ci)
  <2>1. /\ ci + 1 \in 1 .. row - 1 /\ (ci + 1) - 1 = ci
        /\ index[ci + 1] \in Nat /\ index[ci] \in Nat
    BY <1>1, <1>2 DEF Inv, TableTypeOK, Layout
  <2>2. index[ci + 1] = index[ci] + RowWidth(ci)
    BY <2>1 DEF Inv, Layout
  <2> QED
    BY <1>2, <2>1, <2>2
<1>4. cj < RowWidth(ci) /\ cj \in Ids
  BY <1>1, <1>2, <1>3 DEF Inv, Layout, Ids
<1>5. weight \in 0 .. MaxWeight /\ MaxWeight \in Nat
  BY <1>1, <1>2, <1>4, CellInTable, TableAssumption DEF Inv, TableTypeOK, Ids
<1> HIDE DEF weight
<1>6. CASE Present(weight)
  <2>1. e \in Entry /\ high' = Append(high, e)
    BY <1>1, <1>2, <1>4, <1>5, <1>6 DEF Entry, Present
  <2> HIDE DEF e
  <2>2. /\ Len(high) \in Nat /\ DOMAIN high = 1 .. Len(high)
        /\ DOMAIN high' = 1 .. Len(high) + 1
        /\ high'[Len(high) + 1] = e
        /\ \A n \in DOMAIN high : high'[n] = high[n] /\ high[n] \in Entry
    BY <1>2, <2>1
  <2>3. Cursor'
    BY <1>1, <1>2, <1>4 DEF ScanInv, Cursor
  <2>4. \A i, j \in Ids : Behind(i, j, ci', cj') <=> Behind(i, j, ci, cj) \/ (i = ci /\ j = cj)
    BY <1>1, <1>2 DEF Behind, Ids
  <2>5. e.i = ci /\ e.j = cj /\ e.weight = weight
    BY DEF e
  <2>6. \A n \in DOMAIN high : high[n].i \in Ids /\ high[n].j \in Ids
    BY <2>2 DEF Entry
  <2>7. ListedAreCounted'
    <3>1. ASSUME NEW n \in DOMAIN high
          PROVE  /\ Behind(high[n].i, high[n].j, ci, cj) /\ high[n].j < RowWidth(high[n].i)
                 /\ high[n].weight = bigram_table[Cell(high[n].i, high[n].j)]
                 /\ ci < VocabSize
      BY <1>1, <1>2 DEF ScanInv, ListedAreCounted
    <3>2. ASSUME NEW n \in DOMAIN high'
          PROVE  /\ Behind(high'[n].i, high'[n].j, ci', cj') /\ high'[n].j < RowWidth(high'[n].i)
                 /\ high'[n].weight = bigram_table[Cell(high'[n].i, high'[n].j)]
      <4>1. CASE n \in DOMAIN high
        BY <2>2, <2>4, <2>6, <3>1, <4>1
      <4>2. CASE n = Len(high) + 1
        BY <1>2, <1>4, <2>2, <2>4, <2>5, <4>2 DEF weight
      <4> QED
        BY <2>2, <4>1, <4>2
    <3>3. \A i, j : Cell(i, j)' = Cell(i, j)
      BY <1>1 DEF Cell
    <3> QED
      BY <1>1, <3>2, <3>3 DEF ListedAreCounted, Behind, Cell
  <2>8. CountedAreListed'
    <3>1. ASSUME NEW i \in Ids, NEW j \in Ids, j < RowWidth(i), Behind(i, j, ci', cj'), bigram_table[Cell(i, j)] > 0
          PROVE  \E n \in DOMAIN high' : high'[n].i = i /\ high'[n].j = j
      <4>1. CASE Behind(i, j, ci, cj)
        <5>1. PICK n \in DOMAIN high : high[n].i = i /\ high[n].j = j
          BY <3>1, <4>1 DEF ScanInv, CountedAreListed
        <5> QED
          BY <2>2, <5>1
      <4>2. CASE i = ci /\ j = cj
        <5>1. Len(high) + 1 \in DOMAIN high'
          BY <2>2
        <5> QED
          BY <2>2, <2>5, <4>2, <5>1
      <4> QED
        BY <2>4, <3>1, <4>1, <4>2
    <3> QED
      BY <1>1, <3>1 DEF CountedAreListed, Cell
  <2>9. ListedInOrder'
    <3>1. ASSUME NEW n \in DOMAIN high', NEW l \in DOMAIN high', n < l
          PROVE  Earlier(high'[n], high'[l])
      <4>1. n \in DOMAIN high
        BY <2>2, <3>1
      <4>2. CASE l \in DOMAIN high
        BY <2>2, <3>1, <4>1, <4>2 DEF ScanInv, ListedInOrder
      <4>3. CASE l = Len(high) + 1
        BY <2>2, <2>5, <4>1, <4>3 DEF ScanInv, ListedAreCounted, Behind, Earlier
      <4> QED
        BY <2>2, <4>2, <4>3
    <3> QED
      BY <3>1 DEF ListedInOrder, Earlier
  <2> QED
    BY <2>3, <2>7, <2>8, <2>9 DEF ScanInv
<1>7. CASE ~ Present(weight)
  <2>1. high' = high /\ ~ (weight > 0)
    BY <1>1, <1>7 DEF Present
  <2>2. Cursor'
    BY <1>1, <1>2, <1>4 DEF ScanInv, Cursor
  <2>3. \A i, j \in Ids : Behind(i, j, ci', cj') <=> Behind(i, j, ci, cj) \/ (i = ci /\ j = cj)
    BY <1>1, <1>2 DEF Behind, Ids
  <2>4. \A n \in DOMAIN high : high[n].i \in Ids /\ high[n].j \in Ids
    <3>1. \A n \in DOMAIN high : high[n] \in Entry
      BY <1>2
    <3> QED
      BY <3>1 DEF Entry
  <2>5. ASSUME NEW n \in DOMAIN high
        PROVE  Behind(high[n].i, high[n].j, ci', cj')
    <3> DEFINE i == high[n].i
               j == high[n].j
    <3>1. Behind(i, j, ci, cj) /\ i \in Ids /\ j \in Ids
      BY <2>4 DEF ScanInv, ListedAreCounted
    <3> QED
      BY <1>1, <1>2, <2>1, <3>1 DEF Behind, Ids
  <2>6. ListedAreCounted'
    BY <1>1, <2>1, <2>5 DEF ScanInv, ListedAreCounted, Cell, Behind
  <2>7. CountedAreListed'
    BY <1>1, <2>1, <2>3 DEF ScanInv, CountedAreListed, Cell, weight
  <2>8. ListedInOrder'
    BY <2>1 DEF ScanInv, ListedInOrder, Earlier
  <2> QED
    BY <2>2, <2>6, <2>7, <2>8 DEF ScanInv
<1> QED
  BY <1>6, <1>7

LEMMA ScanRowInv ==
  ASSUME Inv, ScanInv, ScanRow
  PROVE  ScanInv'
<1>1. /\ tablePhase = "scan" /\ ci # VocabSize /\ cj = index[ci + 1] - index[ci]
      /\ ci' = ci + 1 /\ cj' = 0
      /\ UNCHANGED <<tablePhase, row, index, bigram_table, high>>
  BY DEF ScanRow
<1>2. /\ VocabSize \in Nat /\ ci \in 0 .. VocabSize /\ cj \in 0 .. VocabSize
      /\ high \in Seq(Entry) /\ ci \in Ids /\ RowWidth(ci + 1) \in 0 .. VocabSize
      /\ RowWidth(ci) \in 0 .. VocabSize
  BY <1>1, RowWidthBound, TableAssumption DEF Inv, TableTypeOK, Entry, Ids
<1>3. cj = RowWidth(ci)
  <2>1. /\ ci + 1 \in 1 .. row - 1 /\ (ci + 1) - 1 = ci
        /\ index[ci + 1] \in Nat /\ index[ci] \in Nat
    BY <1>1, <1>2 DEF Inv, TableTypeOK, Layout
  <2>2. index[ci + 1] = index[ci] + RowWidth(ci)
    BY <2>1 DEF Inv, Layout
  <2> QED
    BY <1>1, <1>2, <2>1, <2>2
<1>4. Cursor'
  BY <1>1, <1>2 DEF Cursor
<1>5. \A i, j \in Ids : Behind(i, j, ci, cj) => Behind(i, j, ci', cj')
  BY <1>1, <1>2 DEF Behind, Ids
<1>6. \A i, j \in Ids : j < RowWidth(i) /\ Behind(i, j, ci', cj') => Behind(i, j, ci, cj)
  BY <1>1, <1>2, <1>3 DEF Behind, Ids
<1>7. ASSUME NEW n \in DOMAIN high
      PROVE  Behind(high[n].i, high[n].j, ci', cj')
  <2> DEFINE i == high[n].i
             j == high[n].j
  <2>1. high[n] \in Entry
    BY <1>2
  <2>2. Behind(i, j, ci, cj) /\ i \in Ids /\ j \in Ids
    BY <2>1 DEF ScanInv, ListedAreCounted, Entry
  <2> QED
    BY <1>1, <1>2, <2>2 DEF Behind, Ids
<1>8. ListedAreCounted'
  BY <1>1, <1>7 DEF ScanInv, ListedAreCounted, Cell, Behind
<1>9. CountedAreListed'
  BY <1>1, <1>6 DEF ScanInv, CountedAreListed, Cell
<1>10. ListedInOrder'
  BY <1>1 DEF ScanInv, ListedInOrder, Earlier
<1> QED
  BY <1>4, <1>8, <1>9, <1>10 DEF ScanInv

LEMMA NextScanInv == ASSUME Inv, ScanInv, [TableNext]_tableVars PROVE ScanInv'
<1>1. CASE LayRow
  BY <1>1, RestInv DEF LayRow
<1>2. CASE AllocTable
  BY <1>2, RestInv DEF AllocTable
<1>3. ASSUME NEW i \in Ids, NEW j \in Ids, NEW w \in 1 .. MaxWeight, AddHigh(i, j, w)
      PROVE  ScanInv'
  BY <1>3, RestInv DEF AddHigh
<1>4. CASE StartScan
  BY <1>4, RestInv DEF StartScan
<1>5. CASE ScanCell
  BY <1>5, ScanCellInv
<1>6. CASE ScanRow
  BY <1>6, ScanRowInv
<1>7. CASE EndScan \/ UNCHANGED tableVars
  <2>1. UNCHANGED <<index, bigram_table, ci, cj, high>>
    BY <1>7 DEF EndScan, tableVars
  <2>2. Cursor'
    BY <1>7 DEF EndScan, tableVars, ScanInv, Cursor
  <2> QED
    BY <2>1, <2>2 DEF ScanInv, ListedAreCounted, CountedAreListed, ListedInOrder,
                      Earlier, Cell, Behind
<1> QED
  BY <1>1, <1>2, <1>3, <1>4, <1>5, <1>6, <1>7 DEF TableNext

-----------------------------------------------------------------------------
(* The counter of a pair, as the refinement reads it off the table. *)
Counter(p) ==
  IF tablePhase # "layout" /\ IsHigh(p[1], p[2]) THEN bigram_table[Cell(p[1], p[2])] ELSE 0

LEMMA HighCells ==
  ASSUME Inv, tablePhase # "layout", NEW i \in Ids, NEW j \in Ids
  PROVE  /\ IsHigh(i, j) <=> j < RowWidth(i)
         /\ IsHigh(i, j) => /\ Cell(i, j) \in DOMAIN bigram_table
                            /\ bigram_table[Cell(i, j)] \in 0 .. MaxWeight
<1>1. IsHigh(i, j) => j < RowWidth(i)
  BY HighFitsRow
<1>2. j < RowWidth(i) => IsHigh(i, j)
  <2>1. Narrowed(MaxProduct) = MaxProduct
    BY TableAssumption DEF Narrowed
  <2> DEFINE w == MaxProduct \div (i + 1)
  <2>2. w \in Nat /\ j \in Nat /\ VocabSize \in Nat
    BY TableAssumption DEF Ids
  <2>3. RowWidth(i) = IF w < VocabSize THEN w ELSE VocabSize
    BY <2>1 DEF RowWidth
  <2> HIDE DEF w
  <2>4. j < RowWidth(i) => w >= j + 1
    BY <2>2, <2>3
  <2> QED
    BY <2>4 DEF w, IsHigh
<1>3. j \in Nat
  BY TableAssumption DEF Ids
<1>4. j < RowWidth(i) => Cell(i, j) \in DOMAIN bigram_table
  BY <1>3, CellInTable
<1> QED
  BY <1>1, <1>2, <1>4 DEF Inv, TableTypeOK

(* When the scan has passed every row, the list is that of all counters    *)
(* that are not zero.                                                      *)
LEMMA ScanListsAll ==
  ASSUME Inv, ScanInv, tablePhase = "scan", ci = VocabSize
  PROVE  Counters!IsListing(high)
<1>1. tablePhase = "scan" /\ ci = VocabSize
  OBVIOUS
<1>2. high \in Seq(Entry) /\ \A n \in DOMAIN high : high[n] \in Entry
  <2>1. high \in Seq(Entry)
    BY DEF Inv, TableTypeOK, Entry
  <2> QED
    BY <2>1
<1>3. \A i, j \in Ids : Behind(i, j, ci, cj)
  BY <1>1, TableAssumption DEF Behind, Ids
<1> DEFINE counters == [p \in Ids \X Ids |-> Counter(p)]
<1>5. ASSUME NEW n \in DOMAIN high
      PROVE  /\ <<high[n].i, high[n].j>> \in Ids \X Ids
             /\ Counter(<<high[n].i, high[n].j>>) = high[n].weight
             /\ high[n].weight > 0
  <2> DEFINE i == high[n].i
             j == high[n].j
  <2>1. i \in Ids /\ j \in Ids /\ high[n].weight \in 1 .. MaxWeight
    BY <1>2 DEF Entry
  <2>2. j < RowWidth(i) /\ high[n].weight = bigram_table[Cell(i, j)]
    BY DEF ScanInv, ListedAreCounted
  <2>3. IsHigh(i, j)
    BY <1>1, <2>1, <2>2, HighCells
  <2> HIDE DEF i, j
  <2>4. Counter(<<i, j>>) = bigram_table[Cell(i, j)]
    BY <1>1, <2>3 DEF Counter
  <2> QED
    BY <2>1, <2>2, <2>4, TableAssumption DEF i, j
<1>6. ASSUME NEW i \in Ids, NEW j \in Ids, Counter(<<i, j>>) > 0
      PROVE  \E n \in DOMAIN high : high[n] = [i |-> i, j |-> j, weight |-> Counter(<<i, j>>)]
  <2>1. IsHigh(i, j) /\ Counter(<<i, j>>) = bigram_table[Cell(i, j)]
    BY <1>1, <1>6 DEF Counter
  <2>2. j < RowWidth(i)
    BY <1>1, <2>1, HighCells
  <2>3. PICK n \in DOMAIN high : high[n].i = i /\ high[n].j = j
    BY <1>3, <1>6, <2>1, <2>2 DEF ScanInv, CountedAreListed
  <2>4. high[n].weight = Counter(<<i, j>>)
    BY <2>1, <2>3 DEF ScanInv, ListedAreCounted
  <2>5. high[n] = [i |-> high[n].i, j |-> high[n].j, weight |-> high[n].weight]
    BY <1>2 DEF Entry
  <2> QED
    BY <2>3, <2>4, <2>5
<1>7. {high[n] : n \in DOMAIN high} =
        {[i |-> p[1], j |-> p[2], weight |-> counters[p]] :
           p \in {q \in Ids \X Ids : counters[q] > 0}}
  <2>1. ASSUME NEW n \in DOMAIN high
        PROVE  \E p \in Ids \X Ids :
                 /\ counters[p] > 0
                 /\ high[n] = [i |-> p[1], j |-> p[2], weight |-> counters[p]]
    <3> DEFINE p == <<high[n].i, high[n].j>>
    <3>1. p \in Ids \X Ids /\ counters[p] = high[n].weight /\ high[n].weight > 0
      BY <1>5
    <3>2. high[n] = [i |-> high[n].i, j |-> high[n].j, weight |-> high[n].weight]
      BY <1>2 DEF Entry
    <3>3. p[1] = high[n].i /\ p[2] = high[n].j
      OBVIOUS
    <3> HIDE DEF p, counters
    <3> QED
      BY <3>1, <3>2, <3>3
  <2>2. ASSUME NEW p \in Ids \X Ids, counters[p] > 0
        PROVE  \E n \in DOMAIN high :
                 high[n] = [i |-> p[1], j |-> p[2], weight |-> counters[p]]
    <3>1. p = <<p[1], p[2]>> /\ p[1] \in Ids /\ p[2] \in Ids
      OBVIOUS
    <3>2. Counter(<<p[1], p[2]>>) = counters[p]
      BY <3>1
    <3> HIDE DEF counters
    <3> QED
      BY <1>6, <2>2, <3>1, <3>2
  <2> HIDE DEF counters
  <2> QED
    BY <2>1, <2>2
<1>8. \A n, l \in DOMAIN high :
        n < l => \/ high[n].i < high[l].i
                 \/ high[n].i = high[l].i /\ high[n].j < high[l].j
  BY DEF ScanInv, ListedInOrder, Earlier
<1> QED
  BY <1>7, <1>8 DEF Counters!IsListing, Counters!Ids, Ids, Counter

(* That is what the scan ends with. *)
LEMMA EndScanEmits ==
  ASSUME Inv, ScanInv, EndScan
  PROVE  Counters!Emit
<1>1. tablePhase = "scan" /\ ci = VocabSize /\ tablePhase' = "done" /\ UNCHANGED <<index, bigram_table, high>>
  BY DEF EndScan
<1>2. high \in Seq(Entry)
  BY DEF Inv, TableTypeOK, Entry
<1>3. Counters!IsListing(high)
  BY <1>1, ScanListsAll
<1>4. (IF tablePhase' = "done" THEN high' ELSE << >>) = high
  BY <1>1
<1>5. UNCHANGED [p \in Ids \X Ids |->
                IF tablePhase # "layout" /\ IsHigh(p[1], p[2])
                THEN bigram_table[Cell(p[1], p[2])] ELSE 0]
  BY <1>1 DEF Cell
<1> QED
  BY <1>1, <1>2, <1>3, <1>4, <1>5 DEF Counters!Emit, Counters!Ids, Ids, Entry, Counters!IsListing

LEMMA AddHighAdds ==
  ASSUME Inv, NEW i \in Ids, NEW j \in Ids, NEW w \in 1 .. MaxWeight, AddHigh(i, j, w)
  PROVE  Counters!Add(i, j, w)
<1> DEFINE c == Cell(i, j)
           counters == [p \in Ids \X Ids |->
                        IF tablePhase # "layout" /\ IsHigh(p[1], p[2])
                        THEN bigram_table[Cell(p[1], p[2])] ELSE 0]
<1>1. /\ tablePhase = "fill" /\ IsHigh(i, j) /\ bigram_table[c] + w <= MaxWeight
      /\ bigram_table' = [bigram_table EXCEPT ![c] = @ + w]
      /\ UNCHANGED <<tablePhase, row, index, ci, cj, high>>
  BY Zenon DEF AddHigh
<1>2. c \in DOMAIN bigram_table /\ bigram_table[c] \in 0 .. MaxWeight
  BY <1>1, HighCells
<1>3. counters[<<i, j>>] = bigram_table[c] /\ <<i, j>> \in Ids \X Ids
  BY <1>1
<1>4. ASSUME NEW a \in Ids, NEW b \in Ids, IsHigh(a, b), <<a, b>> # <<i, j>>
      PROVE  Cell(a, b) \in DOMAIN bigram_table /\ Cell(a, b) # c
  <2>1. HighCellsDistinct
    BY CellsAreApart
  <2>2. Cell(a, b) # c
    <3> DEFINE p == <<a, b>>
               q == <<i, j>>
    <3>1. /\ p \in Ids \X Ids /\ q \in Ids \X Ids /\ p # q
          /\ p[1] = a /\ p[2] = b /\ q[1] = i /\ q[2] = j
      BY <1>4
    <3> HIDE DEF p, q
    <3>2. tablePhase # "layout"
      BY <1>1
    <3> QED
      BY <1>1, <1>4, <2>1, <3>1, <3>2 DEF HighCellsDistinct
  <2> QED
    BY <1>1, <1>4, <2>2, HighCells
<1>5. ASSUME NEW p \in Ids \X Ids
      PROVE  (IF tablePhase' # "layout" /\ IsHigh(p[1], p[2])
              THEN bigram_table'[Cell(p[1], p[2])] ELSE 0)
               = IF p = <<i, j>> THEN counters[p] + w ELSE counters[p]
  <2>1. p = <<p[1], p[2]>> /\ p[1] \in Ids /\ p[2] \in Ids
    OBVIOUS
  <2>2. CASE p = <<i, j>>
    BY <1>1, <1>2, <1>3, <2>2
  <2>3. CASE p # <<i, j>> /\ IsHigh(p[1], p[2])
    <3>1. bigram_table'[Cell(p[1], p[2])] = bigram_table[Cell(p[1], p[2])]
      BY <1>1, <1>2, <1>4, <2>1, <2>3
    <3> QED
      BY <1>1, <2>3, <3>1
  <2>4. CASE p # <<i, j>> /\ ~ IsHigh(p[1], p[2])
    BY <2>4
  <2> QED
    BY <2>2, <2>3, <2>4
<1>6. [p \in Ids \X Ids |-> IF tablePhase' # "layout" /\ IsHigh(p[1], p[2])
                            THEN bigram_table'[Cell(p[1], p[2])] ELSE 0]
        = [counters EXCEPT ![<<i, j>>] = @ + w]
  <2> HIDE DEF c
  <2> QED
    BY <1>3, <1>5
<1>7. \A a, b : Cell(a, b)' = index[a] + b /\ Cell(a, b) = index[a] + b
  BY <1>1 DEF Cell
<1>8. tablePhase' = "fill" /\ "fill" # "done" /\ "fill" # "layout"
  BY <1>1
<1> QED
  BY <1>1, <1>3, <1>6, <1>8 DEF Counters!Add, Counters!Ids, Ids, Cell

(* The counters of the table. *)
TableCounters == [p \in Ids \X Ids |-> Counter(p)]

(* Only additions and the end of the scan are seen from outside. *)
LEMMA OthersKeepCounters ==
  ASSUME Inv, LayRow \/ AllocTable \/ StartScan \/ ScanCell \/ ScanRow
  PROVE  UNCHANGED TableCounters /\ tablePhase # "done" /\ tablePhase' # "done"
<1> DEFINE counters == [p \in Ids \X Ids |->
                        IF tablePhase # "layout" /\ IsHigh(p[1], p[2])
                        THEN bigram_table[Cell(p[1], p[2])] ELSE 0]
<1>1. ASSUME UNCHANGED counters, tablePhase # "done", tablePhase' # "done"
      PROVE  UNCHANGED TableCounters /\ tablePhase # "done" /\ tablePhase' # "done"
  BY <1>1 DEF TableCounters, Counter
<1>2. CASE LayRow
  <2>1. tablePhase = "layout" /\ tablePhase' = "layout"
    BY <1>2 DEF LayRow
  <2>2. UNCHANGED counters
    BY <2>1
  <2> QED
    BY <1>1, <2>1, <2>2
<1>3. CASE AllocTable
  <2>1. tablePhase = "layout" /\ tablePhase' = "fill" /\ bigram_table' = [c \in 0 .. index[VocabSize] - 1 |-> 0]
        /\ index' = index
    BY <1>3 DEF AllocTable
  <2>2. ASSUME NEW i \in Ids, NEW j \in Ids, IsHigh(i, j)
        PROVE  index[i] + j \in DOMAIN bigram_table'
    <3>1. row = VocabSize + 1
      BY <1>3 DEF AllocTable
    <3>2. /\ index[i] \in Nat /\ index[VocabSize] \in Nat
          /\ VocabSize \in Nat /\ i \in 0 .. VocabSize - 1 /\ j \in Nat
      BY <3>1, TableAssumption DEF Inv, TableTypeOK, Ids
    <3>3. index[i] + RowWidth(i) <= index[VocabSize]
      BY <3>1, <3>2 DEF Inv, Layout
    <3>4. j < RowWidth(i) /\ RowWidth(i) \in Nat
      BY <2>2, <3>2, HighFitsRow, RowWidthBound
    <3> QED
      BY <2>1, <3>2, <3>3, <3>4
  <2>3. ASSUME NEW i \in Ids, NEW j \in Ids, IsHigh(i, j)
        PROVE  bigram_table'[index[i] + j] = 0
    BY <2>1, <2>2, <2>3
  <2>4. counters = [p \in Ids \X Ids |-> 0]
    BY <2>1
  <2>5. \A p \in Ids \X Ids : IsHigh(p[1], p[2]) => bigram_table'[index[p[1]] + p[2]] = 0
    <3>1. \A p \in Ids \X Ids : p[1] \in Ids /\ p[2] \in Ids
      OBVIOUS
    <3> QED
      BY <2>3, <3>1
  <2>6. counters' = [p \in Ids \X Ids |-> 0]
    BY <2>1, <2>5 DEF Cell
  <2>7. UNCHANGED counters
    BY <2>4, <2>6
  <2> QED
    BY <1>1, <2>1, <2>7
<1>4. CASE StartScan \/ ScanCell \/ ScanRow
  <2>1. /\ tablePhase # "layout" /\ tablePhase # "done" /\ tablePhase' # "layout" /\ tablePhase' # "done"
        /\ index' = index /\ bigram_table' = bigram_table
    BY <1>4 DEF StartScan, ScanCell, ScanRow
  <2>2. UNCHANGED counters
    BY <2>1 DEF Cell
  <2> QED
    BY <1>1, <2>1, <2>2
<1> QED
  BY <1>2, <1>3, <1>4

LEMMA StepRefines ==
  ASSUME Inv, ScanInv, [TableNext]_tableVars
  PROVE  [Counters!Next]_(Counters!vars)
<1>1. CASE LayRow \/ AllocTable \/ StartScan \/ ScanCell \/ ScanRow
  <2>1. UNCHANGED TableCounters /\ tablePhase # "done" /\ tablePhase' # "done"
    BY <1>1, OthersKeepCounters
  <2> QED
    BY <2>1 DEF Counters!vars, Counters!Ids, Ids, TableCounters, Counter
<1>2. ASSUME NEW i \in Ids, NEW j \in Ids, NEW w \in 1 .. MaxWeight, AddHigh(i, j, w)
      PROVE  Counters!Next
  BY <1>2, AddHighAdds DEF Counters!Next, Counters!Ids, Ids
<1>3. CASE EndScan
  BY <1>3, EndScanEmits DEF Counters!Next
<1>4. CASE UNCHANGED tableVars
  BY <1>4 DEF tableVars, Counters!vars, Cell
<1> QED
  BY <1>1, <1>2, <1>3, <1>4 DEF TableNext

LEMMA InitScanInv == TableInit => ScanInv
<1> SUFFICES ASSUME TableInit PROVE ScanInv
  OBVIOUS
<1>1. RowWidth(0) \in 0 .. VocabSize /\ VocabSize \in Nat
  BY RowWidthBound, TableAssumption
<1> QED
  BY <1>1 DEF TableInit, ScanInv, Cursor, ListedAreCounted, CountedAreListed, ListedInOrder,
              Behind, Ids

(***************************************************************************)
(* The vector laid out by initParas, filled by build and listed by         *)
(* write_high_cooccur implements one counter for each frequent pair, and   *)
(* its list has every counter that is not zero once, in order, for every   *)
(* size of the vocabulary and every max_product that fits.                 *)
(***************************************************************************)
THEOREM TableIsPairCounts == TableSpec => ImplementsPairCounts
<1>1. TableInit => ScanInv
  BY InitScanInv
<1>2. Inv /\ ScanInv /\ [TableNext]_tableVars => ScanInv'
  BY NextScanInv
<1>3. TableInit => Counters!Init
  BY DEF TableInit, Counters!Init, Counters!Ids, Ids
<1>4. Inv /\ ScanInv /\ [TableNext]_tableVars => [Counters!Next]_(Counters!vars)
  BY StepRefines
<1> QED
  BY <1>1, <1>2, <1>3, <1>4, InvHolds, PTL DEF TableSpec, ImplementsPairCounts, Counters!Spec
-----------------------------------------------------------------------------
(***************************************************************************)
(* The table and the pass over the corpus together (CoBuild).  Its steps   *)
(* are steps of CoMat, and of the table because build adds weights only    *)
(* where both words have an id (WordInv).  The vector holds what the       *)
(* counters hold (MemberInv), and a list of all counters in strict order   *)
(* is the only one there is (OneListing).                                  *)
(***************************************************************************)
LEMMA BuildStepsCoMat == [BuildNext]_buildVars => [Next]_vars
BY DEF BuildNext, buildVars, Prepare, BuildStep, PairLow, PairHigh, Scan, WriteTable, Next

(* What build does is the pass over the corpus that CoMat describes: the   *)
(* table adds no step to it and takes none away.                           *)
THEOREM BuildIsCoMat == BuildSpec => Init /\ [][Next]_vars
BY BuildStepsCoMat, PTL DEF BuildSpec, BuildInit

(* A word with an id has one of the vocabulary. *)
WordInv ==
  /\ corpus \in Corpora /\ next \in Nat \ {0}
  /\ center \in Ids \cup {Oov, Empty}
  /\ exists => id \in Ids
  /\ win \in Seq([id : Ids \cup {0}, flag : BOOLEAN])
  /\ \A n \in DOMAIN win : win[n].flag => win[n].id \in Ids
  /\ id \in Ids \cup {0} /\ exists \in BOOLEAN
  /\ k \in Nat \ {0}

LEMMA InitWordInv == Init => WordInv
<1> SUFFICES ASSUME Init PROVE WordInv
  OBVIOUS
<1> DEFINE Entries == [id : Ids \cup {0}, flag : BOOLEAN]
           e == [id |-> 0, flag |-> FALSE]
<1>1. e \in Entries /\ e.flag = FALSE
  OBVIOUS
<1>2. win = <<e>>
  BY DEF Init
<1> HIDE DEF e, Entries
<1>3. win \in Seq(Entries) /\ \A n \in DOMAIN win : win[n].flag = FALSE
  BY <1>1, <1>2
<1>4. corpus \in Corpora /\ next = 2 /\ center = Empty /\ id = 0 /\ exists = FALSE /\ k = 1
  BY DEF Init
<1>5. win \in Seq(Entries) /\ \A n \in DOMAIN win : ~ win[n].flag
  BY <1>3
<1>6. ~ exists /\ exists \in BOOLEAN
  BY <1>4, Zenon
<1>7. k \in Nat \ {0} /\ next \in Nat \ {0}
  BY <1>4
<1> QED
  BY <1>4, <1>5, <1>6, <1>7 DEF WordInv, Entries

(* The word that is read next. *)
LEMMA ReadWordInv == WordInv /\ ReadCenter => WordInv'
<1> SUFFICES ASSUME WordInv, ReadCenter PROVE WordInv'
  OBVIOUS
<1>1. corpus.words \in Seq(Ids \cup {Oov}) /\ Empty \notin Ids /\ Oov \notin Ids
  BY BuildAssumption DEF WordInv
<1>2. /\ IF next <= Len(corpus.words)
         THEN center' = corpus.words[next] /\ next' = next + 1
         ELSE UNCHANGED <<center, next>>
      /\ IF center' = Empty
         THEN UNCHANGED <<id, exists, k, pc>>
         ELSE exists' = (center' # Oov) /\ id' = Lookup(center') /\ k' = 1
      /\ corpus' = corpus /\ win' = win
  BY DEF ReadCenter
<1>3. next \in Nat \ {0} /\ center \in Ids \cup {Oov, Empty}
  BY DEF WordInv
<1>4. center' \in Ids \cup {Oov, Empty} /\ next' \in Nat \ {0}
  <2>1. CASE next <= Len(corpus.words)
    <3>1. corpus.words[next] \in Ids \cup {Oov}
      BY <1>1, <1>3, <2>1
    <3> QED
      BY <1>2, <1>3, <2>1, <3>1
  <2>2. CASE ~ (next <= Len(corpus.words))
    BY <1>2, <1>3, <2>2
  <2> QED
    BY <2>1, <2>2
<1>5. CASE center' = Empty
  BY <1>2, <1>4, <1>5 DEF WordInv
<1>6. CASE center' # Empty
  <2>1. k' = 1 /\ exists' = (center' # Oov)
    BY <1>2, <1>6
  <2>2. id' = IF center' = Oov THEN id ELSE center'
    BY <1>2, <1>6 DEF Lookup
  <2>3. (exists' => id' \in Ids) /\ id' \in Ids \cup {0} /\ exists' \in BOOLEAN
    BY <1>4, <1>6, <2>1, <2>2 DEF WordInv
  <2> QED
    BY <1>2, <1>4, <2>1, <2>3 DEF WordInv
<1> QED
  BY <1>5, <1>6

(* The window takes the center in. *)
LEMMA SlideInv == WordInv /\ Slide => WordInv'
<1> SUFFICES ASSUME WordInv, Slide PROVE WordInv'
  OBVIOUS
<1> DEFINE Entries == [id : Ids \cup {0}, flag : BOOLEAN]
           Good == {x \in Entries : x.flag => x.id \in Ids}
           e == [id |-> id, flag |-> exists]
<1>1. e \in Good
  BY DEF WordInv
<1>2. win \in Seq(Good)
  <2>1. win \in Seq(Entries) /\ \A n \in DOMAIN win : win[n].flag => win[n].id \in Ids
    BY DEF WordInv
  <2> HIDE DEF Entries
  <2>2. /\ Len(win) \in Nat /\ win \in [1 .. Len(win) -> Entries]
        /\ DOMAIN win = 1 .. Len(win)
    BY <2>1
  <2>3. win \in [1 .. Len(win) -> Good]
    BY <2>1, <2>2
  <2> HIDE DEF Good
  <2> QED
    BY <2>2, <2>3, SeqDef
<1>3. win' = Slid(win, e) /\ UNCHANGED <<corpus, next, center, id, exists, k>>
  BY DEF Slide, text, word
<1> HIDE DEF e, Good
<1>4. win' \in Seq(Good)
  <2>1. CASE Len(win) >= Window
    <3>1. win # << >>
      BY <2>1, BuildAssumption
    <3> QED
      BY <1>1, <1>2, <1>3, <2>1, <3>1 DEF Slid
  <2>2. CASE ~ (Len(win) >= Window)
    BY <1>1, <1>2, <1>3, <2>2 DEF Slid
  <2> QED
    BY <2>1, <2>2
<1>5. win' \in Seq(Entries) /\ \A n \in DOMAIN win' : win'[n].flag => win'[n].id \in Ids
  <2>1. \A n \in DOMAIN win' : win'[n] \in Good
    BY <1>4
  <2>2. Good \subseteq Entries /\ \A x \in Good : x.flag => x.id \in Ids
    BY DEF Good
  <2> HIDE DEF Entries
  <2>3. win' \in Seq(Entries)
    BY <1>4, <2>2
  <2> QED
    BY <2>1, <2>2, <2>3
<1> QED
  BY <1>3, <1>5 DEF WordInv

LEMMA NextWordInv == WordInv /\ [Next]_vars => WordInv'
<1> SUFFICES ASSUME WordInv, [Next]_vars PROVE WordInv'
  OBVIOUS
<1>1. CASE FlushChunk \/ WriteRest \/ WriteHigh
  BY <1>1 DEF FlushChunk, WriteRest, WriteHigh, WordInv, text, word
<1>2. CASE ReadCenter
  BY <1>2, ReadWordInv
<1>3. CASE PairContext
  BY <1>3 DEF PairContext, WordInv, text, word
<1>4. CASE Slide
  BY <1>4, SlideInv
<1>5. CASE UNCHANGED vars
  BY <1>5 DEF vars, WordInv, text, word
<1> QED
  BY <1>1, <1>2, <1>3, <1>4, <1>5 DEF Next

(* The words and the weight of an addition. *)
LEMMA PairIsTyped ==
  ASSUME WordInv, PairHigh
  PROVE  /\ id \in Ids /\ win[k].id \in Ids /\ Weight(Len(win), k) \in Nat
         /\ Pairs!Add(id, win[k].id, Weight(Len(win), k))
         /\ AddHigh(id, win[k].id, Weight(Len(win), k))
<1>1. PairContext /\ win[k].flag /\ AddHigh(id, win[k].id, Weight(Len(win), k))
  BY DEF PairHigh
<1>2. IsHigh(id, win[k].id)
  BY <1>1 DEF AddHigh
<1>3. exists /\ k \in 1 .. Len(win) /\ Len(win) \in Nat
  BY <1>1 DEF PairContext, WordInv
<1>4. Weight(Len(win), k) \in Nat
  <2> DEFINE d == Len(win) - k + 1
  <2>1. d \in Nat \ {0} /\ Unit \in Nat
    BY <1>3, BuildAssumption
  <2> HIDE DEF d
  <2>2. Unit \div d \in Nat
    BY <2>1
  <2> QED
    BY <2>2 DEF d, Weight
<1>5. Pairs!Add(id, win[k].id, Weight(Len(win), k))
  BY <1>1, <1>2 DEF PairContext
<1> QED
  BY <1>1, <1>3, <1>4, <1>5 DEF WordInv

(* The vector and the counters, the list and what was handed over. *)
MemberInv ==
  /\ bigram_table = [c \in DOMAIN bigram_table |-> bigram_table[c]]
  /\ counts = TableCounters
  /\ closed = (tablePhase = "done")
  /\ closed => emitted = high

(* An addition is made to the cell and to the counter alike.  (One of      *)
(* weight 0 changes neither.)                                              *)
LEMMA AdditionsAgree ==
  ASSUME Inv, WordInv, MemberInv, PairHigh
  PROVE  MemberInv' /\ [TableNext]_tableVars
<1> DEFINE i == id
           j == win[k].id
           w == Weight(Len(win), k)
<1>1. i \in Ids /\ j \in Ids /\ w \in Nat /\ Pairs!Add(i, j, w) /\ AddHigh(i, j, w)
  BY PairIsTyped
<1> HIDE DEF i, j, w
<1>2. /\ tablePhase = "fill" /\ tablePhase' = "fill" /\ IsHigh(i, j)
      /\ bigram_table[Cell(i, j)] + w <= MaxWeight
      /\ bigram_table' = [bigram_table EXCEPT ![Cell(i, j)] = @ + w]
      /\ UNCHANGED <<row, index, ci, cj, high>>
  BY <1>1 DEF AddHigh
<1>3. counts' = [counts EXCEPT ![<<i, j>>] = @ + w] /\ UNCHANGED <<emitted, closed>>
  BY <1>1 DEF Pairs!Add
<1>4. Cell(i, j) \in DOMAIN bigram_table /\ bigram_table[Cell(i, j)] \in 0 .. MaxWeight
  BY <1>1, <1>2, HighCells
<1>5. bigram_table' = [c \in DOMAIN bigram_table' |-> bigram_table'[c]]
  BY <1>2
<1>6. CASE w = 0
  <2>1. bigram_table' = bigram_table
    BY <1>2, <1>4, <1>6 DEF MemberInv
  <2>2. TableCounters[<<i, j>>] = bigram_table[Cell(i, j)] /\ <<i, j>> \in Ids \X Ids
    BY <1>1, <1>2 DEF TableCounters, Counter
  <2>3. counts' = counts
    <3>1. counts[<<i, j>>] + w = counts[<<i, j>>]
      BY <1>4, <1>6, <2>2 DEF MemberInv
    <3>2. counts = [p \in Ids \X Ids |-> counts[p]]
      BY DEF MemberInv, TableCounters
    <3> QED
      BY <1>3, <2>2, <3>1, <3>2, Zenon
  <2>4. UNCHANGED TableCounters
    BY <1>2, <2>1 DEF TableCounters, Counter, Cell
  <2>5. UNCHANGED tableVars
    BY <1>2, <2>1 DEF tableVars
  <2> QED
    BY <1>2, <1>3, <1>5, <2>3, <2>4, <2>5 DEF MemberInv
<1>7. CASE w # 0
  <2>1. w \in 1 .. MaxWeight
    BY <1>1, <1>2, <1>4, <1>7, TableAssumption
  <2>2. Counters!Add(i, j, w)
    BY <1>1, <2>1, AddHighAdds
  <2>3. TableCounters' = [TableCounters EXCEPT ![<<i, j>>] = @ + w]
    BY <2>2 DEF Counters!Add, Counters!Ids, Ids, TableCounters, Counter
  <2>4. counts' = TableCounters'
    BY <1>3, <2>3 DEF MemberInv
  <2>5. TableNext
    BY <1>1, <2>1 DEF TableNext
  <2> QED
    BY <1>2, <1>3, <1>5, <2>4, <2>5 DEF MemberInv
<1> QED
  BY <1>6, <1>7

(* A set of numbers has a least element. *)
LEMMA LeastNumber ==
  ASSUME NEW S \in SUBSET Nat, S # {}
  PROVE  \E n \in S : \A m \in S : n <= m
<1> DEFINE R == OpToRel(<, Nat)
<1>1. IsWellFoundedOn(R, Nat)
  BY NatLessThanWellFounded
<1>2. R = {p \in Nat \X Nat : p[1] < p[2]}
  BY DEF OpToRel
<1> HIDE DEF R
<1>3. PICK n \in S : \A m \in S : ~ (<<m, n>> \in R)
  BY <1>1, WFMin
<1>4. ASSUME NEW m \in S, m < n PROVE FALSE
  <2>1. <<m, n>> \in Nat \X Nat /\ <<m, n>>[1] < <<m, n>>[2]
    BY <1>4
  <2> QED
    BY <1>2, <1>3, <2>1
<1> QED
  BY <1>3, <1>4

Strict(s) == \A n, m \in DOMAIN s : n < m => Earlier(s[n], s[m])

(* Where two lists agree up to m, the member of s there comes no earlier   *)
(* in t.                                                                   *)
LEMMA ComesNoEarlier ==
  ASSUME NEW s \in Seq(Entry), NEW t \in Seq(Entry), Strict(s),
         \A n \in DOMAIN s : \E l \in DOMAIN t : s[n] = t[l],
         NEW m \in DOMAIN s,
         \A n \in Nat \ {0} : n < m => n \in DOMAIN s /\ n \in DOMAIN t /\ s[n] = t[n]
  PROVE  \E l \in DOMAIN t : m <= l /\ s[m] = t[l]
<1>1. PICK l \in DOMAIN t : s[m] = t[l]
  OBVIOUS
<1>2. l \in Nat \ {0} /\ m \in Nat \ {0} /\ s[m] \in Entry
  OBVIOUS
<1>3. ~ (l < m)
  <2> SUFFICES ASSUME l < m PROVE FALSE
    OBVIOUS
  <2>1. l \in DOMAIN s /\ s[l] = s[m]
    BY <1>1, <1>2
  <2>2. Earlier(s[m], s[m])
    BY <2>1 DEF Strict
  <2>3. s[m].i \in Int /\ s[m].j \in Int
    BY <1>2, TableAssumption DEF Entry, Ids
  <2> QED
    BY <2>2, <2>3 DEF Earlier
<1> QED
  BY <1>1, <1>2, <1>3

(* Two lists of the same records in strict order are the same.             *)
LEMMA OneListing ==
  ASSUME NEW s \in Seq(Entry), NEW t \in Seq(Entry), Strict(s), Strict(t),
         {s[n] : n \in DOMAIN s} = {t[n] : n \in DOMAIN t}
  PROVE  s = t
<1> DEFINE Same(n) == (n \in DOMAIN s <=> n \in DOMAIN t) /\ (n \in DOMAIN s => s[n] = t[n])
           Wrong == {n \in Nat \ {0} : ~ Same(n)}
<1>1. /\ \A n \in DOMAIN s : \E l \in DOMAIN t : s[n] = t[l]
      /\ \A n \in DOMAIN t : \E l \in DOMAIN s : t[n] = s[l]
  <2>1. \A n \in DOMAIN s : s[n] \in {t[l] : l \in DOMAIN t}
    OBVIOUS
  <2>2. \A n \in DOMAIN t : t[n] \in {s[l] : l \in DOMAIN s}
    OBVIOUS
  <2> QED
    BY <2>1, <2>2
<1>2. /\ Len(s) \in Nat /\ DOMAIN s = 1 .. Len(s) /\ \A n \in DOMAIN s : s[n] \in Entry
      /\ Len(t) \in Nat /\ DOMAIN t = 1 .. Len(t) /\ \A n \in DOMAIN t : t[n] \in Entry
  OBVIOUS
<1>3. Wrong = {}
  <2> SUFFICES ASSUME Wrong # {} PROVE FALSE
    OBVIOUS
  <2>1. PICK m \in Wrong : \A n \in Wrong : m <= n
    BY LeastNumber
  <2>2. m \in Nat \ {0} /\ ~ Same(m) /\ \A n \in Nat \ {0} : n < m => Same(n)
    BY <2>1
  <2>3. \A n \in Nat \ {0} : n < m /\ (m \in DOMAIN s \/ m \in DOMAIN t)
          => n \in DOMAIN s /\ n \in DOMAIN t /\ s[n] = t[n]
    BY <1>2, <2>2
  <2> HIDE DEF Same, Wrong
  <2>4. ASSUME m \in DOMAIN s
        PROVE  \E l \in DOMAIN t : m <= l /\ s[m] = t[l]
    <3>1. \A n \in Nat \ {0} : n < m => n \in DOMAIN s /\ n \in DOMAIN t /\ s[n] = t[n]
      BY <2>3, <2>4
    <3> QED
      BY <1>1, <2>4, <3>1, ComesNoEarlier
  <2>5. ASSUME m \in DOMAIN t
        PROVE  \E l \in DOMAIN s : m <= l /\ t[m] = s[l]
    <3>1. \A n \in Nat \ {0} : n < m => n \in DOMAIN t /\ n \in DOMAIN s /\ t[n] = s[n]
      BY <2>3, <2>5
    <3> QED
      BY <1>1, <2>5, <3>1, ComesNoEarlier
  <2> USE DEF Same
  <2>6. m \in DOMAIN s /\ m \in DOMAIN t
    <3>1. m \in DOMAIN s \/ m \in DOMAIN t
      BY <2>2
    <3> QED
      BY <1>2, <2>2, <2>4, <2>5, <3>1
  <2>7. PICK l \in DOMAIN t : m <= l /\ s[m] = t[l]
    BY <2>4, <2>6
  <2>8. PICK n \in DOMAIN s : m <= n /\ t[m] = s[n]
    BY <2>5, <2>6
  <2>9. s[m] # t[m]
    BY <2>2, <2>6
  <2>10. m < l /\ m < n
    <3>1. m \in Nat /\ l \in Nat /\ n \in Nat
      BY <1>2, <2>2
    <3>2. m # l /\ m # n
      BY <2>7, <2>8, <2>9
    <3> QED
      BY <2>7, <2>8, <3>1, <3>2
  <2>11. Earlier(t[m], s[m]) /\ Earlier(s[m], t[m])
    BY <2>6, <2>7, <2>8, <2>10 DEF Strict
  <2>12. /\ s[m].i \in Int /\ s[m].j \in Int
         /\ t[m].i \in Int /\ t[m].j \in Int
    <3>1. s[m] \in Entry /\ t[m] \in Entry
      BY <1>2, <2>6
    <3>2. Ids \subseteq Int
      BY TableAssumption DEF Ids
    <3> QED
      BY <3>1, <3>2 DEF Entry
  <2> QED
    BY <2>11, <2>12 DEF Earlier
<1>4. \A n \in Nat \ {0} : (n \in DOMAIN s <=> n \in DOMAIN t) /\ (n \in DOMAIN s => s[n] = t[n])
  BY <1>3
<1>5. DOMAIN s = DOMAIN t
  <2>1. DOMAIN s \subseteq Nat \ {0} /\ DOMAIN t \subseteq Nat \ {0}
    BY <1>2
  <2> QED
    BY <1>4, <2>1
<1>6. Len(s) = Len(t)
  <2>1. ~ (Len(s) < Len(t))
    <3>1. Len(s) < Len(t) => Len(t) \in DOMAIN t /\ Len(t) \notin DOMAIN s
      BY <1>2
    <3> QED
      BY <1>5, <3>1
  <2>2. ~ (Len(t) < Len(s))
    <3>1. Len(t) < Len(s) => Len(s) \in DOMAIN s /\ Len(s) \notin DOMAIN t
      BY <1>2
    <3> QED
      BY <1>5, <3>1
  <2>3. Len(s) \in Nat /\ Len(t) \in Nat
    OBVIOUS
  <2> QED
    BY <2>1, <2>2, <2>3
<1>7. \A n \in 1 .. Len(s) : s[n] = t[n]
  BY <1>2, <1>4
<1> QED
  BY <1>6, <1>7, SeqEqual

(* The list of the scan is what the counters emit.                         *)
LEMMA ListsAgree ==
  ASSUME Inv, ScanInv, MemberInv, WriteTable
  PROVE  MemberInv'
<1>1. /\ tablePhase = "scan" /\ ci = VocabSize /\ tablePhase' = "done"
      /\ UNCHANGED <<index, bigram_table, high>>
  BY DEF WriteTable, EndScan
<1>2. /\ closed' = TRUE /\ UNCHANGED counts
      /\ emitted' \in Seq(Entry) /\ Pairs!IsListing(emitted')
  BY DEF WriteTable, WriteHigh, Pairs!Emit, Pairs!Ids, Ids, Entry
<1>3. high \in Seq(Entry)
  BY DEF Inv, TableTypeOK, Entry
<1>4. Counters!IsListing(high)
  BY <1>1, ScanListsAll
<1> DEFINE s == emitted'
           t == high
<1>5. s \in Seq(Entry) /\ t \in Seq(Entry) /\ Strict(s) /\ Strict(t)
  BY <1>2, <1>3, <1>4 DEF Pairs!IsListing, Counters!IsListing, Strict, Earlier
<1>6. {s[n] : n \in DOMAIN s} = {t[n] : n \in DOMAIN t}
  <2>1. {s[n] : n \in DOMAIN s} =
          {[i |-> p[1], j |-> p[2], weight |-> counts[p]] : p \in {q \in Ids \X Ids : counts[q] > 0}}
    BY <1>2 DEF Pairs!IsListing, Pairs!Ids, Ids
  <2>2. {t[n] : n \in DOMAIN t} =
          {[i |-> p[1], j |-> p[2], weight |-> TableCounters[p]] :
             p \in {q \in Ids \X Ids : TableCounters[q] > 0}}
    BY <1>4 DEF Counters!IsListing, Counters!Ids, Ids, TableCounters, Counter
  <2> QED
    BY <2>1, <2>2 DEF MemberInv
<1>7. s = t
  <2> HIDE DEF s, t
  <2> QED
    BY <1>5, <1>6, OneListing
<1>8. UNCHANGED TableCounters
  BY <1>1 DEF TableCounters, Counter, Cell
<1> QED
  BY <1>1, <1>2, <1>7, <1>8 DEF MemberInv

(* The other steps change one side at most, and not what the other sees.   *)
LEMMA OthersAgree ==
  ASSUME Inv, MemberInv, Prepare \/ BuildStep \/ PairLow \/ Scan \/ UNCHANGED buildVars
  PROVE  MemberInv' /\ [TableNext]_tableVars
<1>1. CASE Prepare \/ Scan
  <2>1. LayRow \/ AllocTable \/ StartScan \/ ScanCell \/ ScanRow
    BY <1>1 DEF Prepare, Scan
  <2>2. UNCHANGED <<counts, emitted, closed>>
    BY <1>1 DEF Prepare, Scan, vars, table
  <2>3. UNCHANGED TableCounters /\ tablePhase # "done" /\ tablePhase' # "done"
    BY <2>1, OthersKeepCounters
  <2>4. bigram_table' = [c \in DOMAIN bigram_table' |-> bigram_table'[c]]
    BY <2>1 DEF MemberInv, LayRow, AllocTable, StartScan, ScanCell, ScanRow
  <2> QED
    BY <2>1, <2>2, <2>3, <2>4 DEF MemberInv, TableNext
<1>2. CASE BuildStep \/ PairLow \/ UNCHANGED buildVars
  <2>1. UNCHANGED tableVars
    BY <1>2 DEF BuildStep, PairLow, buildVars
  <2>2. UNCHANGED table
    <3>1. CASE BuildStep
      BY <3>1 DEF BuildStep, FlushChunk, ReadCenter, Slide, WriteRest
    <3>2. CASE PairLow
      BY <3>2 DEF PairLow, PairContext
    <3>3. CASE UNCHANGED buildVars
      BY <3>3 DEF buildVars, vars
    <3> QED
      BY <1>2, <3>1, <3>2, <3>3
  <2> QED
    BY <2>1, <2>2 DEF MemberInv, table, tableVars, TableCounters, Counter, Cell
<1> QED
  BY <1>1, <1>2

BuildInv == Inv /\ ScanInv /\ WordInv /\ MemberInv

LEMMA BuildNextInv == BuildInv /\ [BuildNext]_buildVars => BuildInv' /\ [TableNext]_tableVars
<1> SUFFICES ASSUME BuildInv, [BuildNext]_buildVars PROVE BuildInv' /\ [TableNext]_tableVars
  OBVIOUS
<1> USE DEF BuildInv
<1>1. MemberInv' /\ [TableNext]_tableVars
  <2>1. CASE PairHigh
    BY <2>1, AdditionsAgree
  <2>2. CASE WriteTable
    BY <2>2, ListsAgree DEF WriteTable, TableNext
  <2>3. CASE Prepare \/ BuildStep \/ PairLow \/ Scan \/ UNCHANGED buildVars
    BY <2>3, OthersAgree
  <2> QED
    BY <2>1, <2>2, <2>3 DEF BuildNext
<1>2. Inv' /\ ScanInv'
  BY <1>1, NextInv, NextScanInv
<1>3. WordInv'
  BY BuildStepsCoMat, NextWordInv
<1> QED
  BY <1>1, <1>2, <1>3

LEMMA BuildInitInv == BuildInit => BuildInv
<1> SUFFICES ASSUME BuildInit PROVE BuildInv
  OBVIOUS
<1>1. Init /\ TableInit
  BY DEF BuildInit
<1>2. MemberInv
  BY <1>1 DEF Init, Pairs!Init, Pairs!Ids, Ids, TableInit, MemberInv, TableCounters, Counter
<1> QED
  BY <1>1, <1>2, InitInv, InitScanInv, InitWordInv DEF BuildInv

(***************************************************************************)
(* Within build the table is used as BigramTable says, so all that was     *)
(* proved of it holds there: build indexes the vector with ids of the      *)
(* vocabulary only.                                                        *)
(***************************************************************************)
THEOREM BuildUsesTable == BuildSpec => TableSpec
BY BuildInitInv, BuildNextInv, PTL DEF BuildSpec, BuildInit, TableSpec

(***************************************************************************)
(* What write_high_cooccur lists is what build has counted for each        *)
(* frequent pair, once and in order, for every corpus of one line, every   *)
(* vocabulary and every max_product that fits.                             *)
(***************************************************************************)
THEOREM ListingIsTheCount == BuildSpec => []ListedIsCounted
<1>1. BuildInv => ListedIsCounted
  <2> SUFFICES ASSUME BuildInv PROVE ListedIsCounted
    OBVIOUS
  <2>1. counts = TableCounters /\ (closed => emitted = high)
    BY DEF BuildInv, MemberInv
  <2>2. ASSUME tablePhase # "layout", NEW i \in Ids, NEW j \in Ids
        PROVE  counts[<<i, j>>] = IF IsHigh(i, j) THEN bigram_table[Cell(i, j)] ELSE 0
    BY <2>1, <2>2 DEF TableCounters, Counter
  <2> QED
    BY <2>1, <2>2 DEF ListedIsCounted
<1> QED
  BY <1>1, BuildInitInv, BuildNextInv, PTL DEF BuildSpec
=============================================================================
