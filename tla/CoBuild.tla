------------------------------- MODULE CoBuild -------------------------------
(***************************************************************************)
(* A CoMat object from its constructor to the end of build: initParas lays *)
(* out the table, build counts in it and in the list, write_high_cooccur   *)
(* reads it out.  BigramTable and CoMat are joined: what CoMat adds to a   *)
(* counter of PairCounts is added to a cell of the vector in the same      *)
(* step, and the counters are handed over when the scan of the vector ends.*)
(***************************************************************************)
EXTENDS CoMat, BigramTable

buildVars == <<vars, tableVars>>

BuildInit == Init /\ TableInit

(* initParas, called by the constructor: nothing has been read yet. *)
Prepare ==
  /\ LayRow \/ AllocTable
  /\ UNCHANGED vars

(* What build does without the table. *)
BuildStep ==
  /\ tablePhase = "fill"
  /\ FlushChunk \/ ReadCenter \/ Slide \/ WriteRest
  /\ UNCHANGED tableVars

(* A context word that is not frequent with the center, or has no id. *)
PairLow ==
  /\ tablePhase = "fill"
  /\ PairContext
  /\ win[k].flag => ~ IsHigh(id, win[k].id)
  /\ UNCHANGED tableVars

(* bigram_table[index[id] + ids[i]] += weight, also for a word without id, *)
(* of which ids has a number all the same.                                 *)
PairHigh_AnyFlag ==
  /\ PairContext
  /\ AddHigh(id, win[k].id, Weight(Len(win), k))

(* bigram_table[index[id] + ids[i]] += weight *)
PairHigh ==
  /\ PairContext
  /\ win[k].flag
  /\ AddHigh(id, win[k].id, Weight(Len(win), k))

(* The scan of write_high_cooccur, and the file that its list is written to. *)
Scan ==
  /\ pc = "rest"
  /\ StartScan \/ ScanCell \/ ScanRow
  /\ UNCHANGED vars

WriteTable == WriteHigh /\ EndScan

BuildNext ==
  \/ Prepare
  \/ BuildStep
  \/ PairLow
  \/ PairHigh
  \/ Scan
  \/ WriteTable

BuildSpec == BuildInit /\ [][BuildNext]_buildVars /\ WF_buildVars(BuildNext)

-----------------------------------------------------------------------------
(* What a pair has gathered in the vector is what the pass over the corpus *)
(* counted for it, and what write_high_cooccur lists, recomputing the row  *)
(* lengths from index, is each count once and in order: unchecked indices  *)
(* and two loops with bounds of their own lie in between.                  *)
ListedIsCounted ==
  /\ tablePhase # "layout" =>
       \A i, j \in Ids :
         counts[<<i, j>>] = IF IsHigh(i, j) THEN bigram_table[Cell(i, j)] ELSE 0
  /\ closed => emitted = high
==============================================================================
