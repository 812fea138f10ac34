------------------------------ MODULE KWayMerge ------------------------------
(***************************************************************************)
(* What CoMat::merge_files promises: the records of all files are taken in *)
(* order, the least first, and records of one cell are added up.           *)
(***************************************************************************)
EXTENDS CoRecords

CONSTANTS
  Files,   \* the files
  Inputs,  \* the possible contents of the files
  None     \* no record

VARIABLES
  rest,  \* the records of each file that were not taken
  acc,   \* the record being added up, None before the first
  out,   \* the merged file
  done

vars == <<rest, acc, out, done>>

Init ==
  /\ rest \in Inputs
  /\ acc = None
  /\ out = << >>
  /\ done = FALSE

Least(f) ==
  /\ rest[f] # << >>
  /\ \A g \in Files : rest[g] # << >> => ~ Precedes(Head(rest[g]), Head(rest[f]))

Take(f) ==
  /\ Least(f)
  /\ rest' = [rest EXCEPT ![f] = Tail(@)]
  /\ LET r == Head(rest[f])
     IN  IF acc # None /\ SameCell(r, acc)
         THEN /\ acc' = [acc EXCEPT !.weight = @ + r.weight]
              /\ out' = out
         ELSE /\ acc' = r
              /\ out' = IF acc = None THEN out ELSE Append(out, acc)
  /\ UNCHANGED done

Finish ==
  /\ \A f \in Files : rest[f] = << >>
  /\ acc # None
  /\ ~ done
  /\ out' = Append(out, acc)
  /\ done' = TRUE
  /\ UNCHANGED <<rest, acc>>

Next == (\E f \in Files : Take(f)) \/ Finish

Spec == Init /\ [][Next]_vars
=============================================================================
