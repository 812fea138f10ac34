------------------------------ MODULE MergeFiles ------------------------------
(***************************************************************************)
(* CoMat::merge_files: the temporary files are merged into log/cooccur.bin *)
(* through the heap of priority_queue.cpp, which holds the next record of  *)
(* each file.  One step is one read, one pop or one comparison of the      *)
(* heap, so that the heap is seen as the code leaves it.  (The names leave *)
(* room for those of CoMat, whose method this is: its proofs extend both.) *)
(***************************************************************************)
EXTENDS CoRecords

CONSTANTS
  FileAllNums,  \* fileAllNums
  Inputs,       \* the contents the files may have
  Garbage,      \* what an uninitialised record may hold
  None          \* no record, for the abstract specification

Files == 0 .. FileAllNums - 1

ASSUME MergeAssumption ==
  /\ FileAllNums \in Nat \ {0}
  /\ Inputs \subseteq [Files -> Seq([i : Nat, j : Nat, weight : Nat])]
  /\ Garbage \subseteq [i : Nat, j : Nat, weight : Nat]

VARIABLES
  input,       \* what the files held at first
  fin,         \* what remains to be read of each
  heap,        \* que._data
  new, old,    \* _new and old
  nums, cur,   \* nums and i
  fout, counter,
  place, phase, back  \* where the heap is being repaired, and what comes after

streams == <<input, fin>>
records == <<new, old>>
mergeVars == <<streams, heap, records, nums, cur, fout, counter, place, phase, back>>

(* A record as CoRec_id, with the number of its file. *)
Tagged(r, f) == [i |-> r.i, j |-> r.j, weight |-> r.weight, file |-> f]

(* What is written of it. *)
Plain(r) == Rec(r.i, r.j, r.weight)

MergeInit ==
  /\ input \in Inputs
  /\ fin = input
  /\ heap = [f \in Files |-> Tagged(Rec(0, 0, 0), 0)]
  /\ \E g \in Garbage : new = Tagged(g, 0) /\ old = Tagged(g, 0)
  /\ nums = FileAllNums
  /\ cur = 0
  /\ fout = << >>
  /\ counter = 0
  /\ place = 0
  /\ phase = "fill"
  /\ back = "fill"

-----------------------------------------------------------------------------
(* priority_queue::insert and priority_queue::remove *)

Greater(a, b) == Precedes(b, a)

(* One of the two entries is lost. *)
Swapped_Copied(h, a, b) == [h EXCEPT ![a] = h[b]]

Swapped(h, a, b) == [h EXCEPT ![a] = h[b], ![b] = h[a]]

(* (j - 1) / 2 rounds towards 0: the root is its own parent. *)
Parent(n) == IF n = 0 THEN 0 ELSE (n - 1) \div 2

Insert(r, size, then) ==
  /\ heap' = [heap EXCEPT ![size - 1] = r]
  /\ place' = size - 1
  /\ phase' = "up"
  /\ back' = then

SiftUp ==
  /\ phase = "up"
  /\ IF Greater(heap[Parent(place)], heap[place])
     THEN /\ heap' = Swapped(heap, Parent(place), place)
          /\ place' = Parent(place)
          /\ UNCHANGED phase
     ELSE /\ phase' = back
          /\ UNCHANGED <<heap, place>>
  /\ UNCHANGED <<streams, records, nums, cur, fout, counter, back>>

RemoveTop ==
  /\ heap' = [heap EXCEPT ![0] = heap[nums - 1]]
  /\ place' = 0
  /\ phase' = "down"

(* The child that is compared with its parent: of two, the greater one. *)
Child(n) ==
  LET l == 2 * n + 1
  IN  IF l = nums - 2 \/ Greater(heap[l], heap[l + 1]) THEN l ELSE l + 1

SiftDown ==
  /\ phase = "down"
  /\ IF 2 * place + 1 < nums - 1 /\ Greater(heap[place], heap[Child(place)])
     THEN /\ heap' = Swapped(heap, place, Child(place))
          /\ place' = Child(place)
          /\ phase' = IF 2 * place + 1 = nums - 2 THEN "read" ELSE "down"
     ELSE /\ phase' = "read"
          /\ UNCHANGED <<heap, place>>
  /\ UNCHANGED <<streams, records, nums, cur, fout, counter, back>>

-----------------------------------------------------------------------------
(* CoMat::merge_files *)

(* The first record of each file enters the heap.  A read that fails       *)
(* leaves _new as it was, and is not noticed.                              *)
Fill ==
  /\ phase = "fill"
  /\ cur < FileAllNums
  /\ IF fin[cur] = << >>
     THEN /\ new' = Tagged(new, cur)
          /\ UNCHANGED fin
     ELSE /\ new' = Tagged(Head(fin[cur]), cur)
          /\ fin' = [fin EXCEPT ![cur] = Tail(@)]
  /\ Insert(new', cur + 1, "fill")
  /\ cur' = cur + 1
  /\ UNCHANGED <<input, old, nums, fout, counter>>

PopFirst ==
  /\ phase = "fill"
  /\ cur = FileAllNums
  /\ old' = heap[0]
  /\ cur' = heap[0].file
  /\ RemoveTop
  /\ UNCHANGED <<streams, new, nums, fout, counter, back>>

(* The next record of the file whose record was popped. *)
Refill ==
  /\ phase = "read"
  /\ IF fin[cur] = << >>
     THEN /\ nums' = nums - 1
          /\ phase' = "pop"
          /\ UNCHANGED <<fin, new, heap, place, back>>
     ELSE /\ new' = Tagged(Head(fin[cur]), cur)
          /\ fin' = [fin EXCEPT ![cur] = Tail(@)]
          /\ Insert(new', nums, "pop")
          /\ UNCHANGED nums
  /\ UNCHANGED <<input, old, cur, fout, counter>>

(* The last of several records of a cell wins. *)
Joined_Overwrite(a, b) == b

(* old.val += _new.val *)
Joined(a, b) == [a EXCEPT !.weight = @ + b.weight]

(* merge_write(que.top(), old, fout), and the top leaves the heap. *)
PopNext ==
  /\ phase = "pop"
  /\ nums > 0
  /\ IF SameCell(heap[0], old)
     THEN /\ old' = Joined(old, heap[0])
          /\ UNCHANGED <<fout, counter>>
     ELSE /\ fout' = Append(fout, Plain(old))
          /\ counter' = counter + 1
          /\ old' = heap[0]
  /\ cur' = heap[0].file
  /\ RemoveTop
  /\ UNCHANGED <<streams, new, nums, back>>

WriteLast ==
  /\ phase = "pop"
  /\ nums = 0
  /\ fout' = Append(fout, Plain(old))
  /\ phase' = "done"
  /\ UNCHANGED <<streams, heap, records, nums, cur, counter, place, back>>

MergeNext == SiftUp \/ SiftDown \/ Fill \/ PopFirst \/ Refill \/ PopNext \/ WriteLast

MergeSpec == MergeInit /\ [][MergeNext]_mergeVars

-----------------------------------------------------------------------------
(* Before the first record was popped. *)
Filling == phase = "fill" \/ (phase = "up" /\ back = "fill")

(* The places of the heap that hold a record not yet taken. *)
Live ==
  IF phase \in {"down", "read"} THEN 0 .. nums - 2
  ELSE IF Filling THEN 0 .. cur - 1
  ELSE 0 .. nums - 1

Entry == [i : Nat, j : Nat, weight : Nat, file : Files]

MergeTypeOK ==
  /\ \A f \in Files : \E n \in 0 .. Len(input[f]) :
        fin[f] = SubSeq(input[f], n + 1, Len(input[f]))
  /\ heap \in [Files -> Entry]
  /\ new \in Entry /\ old \in Entry
  /\ nums \in 0 .. FileAllNums /\ cur \in 0 .. FileAllNums /\ place \in Files
  /\ fout \in Seq([i : Nat, j : Nat, weight : Nat]) /\ counter \in Nat
  /\ phase \in {"fill", "up", "down", "read", "pop", "done"}
  /\ back \in {"fill", "pop"}

(* The swaps of the heap and the stale fileId of _new never make two       *)
(* records of one file, or none of a file that has more, wait in the heap: *)
(* no file is forgotten before its end and nums counts the open ones (and  *)
(* the variables have their types).                                        *)
OneEntryPerFile ==
  /\ MergeTypeOK
  /\ \A p, q \in Live : heap[p].file = heap[q].file => p = q
  /\ phase = "pop" => \A f \in Files :
       fin[f] # << >> => \E p \in Live : heap[p].file = f

(* No weight is lost or invented in any cell, whatever the order in which  *)
(* the records leave the heap.                                             *)
Weigh(r, c) == IF SameCell(r, c) THEN r.weight ELSE 0
Total(fs, c) == SumFunction([f \in Files |-> WeightOf(fs[f], c.i, c.j)])
Waiting(c) == SumFunction([p \in Live |-> Weigh(heap[p], c)])

WeightConserved ==
  phase \in {"pop", "done"} =>
    \A c \in (UNION {Range(input[f]) : f \in Files}) \cup Range(fout) :
      Total(input, c) = WeightOf(fout, c.i, c.j) + Total(fin, c)
                        + (IF phase = "done" THEN 0 ELSE Weigh(old, c) + Waiting(c))

FileRest(f) ==
  LET mine == {p \in Live : heap[p].file = f}
  IN  IF mine = {} THEN fin[f]
      ELSE <<Plain(heap[CHOOSE p \in mine : TRUE])>> \o fin[f]

Merge == INSTANCE KWayMerge WITH
  rest <- [f \in Files |-> FileRest(f)],
  acc  <- IF Filling THEN None ELSE Plain(old),
  out  <- fout,
  done <- phase = "done"

(* merge_files is a merge: the record it takes is always a least one, equal*)
(* cells are added up, and so the output has every cell once, in order.    *)
ImplementsKWayMerge == Merge!Spec

-----------------------------------------------------------------------------
(* "priority queue, a min-heap" (cooccur.cpp:150): between two operations  *)
(* no entry is greater than its children.                                  *)
HeapOrder ==
  phase = "pop" => \A p \in Live : ~ Greater(heap[Parent(p)], heap[p])
=============================================================================
