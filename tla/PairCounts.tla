----------------------------- MODULE PairCounts -----------------------------
(***************************************************************************)
(* What the dense corner of the co-occurrence matrix promises to           *)
(* CoMat::build: a counter for every (center, context) pair that is        *)
(* frequent enough, to which weights are added, and which is handed over   *)
(* once, as the list of its non-zero counters in (center, context) order.  *)
(* How the counters are laid out in memory is the business of BigramTable. *)
(***************************************************************************)
EXTENDS Integers, Sequences

CONSTANTS
  VocabSize,    \* number of words; word ids are 0 .. VocabSize - 1
  IsHigh(_, _), \* IsHigh(i, j): the pair has a counter
  MaxWeight     \* bound on a counter

Ids == 0 .. VocabSize - 1

VARIABLES
  counts,   \* the counter of each pair
  emitted,  \* the list that was handed over
  closed    \* whether the list was handed over

vars == <<counts, emitted, closed>>

Init ==
  /\ counts = [p \in Ids \X Ids |-> 0]
  /\ emitted = << >>
  /\ closed = FALSE

Add(i, j, w) ==
  /\ ~closed
  /\ IsHigh(i, j)
  /\ counts[<<i, j>>] + w <= MaxWeight
  /\ counts' = [counts EXCEPT ![<<i, j>>] = @ + w]
  /\ UNCHANGED <<emitted, closed>>

(* Every non-zero counter, once, in row-major order. *)
IsListing(s) ==
  /\ {s[k] : k \in DOMAIN s} =
       { [i |-> p[1], j |-> p[2], weight |-> counts[p]] :
           p \in {q \in Ids \X Ids : counts[q] > 0} }
  /\ \A k, l \in DOMAIN s :
       k < l => \/ s[k].i < s[l].i
                \/ s[k].i = s[l].i /\ s[k].j < s[l].j

Emit ==
  /\ ~closed
  /\ closed' = TRUE
  /\ emitted' \in Seq([i : Ids, j : Ids, weight : 1 .. MaxWeight])
  /\ IsListing(emitted')
  /\ UNCHANGED counts

Next ==
  \/ \E i, j \in Ids, w \in 1 .. MaxWeight : Add(i, j, w)
  \/ Emit

Spec == Init /\ [][Next]_vars
=============================================================================
