------------------------------- MODULE TopWords -------------------------------
(***************************************************************************)
(* Train::most_similary and getTop.  The weights of the words (the product *)
(* of the matrix with a row of it, each divided by the length of its row)  *)
(* are floating-point numbers that are not computed here: any weights.     *)
(***************************************************************************)
EXTENDS Vocabulary

CONSTANT
    Weights         \* the weights, natural numbers

ASSUME WeightsAssumption == Weights \subseteq Nat

VARIABLES
    weight,         \* vec of getTop: the weight of each row
    num,            \* how many words are asked for, at most the size of the vocabulary
    heap,           \* wid: the ids in the priority queue
    next,           \* i of the second loop
    top             \* the ids of the answer

topVars == <<weight, num, heap, next, top>>

TopInit == weight = << >> /\ num = 0 /\ heap = {} /\ next = 0 /\ top = << >>

\* W1->rows()
rows == Cardinality(DOMAIN weight)

\* operator< of WID: top() is any of the ids with the greatest weight, and the
\* std::priority_queue keeps no other order.  (The mutant turns operator< round.)
Tops_Least(ids) == {i \in ids : \A j \in ids : weight[i] <= weight[j]}
Tops(ids) == {i \in ids : \A j \in ids : weight[i] >= weight[j]}

\* most_similary, the assertion of getTop, and its first loop.
StartQuery(n, rowCount) ==
    /\ num' = Min({n, size})
    /\ weight' \in [0 .. rowCount - 1 -> Weights]
    /\ heap' = 0 .. num' - 1
    /\ next' = num'
    /\ top' = << >>
    /\ stage' = IF num' < rowCount THEN "replace" ELSE "aborted"

\* A weight that is above the top of the queue takes its place.
Above(i, t) == weight[i] > weight[t]

Replace ==
    /\ stage = "replace" /\ next < rows /\ heap # {}
    /\ \E t \in Tops(heap) :
         heap' = IF Above(next, t) THEN (heap \ {t}) \cup {next} ELSE heap
    /\ next' = next + 1
    /\ UNCHANGED <<stage, weight, num, top>>

\* top() of an empty queue is undefined.
ReplaceNone ==
    /\ stage = "replace" /\ next < rows /\ heap = {}
    /\ stage' = "undefined"
    /\ UNCHANGED topVars

Output ==
    /\ stage = "replace" /\ next = rows /\ heap # {}
    /\ \E t \in Tops(heap) : top' = Append(top, t) /\ heap' = heap \ {t}
    /\ UNCHANGED <<stage, weight, num, next>>

\* vocab[id] for all ids of the answer, which throws for an id that has no word.
Answer ==
    /\ stage = "replace" /\ next = rows /\ heap = {}
    /\ stage' = IF Range(top) \subseteq DOMAIN itoa THEN "answered" ELSE "threw"
    /\ UNCHANGED topVars

Query == Replace \/ ReplaceNone \/ Output \/ Answer
-----------------------------------------------------------------------------
(***************************************************************************)
(* The answer has as many different words as were asked for, those of      *)
(* greater weight first, and the first of them is the best of all words:   *)
(* although every word that enters the queue drives out the best one of    *)
(* those that are in it, the best of all is never lost.  All other words   *)
(* of the answer are among the first num of the vocabulary, whatever they  *)
(* weigh (train.cpp:222-241).                                              *)
(***************************************************************************)
BestFirst ==
    stage = "answered" =>
      /\ Len(top) = num /\ Cardinality(Range(top)) = num
      /\ \A i, j \in DOMAIN top : i < j => weight[top[i]] >= weight[top[j]]
      /\ \A i \in DOMAIN weight : weight[top[1]] >= weight[i]
      /\ \A k \in 2 .. num : top[k] < num
==============================================================================
