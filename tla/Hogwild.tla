------------------------------- MODULE Hogwild -------------------------------
(***************************************************************************)
(* The parameters that all threads of Train::single_thread update without  *)
(* a lock.  A cell of an array is followed as the set of the gradients its *)
(* value has taken in: GW1[i] += g is a load, then a store of what was     *)
(* loaded with g added, and a store in between is lost.  (The arrays hold  *)
(* aligned doubles, whose loads and stores are whole on the machines the   *)
(* build is for.)  One column stands for all: columns are updated alike.   *)
(* What a gradient is computed from is not followed.  The records a thread *)
(* visits in an epoch are given: Train shows how the file is divided.      *)
(***************************************************************************)
EXTENDS Naturals, Sequences, FiniteSets

CONSTANTS
    Threads,
    Words,
    Pair,           \* Pair[r]: the words <<i, j>> of record r
    Region,         \* Region[t]: the records thread t visits in an epoch, in order
    Epochs

Records == DOMAIN Pair
NoGradients == {}

ASSUME HogwildAssumption ==
    /\ Pair \in [Records -> Words \X Words]
    /\ Region \in [Threads -> Seq(Records)]
    /\ Epochs \in Nat \ {0}

\* The read-modify-writes of one record, in the order of the code (lines 97-110):
\* the sums of squares, then the parameters that are divided by their roots
\* (the mutant updates the parameters first).
Steps_ParametersFirst == <<"W1", "W2", "b1", "b2", "GW1", "GW2", "Gb1", "Gb2">>
Steps == <<"GW1", "GW2", "Gb1", "Gb2", "W1", "W2", "b1", "b2">>
Arrays == {Steps[k] : k \in DOMAIN Steps}
Divisor == [W1 |-> "GW1", W2 |-> "GW2", b1 |-> "Gb1", b2 |-> "Gb2"]

VARIABLES
    cell,           \* cell[a][w]: the gradients in row w of array a
    epoch,          \* the epoch, from 1; Epochs + 1 when training has ended
    pos,            \* pos[t]: how many records t has finished in this epoch
    step,           \* step[t]: which of Steps t is at
    loaded,         \* loaded[t]: <<>>, or <<the cell as t loaded it>>
    divided         \* divided[t]: the divisor as t read it, "no" before

vars == <<cell, epoch, pos, step, loaded, divided>>

\* Train::Train: eight arrays; the random values are no gradients.
Init ==
    /\ cell = [a \in Arrays |-> [w \in Words |-> NoGradients]]
    /\ epoch = 1
    /\ pos = [t \in Threads |-> 0]
    /\ step = [t \in Threads |-> 1]
    /\ loaded = [t \in Threads |-> << >>]
    /\ divided = [t \in Threads |-> << >>]

\* _epoch != epoch
Training == epoch <= Epochs

Busy(t) == Training /\ pos[t] < Len(Region[t])
Record(t) == Region[t][pos[t] + 1]
Array(t) == Steps[step[t]]

\* The row of the array: the first word for those of W1, the second for those of W2.
Row(t) ==
    IF Array(t) \in {"GW1", "Gb1", "W1", "b1"} THEN Pair[Record(t)][1] ELSE Pair[Record(t)][2]

\* GW1->getVector(i), or Gb1->at(i), for the root the step is divided by.
ReadDivisor(t) ==
    /\ Busy(t) /\ loaded[t] = << >>
    /\ Array(t) \in DOMAIN Divisor /\ divided[t] = << >>
    /\ divided' = [divided EXCEPT ![t] = <<cell[Divisor[Array(t)]][Row(t)]>>]
    /\ UNCHANGED <<cell, epoch, pos, step, loaded>>

\* The loads of +=; for a parameter, once the divisor is known.
Load(t) ==
    /\ Busy(t) /\ loaded[t] = << >>
    /\ Array(t) \in DOMAIN Divisor => divided[t] # << >>
    /\ loaded' = [loaded EXCEPT ![t] = <<cell[Array(t)][Row(t)]>>]
    /\ UNCHANGED <<cell, epoch, pos, step, divided>>

\* data_[i * n_ + j] += a * vec[j]   (the mutant assigns)
Sum_Assigned(old, g) == {g}
Sum(old, g) == old \cup {g}

Store(t) ==
    /\ Busy(t) /\ loaded[t] # << >>
    /\ cell' = [cell EXCEPT ![Array(t)][Row(t)] = Sum(loaded[t][1], <<epoch, Record(t)>>)]
    /\ loaded' = [loaded EXCEPT ![t] = << >>]
    /\ divided' = [divided EXCEPT ![t] = << >>]
    /\ IF step[t] < Len(Steps)
         THEN step' = [step EXCEPT ![t] = @ + 1] /\ UNCHANGED pos
         ELSE /\ step' = [step EXCEPT ![t] = 1]
              /\ pos' = [pos EXCEPT ![t] = @ + 1]
    /\ UNCHANGED epoch

\* All threads of the epoch are joined (the mutant does not wait for all).
AllJoined_Not == \E t \in Threads : pos[t] = Len(Region[t])
AllJoined == \A t \in Threads : pos[t] = Len(Region[t])

NextEpoch ==
    /\ Training /\ AllJoined
    /\ epoch' = epoch + 1
    /\ pos' = [t \in Threads |-> 0]
    /\ step' = [t \in Threads |-> 1]
    /\ loaded' = [t \in Threads |-> << >>]
    /\ divided' = [t \in Threads |-> << >>]
    /\ UNCHANGED cell

Next == NextEpoch \/ \E t \in Threads : ReadDivisor(t) \/ Load(t) \/ Store(t)

Spec == Init /\ [][Next]_vars
-----------------------------------------------------------------------------
Gradients == (1 .. Epochs) \X Records

NothingOr(S) == {<< >>} \cup {<<v>> : v \in S}

\* The word of record r whose row of array a it updates.
WordOf(a, r) == IF a \in {"GW1", "Gb1", "W1", "b1"} THEN Pair[r][1] ELSE Pair[r][2]

\* The type invariant: the variables hold what the comments at their declaration say.
TypeOK ==
    /\ cell \in [Arrays -> [Words -> SUBSET Gradients]]
    /\ \A a \in Arrays, w \in Words : \A g \in cell[a][w] : WordOf(a, g[2]) = w
    /\ epoch \in 1 .. Epochs + 1
    /\ step \in [Threads -> DOMAIN Steps]
    /\ pos \in [Threads -> Nat] /\ \A t \in Threads : pos[t] <= Len(Region[t])
    /\ loaded \in [Threads -> NothingOr(SUBSET Gradients)]
    /\ divided \in [Threads -> NothingOr(SUBSET Gradients)]

(***************************************************************************)
(* The sum a step is divided by has always taken in a gradient: a thread   *)
(* adds to the sum before it reads it, and although that addition may be   *)
(* lost, what overwrote it was another addition (train.cpp:97-110).  (And  *)
(* the variables have their types.)                                        *)
(***************************************************************************)
DivisorNeverEmpty == TypeOK /\ \A t \in Threads : divided[t] # <<NoGradients>>

Users(a, w) == {t \in Threads : \E k \in DOMAIN Region[t] : WordOf(a, Region[t][k]) = w}

\* Thread t has made the k-th update of the n-th of its records in this epoch.
Passed(t, k, n) == n <= pos[t] \/ (n = pos[t] + 1 /\ k < step[t])

\* What thread t has added so far to row w of the k-th array.
AddedBy(t, k, w) ==
    {g \in (1 .. epoch) \X Records :
        /\ WordOf(Steps[k], g[2]) = w
        /\ \E n \in DOMAIN Region[t] :
              Region[t][n] = g[2] /\ (g[1] < epoch \/ Passed(t, k, n))}

(***************************************************************************)
(* A row that one thread alone updates has taken in exactly what this      *)
(* thread added in all epochs: races on other rows, and the end of an      *)
(* epoch, take nothing away (train, single_thread).                        *)
(***************************************************************************)
UnsharedExact ==
    \A k \in DOMAIN Steps, w \in Words, t \in Threads :
        Users(Steps[k], w) = {t} => cell[Steps[k]][w] = AddedBy(t, k, w)

(***************************************************************************)
(* A gradient is lost only to an update of the same epoch: those of the    *)
(* epochs before stay in every row, because all threads are joined before  *)
(* the next epoch loads anything (train.cpp:43-49).                        *)
(***************************************************************************)
EarlierEpochsKept ==
    [][\A a \in Arrays, w \in Words :
          {g \in cell[a][w] : g[1] < epoch} \subseteq cell'[a][w]]_vars

(***************************************************************************)
(* However the threads race, every row that a record is about takes in at  *)
(* least one gradient in every epoch.                                      *)
(***************************************************************************)
EpochLeavesMark ==
    \A a \in Arrays, w \in Words : Users(a, w) # {} =>
        \A e \in 1 .. epoch - 1 : \E r \in Records : <<e, r>> \in cell[a][w]
==============================================================================
