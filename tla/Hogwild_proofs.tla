---------------------------- MODULE Hogwild_proofs ----------------------------
(***************************************************************************)
(* What the races of the training threads cannot take away, for every      *)
(* number of threads, words, records and epochs.                           *)
(*                                                                         *)
(* The properties are about cells only, and not inductive: what a store    *)
(* leaves in a cell is what its thread loaded at some time before.  The    *)
(* invariants say how the loaded value relates to the cell as it is now:   *)
(* the two agree on the epochs before (LoadedOlder), a cell with one user  *)
(* has not changed (LoadedOwn), and an update that was made left a         *)
(* gradient of this epoch, its own or that of whoever overwrote it         *)
(* (Marked).                                                               *)
(***************************************************************************)
EXTENDS Hogwild, TLAPS

\* A thread that is through with its records holds nothing, and what a thread
\* has loaded fits the row it is about to store to.
Fits ==
    \A t \in Threads :
      /\ ~Busy(t) => step[t] = 1 /\ loaded[t] = << >> /\ divided[t] = << >>
      /\ loaded[t] # << >> => \A g \in loaded[t][1] : WordOf(Array(t), g[2]) = Row(t)

TypeInv == TypeOK /\ Fits

Older(S) == {g \in S : g[1] < epoch}

NoneLater ==
    /\ \A a \in Arrays, w \in Words : \A g \in cell[a][w] : g[1] <= epoch
    /\ \A t \in Threads : loaded[t] # << >> => \A g \in loaded[t][1] : g[1] <= epoch

LoadedOlder ==
    \A t \in Threads :
      loaded[t] # << >> => Older(loaded[t][1]) = Older(cell[Array(t)][Row(t)])

EpochInv == NoneLater /\ LoadedOlder

Marks(S, e) == \E r \in Records : <<e, r>> \in S

Marked ==
    \A t \in Threads, k \in DOMAIN Steps : \A n \in DOMAIN Region[t] :
      Passed(t, k, n) => Marks(cell[Steps[k]][WordOf(Steps[k], Region[t][n])], epoch)

MarkInv ==
    Marked /\ EpochLeavesMark /\ \A t \in Threads : divided[t] # <<NoGradients>>

LoadedOwn ==
    \A t \in Threads :
      loaded[t] # << >> /\ Users(Array(t), Row(t)) = {t} =>
        loaded[t][1] = cell[Array(t)][Row(t)]

OwnInv == LoadedOwn /\ UnsharedExact

-----------------------------------------------------------------------------
(* The eight updates of a record. *)

(* A parameter's update comes four steps after that of its divisor, and both *)
(* are about the same word of the record (train.cpp:97-110).                  *)
LEMMA StepsFacts ==
  /\ DOMAIN Steps = 1 .. 8 /\ Len(Steps) = 8
  /\ \A k \in 1 .. 8 : Steps[k] \in Arrays
  /\ \A k, l \in 1 .. 8 : Steps[k] = Steps[l] => k = l
  /\ \A k \in 1 .. 8 : Steps[k] \in DOMAIN Divisor => k > 4 /\ Divisor[Steps[k]] = Steps[k - 4]
  /\ \A k \in 5 .. 8 : \A r \in Records : WordOf(Steps[k], r) = WordOf(Steps[k - 4], r)
BY DEF Steps, Arrays, Divisor, WordOf

(* Every array is updated by one of the steps. *)
LEMMA ArraysAreSteps ==
  ASSUME NEW a \in Arrays
  PROVE  \E k \in 1 .. 8 : Steps[k] = a
BY DEF Steps, Arrays

(* The words of a record are words. *)
LEMMA WordOfType ==
  ASSUME NEW a, NEW r \in Records
  PROVE  WordOf(a, r) \in Words
BY HogwildAssumption DEF WordOf

(* A thread that is busy stands at a step of a record of its region. *)
LEMMA BusyFacts ==
  ASSUME TypeOK, NEW t \in Threads, Busy(t)
  PROVE  /\ pos[t] + 1 \in DOMAIN Region[t] /\ Record(t) = Region[t][pos[t] + 1]
         /\ Record(t) \in Records /\ epoch \in 1 .. Epochs
         /\ step[t] \in 1 .. 8 /\ Array(t) = Steps[step[t]] /\ Array(t) \in Arrays
         /\ Row(t) = WordOf(Array(t), Record(t)) /\ Row(t) \in Words
         /\ <<epoch, Record(t)>> \in Gradients
<1>1. Region[t] \in Seq(Records) /\ pos[t] \in Nat /\ pos[t] < Len(Region[t])
  BY HogwildAssumption DEF Busy, TypeOK
<1>2. pos[t] + 1 \in 1 .. Len(Region[t]) /\ DOMAIN Region[t] = 1 .. Len(Region[t])
  BY <1>1
<1>3. Record(t) \in Records
  BY <1>1, <1>2 DEF Record
<1>4. epoch \in 1 .. Epochs
  BY HogwildAssumption DEF Busy, Training, TypeOK
<1>5. step[t] \in 1 .. 8 /\ Array(t) \in Arrays
  BY StepsFacts DEF TypeOK, Array
<1>6. Row(t) = WordOf(Array(t), Record(t))
  BY DEF Row, WordOf
<1> QED
  BY <1>1, <1>2, <1>3, <1>4, <1>5, <1>6, WordOfType DEF Record, Array, Gradients

(* What a thread has loaded is a set of gradients. *)
LEMMA LoadedFacts ==
  ASSUME TypeOK, NEW t \in Threads, loaded[t] # << >>
  PROVE  loaded[t] = <<loaded[t][1]>> /\ loaded[t][1] \in SUBSET Gradients
<1>1. loaded[t] \in NothingOr(SUBSET Gradients)
  BY DEF TypeOK
<1>2. PICK v \in SUBSET Gradients : loaded[t] = <<v>>
  BY <1>1 DEF NothingOr
<1> QED
  BY <1>2

(* What a store changes: one cell, to what was loaded with one more        *)
(* gradient.                                                               *)
LEMMA StoreCell ==
  ASSUME TypeOK, NEW t \in Threads, Store(t)
  PROVE  \A a \in Arrays, w \in Words :
           cell'[a][w] = IF a = Array(t) /\ w = Row(t)
                           THEN loaded[t][1] \cup {<<epoch, Record(t)>>} ELSE cell[a][w]
BY BusyFacts DEF Store, Sum, TypeOK

(* A store does not move the other threads. *)
LEMMA OthersStay ==
  ASSUME TypeOK, NEW t \in Threads, Store(t), NEW u \in Threads, u # t
  PROVE  /\ Array(u)' = Array(u) /\ Row(u)' = Row(u)
         /\ step'[u] = step[u] /\ pos'[u] = pos[u]
         /\ loaded'[u] = loaded[u] /\ divided'[u] = divided[u]
         /\ Busy(u)' = Busy(u)
<1>1. /\ step'[u] = step[u] /\ pos'[u] = pos[u] /\ epoch' = epoch
      /\ loaded'[u] = loaded[u] /\ divided'[u] = divided[u]
  BY DEF Store, TypeOK
<1> QED
  BY <1>1 DEF Array, Row, Record, Busy, Training

-----------------------------------------------------------------------------
(* Types. *)

LEMMA TypeInit == Init => TypeInv
<1> SUFFICES ASSUME Init PROVE TypeInv
  OBVIOUS
<1>1. TypeOK
  <2>1. 1 \in DOMAIN Steps /\ epoch \in 1 .. Epochs + 1
    BY StepsFacts, HogwildAssumption DEF Init
  <2>2. \A t \in Threads : pos[t] <= Len(Region[t])
    BY HogwildAssumption DEF Init
  <2> QED
    BY <2>1, <2>2 DEF Init, TypeOK, NoGradients, NothingOr
<1>2. Fits
  BY DEF Init, Fits
<1> QED
  BY <1>1, <1>2 DEF TypeInv

LEMMA ReadDivisorType ==
  ASSUME TypeInv, NEW t \in Threads, ReadDivisor(t)
  PROVE  TypeInv'
<1>1. cell[Divisor[Array(t)]][Row(t)] \in SUBSET Gradients
  <2>0. Busy(t) /\ Array(t) \in DOMAIN Divisor /\ TypeOK
    BY DEF ReadDivisor, TypeInv
  <2>1. step[t] \in 1 .. 8 /\ Array(t) = Steps[step[t]]
    BY <2>0, BusyFacts
  <2>2. step[t] \in 5 .. 8 /\ Divisor[Array(t)] = Steps[step[t] - 4]
    BY <2>0, <2>1, StepsFacts
  <2>3. Divisor[Array(t)] \in Arrays
    BY <2>2, StepsFacts
  <2>4. Row(t) \in Words
    BY <2>0, BusyFacts
  <2> QED
    BY <2>3, <2>4 DEF TypeInv, TypeOK
<1>2. TypeOK'
  BY <1>1 DEF TypeInv, TypeOK, ReadDivisor, NothingOr
<1>3. Fits'
  BY DEF TypeInv, TypeOK, Fits, ReadDivisor, Busy, Training, Array, Row, Record
<1> QED
  BY <1>2, <1>3 DEF TypeInv

LEMMA LoadType ==
  ASSUME TypeInv, NEW t \in Threads, Load(t)
  PROVE  TypeInv'
<1>1. Busy(t) /\ TypeOK
  BY DEF Load, TypeInv
<1> Array(t) \in Arrays /\ Row(t) \in Words
  BY <1>1, BusyFacts
<1>2. cell[Array(t)][Row(t)] \in SUBSET Gradients
  BY <1>1 DEF TypeOK
<1>3. TypeOK'
  BY <1>2 DEF TypeInv, TypeOK, Load, NothingOr
<1>4. \A g \in cell[Array(t)][Row(t)] : WordOf(Array(t), g[2]) = Row(t)
  BY <1>1 DEF TypeOK
<1>5. Fits'
  <2>1. /\ loaded' = [loaded EXCEPT ![t] = <<cell[Array(t)][Row(t)]>>]
        /\ loaded \in [Threads -> NothingOr(SUBSET Gradients)] /\ divided' = divided
        /\ step' = step /\ Fits
    BY DEF Load, TypeInv, TypeOK
  <2>2. \A u \in Threads : Busy(u)' = Busy(u) /\ Array(u)' = Array(u) /\ Row(u)' = Row(u)
    BY DEF Load, Busy, Training, Array, Row, Record
  <2>3. \A u \in Threads : u # t => loaded'[u] = loaded[u]
    BY <2>1
  <2>4. loaded'[t][1] = cell[Array(t)][Row(t)]
    BY <2>1
  <2> QED
    BY <1>1, <1>4, <2>1, <2>2, <2>3, <2>4 DEF Fits
<1> QED
  BY <1>3, <1>5 DEF TypeInv

LEMMA StoreType ==
  ASSUME TypeInv, NEW t \in Threads, Store(t)
  PROVE  TypeInv'
<1> DEFINE v == loaded[t][1] \cup {<<epoch, Record(t)>>}
<1>1. Busy(t) /\ TypeOK /\ Fits /\ loaded[t] # << >>
  BY DEF Store, TypeInv
<1> /\ Array(t) \in Arrays /\ Row(t) \in Words /\ step[t] \in 1 .. 8
    /\ <<epoch, Record(t)>> \in Gradients
  BY <1>1, BusyFacts
<1>2. v \in SUBSET Gradients
  BY <1>1, LoadedFacts
<1>3. \A g \in v : WordOf(Array(t), g[2]) = Row(t)
  BY <1>1, BusyFacts DEF Fits
<1>4. cell' = [cell EXCEPT ![Array(t)][Row(t)] = v]
  BY DEF Store, Sum
<1> HIDE DEF v
<1>5. cell' \in [Arrays -> [Words -> SUBSET Gradients]]
  BY <1>1, <1>2, <1>4 DEF TypeOK
<1>6. \A a \in Arrays, w \in Words : \A g \in cell'[a][w] : WordOf(a, g[2]) = w
  BY <1>1, <1>3, <1>4 DEF TypeOK
<1>7. /\ step' \in [Threads -> DOMAIN Steps]
      /\ pos' \in [Threads -> Nat] /\ \A u \in Threads : pos'[u] <= Len(Region[u])
  <2>1. pos[t] + 1 <= Len(Region[t])
    BY <1>1, HogwildAssumption DEF Busy, TypeOK
  <2>2. 1 \in DOMAIN Steps /\ (step[t] < 8 => step[t] + 1 \in DOMAIN Steps)
    BY <2>1, StepsFacts
  <2>3. CASE step[t] < 8
    <3>1. step' = [step EXCEPT ![t] = @ + 1] /\ pos' = pos
      BY <2>3, StepsFacts DEF Store
    <3> QED
      BY <1>1, <2>2, <2>3, <3>1 DEF TypeOK
  <2>4. CASE ~ step[t] < 8
    <3>1. step' = [step EXCEPT ![t] = 1] /\ pos' = [pos EXCEPT ![t] = @ + 1]
      BY <2>4, StepsFacts DEF Store
    <3>2. pos[t] + 1 \in Nat /\ pos \in [Threads -> Nat] /\ step \in [Threads -> DOMAIN Steps]
      BY <1>1 DEF TypeOK
    <3>3. step' \in [Threads -> DOMAIN Steps] /\ pos' \in [Threads -> Nat]
      BY <2>2, <3>1, <3>2
    <3>4. \A u \in Threads : pos'[u] <= Len(Region[u])
      BY <1>1, <2>1, <3>1, <3>2 DEF TypeOK
    <3> QED
      BY <3>3, <3>4
  <2> QED
    BY <2>3, <2>4
<1>8. TypeOK'
  BY <1>1, <1>5, <1>6, <1>7 DEF TypeOK, Store, NothingOr
<1>9. Fits'
  <2> SUFFICES ASSUME NEW u \in Threads
               PROVE  /\ ~Busy(u)' => step'[u] = 1 /\ loaded'[u] = << >> /\ divided'[u] = << >>
                      /\ loaded'[u] # << >> => \A g \in loaded'[u][1] : WordOf(Array(u)', g[2]) = Row(u)'
    BY DEF Fits
  <2>1. CASE u = t
    <3>1. loaded'[t] = << >> /\ divided'[t] = << >>
      BY <1>1 DEF Store, TypeOK
    <3>2. ~Busy(t)' => step'[t] = 1
      BY <1>1, StepsFacts DEF Store, Busy, Training, TypeOK
    <3> QED
      BY <2>1, <3>1, <3>2
  <2>2. CASE u # t
    BY <1>1, <2>2, OthersStay DEF Fits
  <2> QED
    BY <2>1, <2>2
<1> QED
  BY <1>8, <1>9 DEF TypeInv

LEMMA NextEpochType ==
  ASSUME TypeInv, NextEpoch
  PROVE  TypeInv'
<1>1. epoch' \in 1 .. Epochs + 1
  BY HogwildAssumption DEF TypeInv, TypeOK, NextEpoch, Training
<1>2. 1 \in DOMAIN Steps /\ \A t \in Threads : 0 <= Len(Region[t])
  BY StepsFacts, HogwildAssumption
<1>3. TypeOK'
  BY <1>1, <1>2 DEF TypeInv, TypeOK, NextEpoch, NothingOr
<1>4. Fits'
  BY DEF Fits, NextEpoch
<1> QED
  BY <1>3, <1>4 DEF TypeInv

(* The variables of the training threads keep their types; a cell holds    *)
(* only gradients of records that are about its word, and so does what a   *)
(* thread has loaded (Train::single_thread).                               *)
THEOREM TypeCorrect == Spec => []TypeInv
<1>1. TypeInv /\ [Next]_vars => TypeInv'
  <2> SUFFICES ASSUME TypeInv, [Next]_vars PROVE TypeInv'
    OBVIOUS
  <2>1. CASE NextEpoch
    BY <2>1, NextEpochType
  <2>2. ASSUME NEW t \in Threads, ReadDivisor(t) PROVE TypeInv'
    BY <2>2, ReadDivisorType
  <2>3. ASSUME NEW t \in Threads, Load(t) PROVE TypeInv'
    BY <2>3, LoadType
  <2>4. ASSUME NEW t \in Threads, Store(t) PROVE TypeInv'
    BY <2>4, StoreType
  <2>5. CASE UNCHANGED vars
    BY <2>5 DEF vars, TypeInv, TypeOK, Fits, Busy, Training, Array, Row, Record
  <2> QED
    BY <2>1, <2>2, <2>3, <2>4, <2>5 DEF Next
<1> QED
  BY <1>1, TypeInit, PTL DEF Spec

-----------------------------------------------------------------------------
(* Earlier epochs. *)

(* What is stored agrees with the cell as it was on the epochs before. *)
LEMMA StoreKeepsOlder ==
  ASSUME TypeInv, EpochInv, NEW t \in Threads, Store(t), NEW a \in Arrays, NEW w \in Words
  PROVE  Older(cell[a][w])' = Older(cell[a][w])
<1>1. TypeOK /\ loaded[t] # << >> /\ epoch' = epoch
  BY DEF TypeInv, Store
<1>2. CASE a = Array(t) /\ w = Row(t)
  <2>1. cell'[a][w] = loaded[t][1] \cup {<<epoch, Record(t)>>}
    BY <1>1, <1>2, StoreCell
  <2>2. Older(loaded[t][1]) = Older(cell[a][w])
    BY <1>1, <1>2 DEF EpochInv, LoadedOlder
  <2>3. ~ (epoch < epoch)
    BY <1>1 DEF TypeOK
  <2> QED
    BY <1>1, <2>1, <2>2, <2>3 DEF Older
<1>3. CASE ~(a = Array(t) /\ w = Row(t))
  <2>1. cell'[a][w] = cell[a][w]
    BY <1>1, <1>3, StoreCell
  <2> QED
    BY <1>1, <2>1 DEF Older
<1> QED
  BY <1>2, <1>3

LEMMA EpochStoreStep ==
  ASSUME TypeInv, EpochInv, NEW t \in Threads, Store(t)
  PROVE  EpochInv'
<1>1. TypeOK /\ Fits /\ loaded[t] # << >> /\ Busy(t) /\ epoch' = epoch /\ epoch \in Nat
  <2>1. epoch \in Nat
    BY DEF TypeInv, TypeOK
  <2> QED
    BY <2>1 DEF TypeInv, Store
<1>2. loaded'[t] = << >>
  BY <1>1 DEF Store, TypeOK
<1>3. NoneLater'
  <2>1. \A g \in loaded[t][1] \cup {<<epoch, Record(t)>>} : g[1] <= epoch
    BY <1>1 DEF EpochInv, NoneLater
  <2>2. \A a \in Arrays, w \in Words : \A g \in cell'[a][w] : g[1] <= epoch
    <3> TAKE a \in Arrays, w \in Words
    <3>1. cell'[a][w] = loaded[t][1] \cup {<<epoch, Record(t)>>} \/ cell'[a][w] = cell[a][w]
      BY <1>1, StoreCell
    <3> QED
      BY <2>1, <3>1 DEF EpochInv, NoneLater
  <2>3. \A u \in Threads : loaded'[u] # << >> => \A g \in loaded'[u][1] : g[1] <= epoch
    BY <1>1, <1>2, OthersStay DEF EpochInv, NoneLater
  <2> QED
    BY <1>1, <2>2, <2>3 DEF NoneLater
<1>4. LoadedOlder'
  <2> SUFFICES ASSUME NEW u \in Threads, loaded'[u] # << >>
               PROVE  Older(loaded[u][1])' = Older(cell[Array(u)][Row(u)])'
    BY DEF LoadedOlder
  <2>1. u # t
    BY <1>2
  <2>2. loaded'[u] = loaded[u] /\ Array(u)' = Array(u) /\ Row(u)' = Row(u)
    BY <1>1, <2>1, OthersStay
  <2>3. Older(loaded[u][1]) = Older(cell[Array(u)][Row(u)])
    BY <2>2 DEF EpochInv, LoadedOlder
  <2>4. Busy(u)
    BY <1>1, <2>2 DEF Fits
  <2>5. Array(u) \in Arrays /\ Row(u) \in Words
    BY <1>1, <2>4, BusyFacts
  <2>6. Older(cell[Array(u)][Row(u)])' = Older(cell[Array(u)][Row(u)])
    BY <2>2, <2>5, StoreKeepsOlder DEF Older
  <2>7. Older(loaded[u][1])' = Older(loaded[u][1])
    BY <1>1, <2>2 DEF Older
  <2> QED
    BY <2>3, <2>6, <2>7
<1> QED
  BY <1>3, <1>4 DEF EpochInv

LEMMA EpochLoadStep ==
  ASSUME TypeInv, EpochInv, NEW t \in Threads, Load(t)
  PROVE  EpochInv'
<1>1. TypeOK /\ Busy(t)
  BY DEF TypeInv, Load
<1>2. Array(t) \in Arrays /\ Row(t) \in Words
  BY <1>1, BusyFacts
<1>3. /\ loaded' = [loaded EXCEPT ![t] = <<cell[Array(t)][Row(t)]>>]
      /\ UNCHANGED <<cell, epoch, pos, step>> /\ loaded \in [Threads -> NothingOr(SUBSET Gradients)]
  BY <1>1 DEF Load, TypeOK
<1>4. NoneLater'
  BY <1>2, <1>3 DEF EpochInv, NoneLater
<1>5. LoadedOlder'
  BY <1>2, <1>3 DEF EpochInv, LoadedOlder, Older, Array, Row, Record
<1> QED
  BY <1>4, <1>5 DEF EpochInv

LEMMA EpochNextStep ==
  ASSUME TypeInv, EpochInv, NextEpoch
  PROVE  EpochInv'
<1>1. /\ epoch \in Nat /\ epoch' = epoch + 1 /\ cell' = cell
      /\ \A t \in Threads : loaded'[t] = << >>
  BY DEF TypeInv, TypeOK, NextEpoch
<1>2. \A a \in Arrays, w \in Words : \A g \in cell[a][w] : g[1] \in Nat
  BY HogwildAssumption DEF TypeInv, TypeOK, Gradients
<1> QED
  BY <1>1, <1>2 DEF EpochInv, NoneLater, LoadedOlder

LEMMA EpochInvStep ==
  ASSUME TypeInv, EpochInv, [Next]_vars
  PROVE  EpochInv'
<1>1. ASSUME NEW t \in Threads, ReadDivisor(t) PROVE EpochInv'
  BY <1>1 DEF ReadDivisor, EpochInv, NoneLater, LoadedOlder, Older, Array, Row, Record
<1>2. CASE UNCHANGED vars
  BY <1>2 DEF vars, EpochInv, NoneLater, LoadedOlder, Older, Array, Row, Record
<1> QED
  BY <1>1, <1>2, EpochStoreStep, EpochLoadStep, EpochNextStep DEF Next

(* What a thread has loaded and the cell it loaded it from agree on the    *)
(* epochs before, whatever the others store in between.                    *)
THEOREM LoadsAgreeOnThePast == Spec => []EpochInv
<1>1. Init => EpochInv
  BY DEF Init, EpochInv, NoneLater, LoadedOlder, NoGradients
<1> QED
  BY <1>1, EpochInvStep, TypeCorrect, PTL DEF Spec

(* No step takes a gradient of an earlier epoch out of a row, because all  *)
(* threads are joined before the next epoch loads anything                 *)
(* (train.cpp:43-49).                                                      *)
THEOREM EpochsNeverUndone == Spec => EarlierEpochsKept
<1> DEFINE Kept == \A a \in Arrays, w \in Words : {g \in cell[a][w] : g[1] < epoch} \subseteq cell'[a][w]
<1>1. ASSUME TypeInv, EpochInv, [Next]_vars PROVE [Kept]_vars
  <2>1. ASSUME NEW t \in Threads, Store(t) PROVE Kept
    <3> SUFFICES ASSUME NEW a \in Arrays, NEW w \in Words
                 PROVE  {g \in cell[a][w] : g[1] < epoch} \subseteq cell'[a][w]
      OBVIOUS
    <3>1. Older(cell[a][w])' = Older(cell[a][w])
      BY <1>1, <2>1, StoreKeepsOlder
    <3> QED
      BY <3>1 DEF Older
  <2>2. CASE cell' = cell
    BY <2>2
  <2> QED
    BY <1>1, <2>1, <2>2 DEF Next, NextEpoch, ReadDivisor, Load
<1> QED
  BY <1>1, TypeCorrect, LoadsAgreeOnThePast, PTL DEF Spec, EarlierEpochsKept

-----------------------------------------------------------------------------
(* What the updates leave in the cells. *)

(* A store puts a gradient of its epoch into its row, and the rows that    *)
(* had one before have one after.                                          *)
LEMMA StoreMarks ==
  ASSUME TypeInv, EpochInv, NEW t \in Threads, Store(t), NEW a \in Arrays, NEW w \in Words
  PROVE  /\ a = Array(t) /\ w = Row(t) => Marks(cell'[a][w], epoch)
         /\ \A e \in Nat : e <= epoch /\ Marks(cell[a][w], e) => Marks(cell'[a][w], e)
<1>1. TypeOK /\ loaded[t] # << >> /\ Busy(t)
  BY DEF TypeInv, Store
<1>2. Record(t) \in Records
  BY <1>1, BusyFacts
<1>3. a = Array(t) /\ w = Row(t) => Marks(cell'[a][w], epoch)
  BY <1>1, <1>2, StoreCell DEF Marks
<1>4. ASSUME NEW e \in Nat, e <= epoch, Marks(cell[a][w], e)
      PROVE  Marks(cell'[a][w], e)
  <2>1. PICK r \in Records : <<e, r>> \in cell[a][w]
    BY <1>4 DEF Marks
  <2>2. CASE e < epoch
    <3>1. <<e, r>> \in Older(cell[a][w])
      BY <2>1, <2>2 DEF Older
    <3>2. <<e, r>> \in Older(cell[a][w])'
      BY <3>1, StoreKeepsOlder
    <3> QED
      BY <3>2 DEF Older, Marks
  <2>3. CASE e = epoch
    <3>1. cell'[a][w] = cell[a][w] \/ (a = Array(t) /\ w = Row(t))
      BY <1>1, StoreCell
    <3> QED
      BY <1>3, <1>4, <2>3, <3>1
  <2>4. epoch \in Nat
    BY DEF TypeInv, TypeOK
  <2> QED
    BY <1>4, <2>2, <2>3, <2>4
<1> QED
  BY <1>3, <1>4

(* The update a thread passes when it stores is the one it stands at. *)
LEMMA PassedByStore ==
  ASSUME TypeOK, NEW t \in Threads, Store(t), NEW u \in Threads,
         NEW k \in 1 .. 8, NEW n \in DOMAIN Region[u]
  PROVE  Passed(u, k, n)' <=> \/ Passed(u, k, n)
                              \/ u = t /\ k = step[t] /\ n = pos[t] + 1
<1>1. CASE u # t
  BY <1>1, OthersStay DEF Passed
<1>2. CASE u = t
  <2>1. /\ pos[t] \in Nat /\ step[t] \in 1 .. 8 /\ n \in Nat \ {0}
        /\ pos \in [Threads -> Nat] /\ step \in [Threads -> 1 .. 8]
    BY <1>2, StepsFacts, HogwildAssumption DEF TypeOK
  <2>2. CASE step[t] < 8
    <3>1. step'[t] = step[t] + 1 /\ pos'[t] = pos[t]
      BY <2>1, <2>2, StepsFacts DEF Store
    <3> QED
      BY <1>2, <2>1, <3>1 DEF Passed
  <2>3. CASE ~ step[t] < 8
    <3>1. step'[t] = 1 /\ pos'[t] = pos[t] + 1
      BY <2>1, <2>3, StepsFacts DEF Store
    <3> QED
      BY <1>2, <2>1, <2>3, <3>1 DEF Passed
  <2> QED
    BY <2>2, <2>3
<1> QED
  BY <1>1, <1>2

LEMMA MarkStoreStep ==
  ASSUME TypeInv, EpochInv, MarkInv, NEW t \in Threads, Store(t)
  PROVE  MarkInv'
<1>1. TypeOK /\ Busy(t) /\ epoch' = epoch
  BY DEF TypeInv, Store
<1>2. Marked'
  <2> SUFFICES ASSUME NEW u \in Threads, NEW k \in 1 .. 8, NEW n \in DOMAIN Region[u], Passed(u, k, n)'
               PROVE  Marks(cell'[Steps[k]][WordOf(Steps[k], Region[u][n])], epoch)
    BY <1>1, StepsFacts DEF Marked
  <2>1. Steps[k] \in Arrays /\ WordOf(Steps[k], Region[u][n]) \in Words /\ epoch \in Nat
    BY StepsFacts, WordOfType, HogwildAssumption DEF TypeInv, TypeOK
  <2>2. CASE Passed(u, k, n)
    <3>1. Marks(cell[Steps[k]][WordOf(Steps[k], Region[u][n])], epoch)
      BY <2>2, StepsFacts DEF MarkInv, Marked
    <3> QED
      BY <2>1, <3>1, StoreMarks
  <2>3. CASE u = t /\ k = step[t] /\ n = pos[t] + 1
    <3>1. Steps[k] = Array(t) /\ WordOf(Steps[k], Region[u][n]) = Row(t)
      BY <1>1, <2>3, BusyFacts
    <3> QED
      BY <2>1, <3>1, StoreMarks
  <2> QED
    BY <1>1, <2>2, <2>3, PassedByStore
<1>3. EpochLeavesMark'
  <2> SUFFICES ASSUME NEW a \in Arrays, NEW w \in Words, Users(a, w) # {}, NEW e \in 1 .. epoch - 1
               PROVE  Marks(cell'[a][w], e)
    BY <1>1 DEF EpochLeavesMark, Users, Marks
  <2>1. Marks(cell[a][w], e)
    BY DEF MarkInv, EpochLeavesMark, Marks
  <2>2. e \in Nat /\ e <= epoch
    BY DEF TypeInv, TypeOK
  <2> QED
    BY <2>1, <2>2, StoreMarks
<1>4. \A u \in Threads : divided'[u] # <<NoGradients>>
  BY <1>1 DEF MarkInv, Store, TypeOK
<1> QED
  BY <1>2, <1>3, <1>4 DEF MarkInv, NoGradients

(* The divisor that a thread reads has a gradient: its own addition to it  *)
(* came four steps before.                                                 *)
LEMMA MarkReadStep ==
  ASSUME TypeInv, MarkInv, NEW t \in Threads, ReadDivisor(t)
  PROVE  MarkInv'
<1>1. TypeOK /\ Busy(t) /\ Array(t) \in DOMAIN Divisor
  BY DEF TypeInv, ReadDivisor
<1> DEFINE k == step[t]
           n == pos[t] + 1
<1>2. /\ k \in 1 .. 8 /\ n \in DOMAIN Region[t] /\ Array(t) = Steps[k]
      /\ Row(t) = WordOf(Steps[k], Region[t][n]) /\ Region[t][n] \in Records
  BY <1>1, BusyFacts
<1>3. k > 4 /\ Divisor[Steps[k]] = Steps[k - 4] /\ k - 4 \in 1 .. 8 /\ k - 4 < k
  BY <1>1, <1>2, StepsFacts
<1>4. Row(t) = WordOf(Steps[k - 4], Region[t][n])
  BY <1>2, <1>3, StepsFacts
<1>5. Passed(t, k - 4, n)
  BY <1>3 DEF Passed
<1>6. Marks(cell[Divisor[Array(t)]][Row(t)], epoch)
  BY <1>2, <1>3, <1>4, <1>5, StepsFacts DEF MarkInv, Marked
<1>7. \A u \in Threads : divided'[u] # <<NoGradients>>
  <2>1. cell[Divisor[Array(t)]][Row(t)] # {}
    BY <1>6 DEF Marks
  <2>2. divided \in [Threads -> NothingOr(SUBSET Gradients)]
    BY <1>1 DEF TypeOK
  <2> QED
    BY <2>1, <2>2 DEF MarkInv, ReadDivisor, NoGradients
<1>8. Marked' /\ EpochLeavesMark'
  BY DEF MarkInv, Marked, EpochLeavesMark, ReadDivisor, Passed, Users, Marks
<1> QED
  BY <1>7, <1>8 DEF MarkInv, NoGradients

LEMMA MarkNextStep ==
  ASSUME TypeInv, MarkInv, NextEpoch
  PROVE  MarkInv'
<1>1. /\ epoch \in Nat \ {0} /\ epoch' = epoch + 1 /\ cell' = cell /\ AllJoined
      /\ \A t \in Threads : pos'[t] = 0 /\ step'[t] = 1 /\ divided'[t] = << >>
  BY DEF TypeInv, TypeOK, NextEpoch
<1>2. Marked'
  <2> SUFFICES ASSUME NEW t \in Threads, NEW k \in 1 .. 8, NEW n \in DOMAIN Region[t]
               PROVE  ~ Passed(t, k, n)'
    BY StepsFacts DEF Marked
  <2>1. n \in Nat \ {0}
    BY HogwildAssumption
  <2> QED
    BY <1>1, <2>1 DEF Passed
<1>3. EpochLeavesMark'
  <2> SUFFICES ASSUME NEW a \in Arrays, NEW w \in Words, Users(a, w) # {}, NEW e \in 1 .. epoch
               PROVE  Marks(cell[a][w], e)
    BY <1>1 DEF EpochLeavesMark, Users, Marks
  <2>1. CASE e < epoch
    BY <1>1, <2>1 DEF MarkInv, EpochLeavesMark, Marks
  <2>2. CASE e = epoch
    <3>1. PICK t \in Threads : \E n \in DOMAIN Region[t] : WordOf(a, Region[t][n]) = w
      BY DEF Users
    <3>2. PICK n \in DOMAIN Region[t] : WordOf(a, Region[t][n]) = w
      BY <3>1
    <3>3. PICK k \in 1 .. 8 : Steps[k] = a
      BY ArraysAreSteps
    <3>4. n <= pos[t]
      BY <1>1, HogwildAssumption DEF AllJoined
    <3> QED
      BY <2>2, <3>2, <3>3, <3>4, StepsFacts DEF MarkInv, Marked, Passed
  <2> QED
    BY <1>1, <2>1, <2>2
<1>4. \A t \in Threads : divided'[t] # <<NoGradients>>
  BY <1>1
<1> QED
  BY <1>2, <1>3, <1>4 DEF MarkInv, NoGradients

LEMMA MarkInvStep ==
  ASSUME TypeInv, EpochInv, MarkInv, [Next]_vars
  PROVE  MarkInv'
<1>1. ASSUME NEW t \in Threads, Load(t) PROVE MarkInv'
  BY <1>1 DEF Load, MarkInv, Marked, EpochLeavesMark, Passed, Users, Marks, NoGradients
<1>2. CASE UNCHANGED vars
  BY <1>2 DEF vars, MarkInv, Marked, EpochLeavesMark, Passed, Users, Marks, NoGradients
<1> QED
  BY <1>1, <1>2, MarkStoreStep, MarkReadStep, MarkNextStep DEF Next

LEMMA MarkInvInit ==
  ASSUME Init
  PROVE  MarkInv
<1>1. \A t \in Threads : \A k \in 1 .. 8 : \A n \in DOMAIN Region[t] : ~ Passed(t, k, n)
  <2> TAKE t \in Threads
  <2> TAKE k \in 1 .. 8
  <2> TAKE n \in DOMAIN Region[t]
  <2>1. n \in Nat \ {0}
    BY HogwildAssumption
  <2> QED
    BY <2>1 DEF Init, Passed
<1>2. EpochLeavesMark
  BY DEF Init, EpochLeavesMark
<1> QED
  BY <1>1, <1>2, StepsFacts DEF Init, MarkInv, Marked

(* However the threads race, every row that a record is about takes in at  *)
(* least one gradient in every epoch (train, single_thread).               *)
THEOREM EveryEpochLeavesMark == Spec => []EpochLeavesMark
<1> QED
  BY MarkInvInit, MarkInvStep, TypeCorrect, LoadsAgreeOnThePast, PTL DEF Spec, MarkInv

(* No thread divides by the root of a sum that took nothing in             *)
(* (train.cpp:97-110).                                                     *)
THEOREM DivisorsNotEmpty == Spec => []DivisorNeverEmpty
<1>1. TypeInv /\ MarkInv => DivisorNeverEmpty
  BY DEF TypeInv, MarkInv, DivisorNeverEmpty
<1> QED
  BY <1>1, MarkInvInit, MarkInvStep, TypeCorrect, LoadsAgreeOnThePast, PTL DEF Spec

-----------------------------------------------------------------------------
(* The rows with one user. *)

(* A thread that stores to a row uses it. *)
LEMMA StorerIsUser ==
  ASSUME TypeOK, NEW t \in Threads, Busy(t)
  PROVE  t \in Users(Array(t), Row(t))
<1>1. pos[t] + 1 \in DOMAIN Region[t] /\ WordOf(Array(t), Region[t][pos[t] + 1]) = Row(t)
  BY BusyFacts
<1> QED
  BY <1>1 DEF Users

(* What a store adds to the account of thread u for row w of array k. *)
LEMMA AddedByStore ==
  ASSUME TypeOK, NEW t \in Threads, Store(t), NEW u \in Threads, NEW k \in 1 .. 8, NEW w \in Words
  PROVE  /\ u = t /\ k = step[t] /\ w = Row(t) =>
              AddedBy(u, k, w)' = AddedBy(u, k, w) \cup {<<epoch, Record(t)>>}
         /\ ~(u = t /\ k = step[t] /\ w = Row(t)) =>
              AddedBy(u, k, w)' = AddedBy(u, k, w)
<1>1. /\ Busy(t) /\ epoch' = epoch
      /\ Region[u] \in Seq(Records) /\ epoch \in 1 .. Epochs
      /\ pos[t] + 1 \in DOMAIN Region[t] /\ Record(t) = Region[t][pos[t] + 1]
      /\ Record(t) \in Records /\ Row(t) = WordOf(Steps[step[t]], Record(t))
  BY BusyFacts, HogwildAssumption DEF Store
<1> DEFINE New(n) == u = t /\ k = step[t] /\ n = pos[t] + 1
<1>2. \A n \in DOMAIN Region[u] : Passed(u, k, n)' <=> Passed(u, k, n) \/ New(n)
  BY PassedByStore
<1>3. AddedBy(u, k, w)' =
        {g \in (1 .. epoch) \X Records :
           /\ WordOf(Steps[k], g[2]) = w
           /\ \E n \in DOMAIN Region[u] :
                 Region[u][n] = g[2] /\ (g[1] < epoch \/ Passed(u, k, n) \/ New(n))}
  BY <1>1, <1>2 DEF AddedBy
<1> DEFINE Fresh == {g \in (1 .. epoch) \X Records :
                       /\ WordOf(Steps[k], g[2]) = w
                       /\ \E n \in DOMAIN Region[u] : Region[u][n] = g[2] /\ New(n)}
<1>4. AddedBy(u, k, w)' = AddedBy(u, k, w) \cup Fresh
  BY <1>3 DEF AddedBy
<1>5. CASE u = t /\ k = step[t] /\ w = Row(t)
  <2>1. <<epoch, Record(t)>> \in Fresh
    BY <1>1, <1>5
  <2>2. ASSUME NEW g \in Fresh, g \notin AddedBy(u, k, w)
        PROVE  g = <<epoch, Record(t)>>
    <3>1. /\ g \in (1 .. epoch) \X Records /\ g = <<g[1], g[2]>>
          /\ g[2] = Record(t) /\ ~ g[1] < epoch
      BY <1>1, <2>2 DEF AddedBy
    <3>2. g[1] \in 1 .. epoch
      BY <3>1
    <3>3. g[1] = epoch
      BY <1>1, <3>1, <3>2
    <3> QED
      BY <3>1, <3>3
  <2> QED
    BY <1>4, <1>5, <2>1, <2>2
<1>6. CASE ~(u = t /\ k = step[t] /\ w = Row(t))
  <2>1. Fresh = {}
    BY <1>1, <1>6
  <2> QED
    BY <1>4, <1>6, <2>1
<1> QED
  BY <1>5, <1>6

LEMMA OwnStoreStep ==
  ASSUME TypeInv, OwnInv, NEW t \in Threads, Store(t)
  PROVE  OwnInv'
<1>1. TypeOK /\ Fits /\ Busy(t) /\ epoch' = epoch /\ loaded[t] # << >>
  BY DEF TypeInv, Store
<1>2. /\ Array(t) \in Arrays /\ Row(t) \in Words
      /\ step[t] \in 1 .. 8 /\ Array(t) = Steps[step[t]]
  BY <1>1, BusyFacts
<1>3. t \in Users(Array(t), Row(t)) /\ loaded'[t] = << >>
  BY <1>1, StorerIsUser DEF Store, TypeOK
<1>4. \A a \in Arrays, w \in Words, u \in Threads :
        u # t /\ Users(a, w) = {u} => cell'[a][w] = cell[a][w]
  <2> TAKE a \in Arrays, w \in Words, u \in Threads
  <2>1. u # t /\ Users(a, w) = {u} => ~(a = Array(t) /\ w = Row(t))
    BY <1>3
  <2> QED
    BY <1>1, <2>1, StoreCell
<1>5. LoadedOwn'
  <2> SUFFICES ASSUME NEW u \in Threads, loaded'[u] # << >>, Users(Array(u), Row(u))' = {u}
               PROVE  loaded'[u][1] = cell'[Array(u)'][Row(u)']
    BY DEF LoadedOwn
  <2>1. u # t
    BY <1>3
  <2>2. loaded'[u] = loaded[u] /\ Array(u)' = Array(u) /\ Row(u)' = Row(u)
    BY <1>1, <2>1, OthersStay
  <2>3. Users(Array(u), Row(u)) = {u}
    BY <2>2 DEF Users
  <2>4. loaded[u][1] = cell[Array(u)][Row(u)]
    BY <2>2, <2>3 DEF OwnInv, LoadedOwn
  <2>5. Busy(u)
    BY <1>1, <2>2 DEF Fits
  <2>6. Array(u) \in Arrays /\ Row(u) \in Words
    BY <1>1, <2>5, BusyFacts
  <2> QED
    BY <1>4, <2>1, <2>2, <2>3, <2>4, <2>6
<1>6. UnsharedExact'
  <2> SUFFICES ASSUME NEW k \in 1 .. 8, NEW w \in Words, NEW u \in Threads, Users(Steps[k], w) = {u}
               PROVE  cell'[Steps[k]][w] = AddedBy(u, k, w)'
    BY StepsFacts DEF UnsharedExact, Users
  <2>1. cell[Steps[k]][w] = AddedBy(u, k, w) /\ Steps[k] \in Arrays
    BY StepsFacts DEF OwnInv, UnsharedExact
  <2>2. CASE u = t /\ k = step[t] /\ w = Row(t)
    <3>1. loaded[t][1] = cell[Steps[k]][w]
      BY <1>1, <1>2, <2>2 DEF OwnInv, LoadedOwn
    <3>2. cell'[Steps[k]][w] = loaded[t][1] \cup {<<epoch, Record(t)>>}
      BY <1>1, <1>2, <2>1, <2>2, StoreCell
    <3>3. AddedBy(u, k, w)' = AddedBy(u, k, w) \cup {<<epoch, Record(t)>>}
      BY <1>1, <2>2, AddedByStore
    <3> QED
      BY <2>1, <3>1, <3>2, <3>3
  <2>3. CASE ~(u = t /\ k = step[t] /\ w = Row(t))
    <3>1. AddedBy(u, k, w)' = AddedBy(u, k, w)
      BY <1>1, <2>3, AddedByStore
    <3>2. ~(Steps[k] = Array(t) /\ w = Row(t))
      BY <1>2, <1>3, <2>3, StepsFacts
    <3>3. cell'[Steps[k]][w] = cell[Steps[k]][w]
      BY <1>1, <2>1, <3>2, StoreCell
    <3> QED
      BY <2>1, <3>1, <3>3
  <2> QED
    BY <2>2, <2>3
<1> QED
  BY <1>5, <1>6 DEF OwnInv

LEMMA OwnNextStep ==
  ASSUME TypeInv, OwnInv, NextEpoch
  PROVE  OwnInv'
<1>1. /\ epoch \in Nat \ {0} /\ epoch' = epoch + 1 /\ cell' = cell /\ AllJoined
      /\ \A t \in Threads : pos'[t] = 0 /\ step'[t] = 1 /\ loaded'[t] = << >>
  BY DEF TypeInv, TypeOK, NextEpoch
<1>2. \A t \in Threads, k \in 1 .. 8, w \in Words : AddedBy(t, k, w)' = AddedBy(t, k, w)
  <2> TAKE t \in Threads, k \in 1 .. 8, w \in Words
  <2> DEFINE S == {g \in (1 .. epoch) \X Records :
                     /\ WordOf(Steps[k], g[2]) = w
                     /\ \E n \in DOMAIN Region[t] : Region[t][n] = g[2]}
  <2>1. \A n \in DOMAIN Region[t] : n \in Nat \ {0} /\ n <= pos[t]
    BY <1>1, HogwildAssumption DEF AllJoined
  <2>2. \A n \in DOMAIN Region[t] : Passed(t, k, n) /\ ~ Passed(t, k, n)'
    BY <1>1, <2>1 DEF Passed
  <2>3. AddedBy(t, k, w) = S
    BY <2>2 DEF AddedBy
  <2>4. AddedBy(t, k, w)' = {g \in (1 .. epoch + 1) \X Records :
                               /\ WordOf(Steps[k], g[2]) = w
                               /\ \E n \in DOMAIN Region[t] : Region[t][n] = g[2] /\ g[1] < epoch + 1}
    BY <1>1, <2>2 DEF AddedBy
  <2>5. \A e \in 1 .. epoch + 1 : e < epoch + 1 <=> e \in 1 .. epoch
    BY <1>1
  <2>6. \A e \in 1 .. epoch : e \in 1 .. epoch + 1
    BY <1>1
  <2> QED
    BY <2>3, <2>4, <2>5, <2>6
<1>3. LoadedOwn'
  BY <1>1 DEF LoadedOwn
<1>4. UnsharedExact'
  <2> SUFFICES ASSUME NEW k \in 1 .. 8, NEW w \in Words, NEW t \in Threads, Users(Steps[k], w) = {t}
               PROVE  cell'[Steps[k]][w] = AddedBy(t, k, w)'
    BY StepsFacts DEF UnsharedExact, Users
  <2> QED
    BY <1>1, <1>2, StepsFacts DEF OwnInv, UnsharedExact
<1> QED
  BY <1>3, <1>4 DEF OwnInv

(* Reading and loading change none of the accounts. *)
LEMMA AccountsStay ==
  ASSUME UNCHANGED <<cell, epoch, pos, step>>
  PROVE  /\ UnsharedExact => UnsharedExact'
         /\ \A u \in Threads : /\ Array(u)' = Array(u) /\ Row(u)' = Row(u)
                               /\ Users(Array(u), Row(u))' = Users(Array(u), Row(u))
<1>1. UnsharedExact => UnsharedExact'
  BY DEF UnsharedExact, Users, AddedBy, Passed
<1>2. \A u \in Threads : Array(u)' = Array(u) /\ Row(u)' = Row(u)
  BY DEF Array, Row, Record
<1>3. \A u \in Threads : Users(Array(u), Row(u))' = Users(Array(u), Row(u))
  BY <1>2 DEF Users
<1> QED
  BY <1>1, <1>2, <1>3

LEMMA OwnInvStep ==
  ASSUME TypeInv, OwnInv, [Next]_vars
  PROVE  OwnInv'
<1>1. ASSUME NEW t \in Threads, Load(t) PROVE OwnInv'
  <2>1. /\ loaded' = [loaded EXCEPT ![t] = <<cell[Array(t)][Row(t)]>>]
        /\ UNCHANGED <<cell, epoch, pos, step>>
    BY <1>1 DEF Load
  <2>2. loaded \in [Threads -> NothingOr(SUBSET Gradients)]
    BY DEF TypeInv, TypeOK
  <2>3. LoadedOwn'
    <3> SUFFICES ASSUME NEW u \in Threads, loaded'[u] # << >>, Users(Array(u), Row(u))' = {u}
                 PROVE  loaded'[u][1] = cell'[Array(u)'][Row(u)']
      BY DEF LoadedOwn
    <3>1. CASE u = t
      BY <2>1, <2>2, <3>1, AccountsStay
    <3>2. CASE u # t
      BY <2>1, <2>2, <3>2, AccountsStay DEF OwnInv, LoadedOwn
    <3> QED
      BY <3>1, <3>2
  <2> QED
    BY <2>1, <2>3, AccountsStay DEF OwnInv
<1>2. CASE UNCHANGED <<cell, epoch, pos, step, loaded>>
  <2>1. LoadedOwn'
    BY <1>2, AccountsStay DEF OwnInv, LoadedOwn
  <2> QED
    BY <1>2, <2>1, AccountsStay DEF OwnInv
<1> QED
  BY <1>1, <1>2, OwnStoreStep, OwnNextStep DEF Next, ReadDivisor, vars

(* A row that one thread alone updates has taken in exactly what this      *)
(* thread added in all epochs (train, single_thread).                      *)
THEOREM UnsharedRowsExact == Spec => []UnsharedExact
<1>1. Init => OwnInv
  <2> SUFFICES ASSUME Init PROVE OwnInv
    OBVIOUS
  <2>1. LoadedOwn
    BY DEF Init, LoadedOwn
  <2>2. UnsharedExact
    <3> SUFFICES ASSUME NEW k \in 1 .. 8, NEW w \in Words, NEW t \in Threads
                 PROVE  cell[Steps[k]][w] = AddedBy(t, k, w)
      BY StepsFacts DEF UnsharedExact
    <3>1. \A n \in DOMAIN Region[t] : ~ Passed(t, k, n)
      <4>1. \A n \in DOMAIN Region[t] : n \in Nat \ {0}
        BY HogwildAssumption
      <4> QED
        BY <4>1 DEF Init, Passed
    <3>2. \A g \in (1 .. epoch) \X Records : ~ g[1] < epoch
      BY DEF Init
    <3>3. AddedBy(t, k, w) = {}
      BY <3>1, <3>2 DEF AddedBy
    <3> QED
      BY <3>3, StepsFacts DEF Init, NoGradients
  <2> QED
    BY <2>1, <2>2 DEF OwnInv
<1> QED
  BY <1>1, OwnInvStep, TypeCorrect, PTL DEF Spec, OwnInv

==============================================================================
