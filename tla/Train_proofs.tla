----------------------------- MODULE Train_proofs -----------------------------
(***************************************************************************)
(* What holds of Train::train for every number of threads and every file:  *)
(* the types; that every record of a Regular file is used exactly once in  *)
(* every epoch, and every record of any file up to 4 GiB at least once;    *)
(* and that the loss of an epoch has one term for each record.             *)
(*                                                                         *)
(* OncePerEpoch is not inductive: it does not say where the threads stand. *)
(* The invariant Regions does: in the region of a thread, the records      *)
(* before its frontier were used in this epoch, and the others were not.   *)
(* LossInv adds what a thread has summed up by then, and FirstInv what the *)
(* first thread has used of a file that is not Regular.                    *)
(***************************************************************************)
EXTENDS Train, FiniteSetTheorems, WellFoundedInduction, TLAPS

Region(t) == ThreadInfo(t) .. ThreadInfo(t + 1) - 1

(* The first record of the region of t that t has not used in this epoch.  *)
Frontier(t) ==
  IF t >= spawned \/ thread[t] = "spawned" THEN ThreadInfo(t)
  ELSE IF thread[t] = "running" THEN pos[t]
  ELSE ThreadInfo(t + 1)

(* Which threads exist: those started and not yet joined. *)
Started ==
  /\ joined <= spawned
  /\ epoch = Epochs => spawned = 0
  /\ joined > 0 => spawned = Threads
  /\ \A t \in Tids : thread[t] = "none" <=> (t < joined \/ t >= spawned)

Regions ==
  \A t \in Tids :
    /\ thread[t] = "running" => pos[t] \in Region(t)
    /\ \A r \in Region(t) :
         visits[r] = IF r < Frontier(t) THEN epoch + 1 ELSE epoch

Inv == TypeOK /\ Started /\ (Regular => Regions)

-----------------------------------------------------------------------------
(* The arithmetic of threadCount (train.cpp:161-169). *)

LEMMA SizeIsRecords ==
  ASSUME Regular, records \in RecordCounts
  PROVE  Size = records
BY TrainAssumption, SMT DEF Size, Regular

LEMMA SingleNumFits ==
  ASSUME Regular, records \in RecordCounts
  PROVE  /\ SingleNum \in Nat \ {0}
         /\ Threads * SingleNum <= records
<1>1. Size = records /\ SingleNum = records \div Threads
  BY SizeIsRecords, TrainAssumption DEF SingleNum
<1> DEFINE q == records \div Threads
<1>2. q \in Nat /\ Threads * q <= records /\ records < Threads * (q + 1)
  BY TrainAssumption
<1> HIDE DEF q
<1>3. q # 0
  BY <1>2, TrainAssumption DEF Regular
<1> QED
  BY <1>1, <1>2, <1>3 DEF q

(* Regions follow one another, none is empty, and the last one ends where  *)
(* the file ends.                                                          *)
LEMMA RegionBounds ==
  ASSUME Regular, records \in RecordCounts, NEW t \in Tids
  PROVE  /\ ThreadInfo(t) \in Nat
         /\ ThreadInfo(t + 1) \in Nat
         /\ ThreadInfo(t) < ThreadInfo(t + 1)
         /\ ThreadInfo(t + 1) <= records
<1> DEFINE s == SingleNum
<1>1. /\ s \in Nat \ {0} /\ Threads * s <= records
      /\ t \in Nat /\ t < Threads /\ Threads \in Nat /\ records \in Nat
  BY SingleNumFits, TrainAssumption DEF Tids
<1>2. t * s \in Nat /\ (t + 1) * s = t * s + s
  BY <1>1
<1>3. (t + 1) * s <= Threads * s
  <2>1. (Threads - (t + 1)) \in Nat
    BY <1>1
  <2>2. (Threads - (t + 1)) * s \in Nat
    BY <1>1, <2>1
  <2>3. Threads * s = (t + 1) * s + (Threads - (t + 1)) * s
    BY <1>1
  <2> QED
    BY <1>1, <1>2, <2>2, <2>3
<1>4. ThreadInfo(t) = t * s
  BY <1>1 DEF ThreadInfo
<1>5. ThreadInfo(t + 1) = IF t + 1 = Threads THEN records ELSE (t + 1) * s
  BY SizeIsRecords DEF ThreadInfo
<1> HIDE DEF s
<1> QED
  BY <1>1, <1>2, <1>3, <1>4, <1>5

LEMMA RegionsDisjoint ==
  ASSUME Regular, records \in RecordCounts, NEW t \in Tids, NEW u \in Tids, t < u
  PROVE  ThreadInfo(t + 1) <= ThreadInfo(u)
<1> DEFINE s == SingleNum
<1>1. /\ s \in Nat \ {0} /\ t \in Nat /\ u \in Nat
      /\ u < Threads /\ Threads \in Nat /\ t + 1 <= u
  BY SingleNumFits, TrainAssumption DEF Tids
<1>2. ThreadInfo(t + 1) = (t + 1) * s /\ ThreadInfo(u) = u * s
  BY <1>1 DEF ThreadInfo
<1>3. u * s = (t + 1) * s + (u - (t + 1)) * s
  BY <1>1
<1>4. (u - (t + 1)) * s \in Nat /\ (t + 1) * s \in Nat
  BY <1>1
<1> HIDE DEF s
<1> QED
  BY <1>2, <1>3, <1>4

LEMMA RegionsCover ==
  ASSUME Regular, records \in RecordCounts, NEW r \in Positions
  PROVE  \E t \in Tids : r \in Region(t)
<1> DEFINE s == SingleNum
           q == r \div s
<1>1. /\ s \in Nat \ {0} /\ r \in Nat /\ r < records
      /\ Threads \in Nat \ {0} /\ records \in Nat
  BY SingleNumFits, TrainAssumption DEF Positions
<1> HIDE DEF s
<1>2. q \in Nat /\ q * s <= r /\ r < (q + 1) * s
  BY <1>1
<1> HIDE DEF q
<1>3. CASE q < Threads - 1
  <2>1. q \in Tids /\ ThreadInfo(q) = q * s /\ ThreadInfo(q + 1) = (q + 1) * s
    BY <1>1, <1>2, <1>3 DEF ThreadInfo, Tids, s
  <2>2. q * s \in Int /\ (q + 1) * s \in Int
    BY <1>1, <1>2
  <2> QED
    BY <1>1, <1>2, <2>1, <2>2 DEF Region
<1>4. CASE q >= Threads - 1
  <2> DEFINE t == Threads - 1
  <2>1. t \in Tids /\ t \in Nat /\ t <= q
    BY <1>1, <1>2, <1>4 DEF Tids
  <2>2. ThreadInfo(t) = t * s /\ ThreadInfo(t + 1) = records
    BY <1>1, SizeIsRecords DEF ThreadInfo, s
  <2>3. t * s <= q * s
    <3>1. q * s = t * s + (q - t) * s
      BY <1>1, <1>2, <2>1
    <3>2. (q - t) * s \in Nat /\ t * s \in Nat
      BY <1>1, <1>2, <2>1
    <3> QED
      BY <3>1, <3>2
  <2>4. t * s \in Int /\ q * s \in Int
    BY <1>1, <1>2, <2>1
  <2> HIDE DEF t
  <2>5. r \in Region(t)
    BY <1>1, <1>2, <2>2, <2>3, <2>4 DEF Region
  <2> QED
    BY <2>1, <2>5
<1> QED
  BY <1>1, <1>2, <1>3, <1>4
-----------------------------------------------------------------------------
(* What holds of the division whatever the length of the file. *)

LEMMA SizeBound ==
  ASSUME records \in RecordCounts
  PROVE  Size \in Int /\ Size <= records
<1> DEFINE x == records + IntRecords
           m == 2 * IntRecords
<1>1. x \in Nat /\ m \in Nat \ {0} /\ records \in Nat /\ IntRecords \in Nat
  BY TrainAssumption
<1>2. Size = (x % m) - IntRecords
  BY DEF Size
<1>3. x = records + IntRecords
  OBVIOUS
<1> HIDE DEF x, m
<1>4. x % m \in Nat /\ x % m <= x
  <2>1. x \div m \in Nat /\ x % m \in Nat /\ x = m * (x \div m) + (x % m)
    BY <1>1
  <2>2. m * (x \div m) \in Nat
    BY <1>1, <2>1
  <2> QED
    BY <1>1, <2>1, <2>2
<1> QED
  BY <1>1, <1>2, <1>3, <1>4

(* No thread starts beyond the end of the file. *)
LEMMA StartBound ==
  ASSUME records \in RecordCounts, NEW t \in Tids
  PROVE  ThreadInfo(t) \in Int /\ ThreadInfo(t) <= records
<1>1. /\ Size \in Int /\ Size <= records /\ records \in Nat
      /\ t \in Nat /\ t < Threads /\ Threads \in Nat \ {0}
  BY SizeBound, TrainAssumption DEF Tids
<1>2. ThreadInfo(t) = t * SingleNum
  BY <1>1 DEF ThreadInfo
<1>3. CASE Size >= 0
  <2> DEFINE q == Size \div Threads
  <2>1. q \in Nat /\ Threads * q <= Size
    BY <1>1, <1>3
  <2>2. SingleNum = q
    BY <1>3 DEF SingleNum
  <2> HIDE DEF q
  <2>3. Threads * q = t * q + (Threads - t) * q /\ t * q \in Nat
    BY <1>1, <2>1
  <2>4. (Threads - t) * q \in Nat
    <3>1. Threads - t \in Nat
      BY <1>1
    <3> QED
      BY <2>1, <3>1
  <2> QED
    BY <1>1, <1>2, <2>1, <2>2, <2>3, <2>4
<1>4. CASE Size < 0
  <2> DEFINE q == (- Size) \div Threads
  <2>1. q \in Nat
    BY <1>1, <1>4
  <2>2. SingleNum = - q
    BY <1>1, <1>4 DEF SingleNum
  <2> HIDE DEF q
  <2>3. t * q \in Nat /\ t * (- q) = - (t * q)
    BY <1>1, <2>1
  <2> QED
    BY <1>1, <1>2, <2>2, <2>3
<1> QED
  BY <1>1, <1>3, <1>4

(* The file is not written while it is used. *)
LEMMA SameFile ==
  ASSUME records' = records
  PROVE  /\ Positions' = Positions
         /\ Regular' = Regular
         /\ \A n : ThreadInfo(n)' = ThreadInfo(n)
         /\ \A n : Region(n)' = Region(n)
<1>1. Size' = Size
  BY DEF Size
<1>2. SingleNum' = SingleNum
  BY <1>1 DEF SingleNum
<1>3. \A n : ThreadInfo(n)' = ThreadInfo(n)
  BY <1>1, <1>2 DEF ThreadInfo
<1> QED
  BY <1>3 DEF Positions, Regular, Region

-----------------------------------------------------------------------------
(* What the steps of the threads do to the regions. *)

LEMMA InitInv == ASSUME Init PROVE Inv
<1> USE TrainAssumption DEF Init
<1>1. TypeOK
  BY DEF TypeOK
<1>2. Started
  BY DEF Started, Tids
<1>3. ASSUME Regular, NEW t \in Tids, NEW r \in Region(t)
      PROVE  r \in Positions /\ ~ (r < ThreadInfo(t))
  BY <1>3, RegionBounds DEF Region, Positions
<1>4. Regular => Regions
  BY <1>3 DEF Regions, Frontier, Tids
<1> QED
  BY <1>1, <1>2, <1>4 DEF Inv

LEMMA SpawnInv == ASSUME Inv, Spawn PROVE Inv'
<1> USE TrainAssumption
<1>1. /\ spawned \in Tids /\ spawned' = spawned + 1
      /\ thread' = [thread EXCEPT ![spawned] = "spawned"]
      /\ UNCHANGED <<records, epoch, joined, pos, loss, visits>>
  BY DEF Inv, TypeOK, Spawn, Tids
<1>2. TypeOK'
  BY <1>1, SameFile DEF Inv, TypeOK, Tids
<1>3. Started'
  BY <1>1 DEF Inv, TypeOK, Started, Spawn, Tids
<1>4. ASSUME NEW t \in Tids
      PROVE  /\ Frontier(t)' = Frontier(t)
             /\ thread'[t] = "running" => thread[t] = "running"
  BY <1>1, SameFile DEF Inv, TypeOK, Frontier, Tids
<1>5. Regular' => Regions'
  BY <1>1, <1>4, SameFile DEF Inv, Regions
<1> QED
  BY <1>2, <1>3, <1>5 DEF Inv

LEMMA JoinInv == ASSUME Inv, Join PROVE Inv'
<1> USE TrainAssumption
<1>1. /\ spawned = Threads /\ joined \in Tids /\ thread[joined] = "ended"
      /\ joined' = joined + 1
      /\ thread' = [thread EXCEPT ![joined] = "none"]
      /\ UNCHANGED <<records, epoch, spawned, pos, loss, visits>>
  BY DEF Inv, TypeOK, Join, Tids
<1>2. TypeOK'
  BY <1>1, SameFile DEF Inv, TypeOK, Tids
<1>3. Started'
  BY <1>1 DEF Inv, TypeOK, Started, Tids
<1>4. ASSUME NEW t \in Tids
      PROVE  /\ Frontier(t)' = Frontier(t)
             /\ thread'[t] = "running" => thread[t] = "running"
  BY <1>1, SameFile DEF Inv, TypeOK, Frontier, Tids
<1>5. Regular' => Regions'
  BY <1>1, <1>4, SameFile DEF Inv, Regions
<1> QED
  BY <1>2, <1>3, <1>5 DEF Inv

(* When all threads are joined every frontier is at the end of its region: *)
(* the whole file was used, and every region begins anew.                  *)
LEMMA EndEpochInv == ASSUME Inv, EndEpoch PROVE Inv'
<1> USE TrainAssumption
<1>1. /\ spawned = Threads /\ joined = Threads
      /\ spawned' = 0 /\ joined' = 0 /\ epoch' = epoch + 1
      /\ UNCHANGED <<records, thread, pos, loss, visits>>
      /\ epoch \in Nat /\ epoch # Epochs /\ epoch <= Epochs
      /\ records \in RecordCounts
  BY DEF Inv, TypeOK, Started, EndEpoch
<1>2. TypeOK'
  BY <1>1, SameFile DEF Inv, TypeOK
<1>3. \A t \in Tids : thread[t] = "none"
  BY <1>1 DEF Inv, Started, Tids
<1>4. Started'
  BY <1>1, <1>3 DEF Started, Tids
<1>5. ASSUME Regular, NEW t \in Tids, NEW r \in Region(t)
      PROVE  /\ visits[r] = epoch + 1
             /\ ~ (r < ThreadInfo(t))
  <2>1. Frontier(t) = ThreadInfo(t + 1)
    BY <1>1, <1>3 DEF Frontier, Tids
  <2>2. r < ThreadInfo(t + 1) /\ ~ (r < ThreadInfo(t))
    BY <1>1, <1>5, RegionBounds DEF Region
  <2> QED
    BY <1>5, <2>1, <2>2 DEF Inv, Regions
<1>6. \A t \in Tids : Frontier(t)' = ThreadInfo(t)
  BY <1>1, SameFile DEF Frontier, Tids
<1>7. Regular' => Regions'
  BY <1>1, <1>3, <1>5, <1>6, SameFile DEF Regions
<1> QED
  BY <1>2, <1>4, <1>7 DEF Inv

LEMMA BeginInv ==
  ASSUME Inv, NEW t \in Tids, Begin(t)
  PROVE  Inv'
<1> USE TrainAssumption
<1> DEFINE start == ThreadInfo(t)
<1>1. start \in Int /\ start <= records /\ records \in Nat
  BY StartBound DEF Inv, TypeOK
<1>2. /\ thread[t] = "spawned"
      /\ thread' = [thread EXCEPT ![t] = IF start < 0
                                         THEN "ended" ELSE "running"]
      /\ pos' = [pos EXCEPT ![t] = IF start < 0 THEN 0 ELSE start]
      /\ loss' = [loss EXCEPT ![t] = 0]
      /\ UNCHANGED <<records, epoch, spawned, joined, visits>>
  BY Zenon DEF Begin
<1> HIDE DEF start
<1>3. TypeOK'
  BY <1>1, <1>2, SameFile DEF Inv, TypeOK, Tids
<1>4. Started'
  BY <1>2 DEF Inv, TypeOK, Started, Tids
<1>5. ASSUME Regular
      PROVE  Regions'
  <2>1. /\ start \in Nat /\ start = ThreadInfo(t)
        /\ ThreadInfo(t + 1) \in Nat /\ start < ThreadInfo(t + 1)
    BY <1>5, RegionBounds DEF Inv, TypeOK, start
  <2>2. ASSUME NEW u \in Tids
        PROVE  Frontier(u)' = Frontier(u)
    BY <1>2, <2>1, SameFile DEF Inv, TypeOK, Started, Frontier, Tids
  <2>3. pos'[t] \in Region(t)
    BY <1>2, <2>1 DEF Inv, TypeOK, Region
  <2>4. ASSUME NEW u \in Tids, thread'[u] = "running"
        PROVE  pos'[u] \in Region(u)
    BY <1>2, <1>5, <2>3, <2>4 DEF Inv, TypeOK, Regions
  <2> QED
    BY <1>2, <1>5, <2>2, <2>4, SameFile DEF Inv, Regions
<1> QED
  BY <1>2, <1>3, <1>4, <1>5, SameFile DEF Inv

LEMMA ReadRecordTypes ==
  ASSUME Inv, NEW t \in Tids, ReadRecord(t)
  PROVE  TypeOK' /\ Started'
<1> USE TrainAssumption
<1> DEFINE p == pos[t]
<1>1. /\ thread[t] = "running" /\ p < records
      /\ visits' = [visits EXCEPT ![p] = @ + 1]
      /\ loss' = [loss EXCEPT ![t] = @ + 1]
      /\ pos' = [pos EXCEPT ![t] = p + 1]
      /\ thread' = [thread EXCEPT ![t] = IF p + 1 = ThreadInfo(t + 1)
                                         THEN "ended" ELSE "running"]
      /\ UNCHANGED <<records, epoch, spawned, joined>>
  BY Zenon DEF ReadRecord, Visit
<1>2. p \in Positions /\ p + 1 \in 0 .. records
  BY <1>1 DEF Inv, TypeOK, Positions
<1> HIDE DEF p
<1>3. pos' \in [Tids -> 0 .. records]
  BY <1>1, <1>2 DEF Inv, TypeOK
<1>4. visits' \in [Positions -> Nat] /\ loss' \in [Tids -> Nat]
  BY <1>1, <1>2 DEF Inv, TypeOK
<1>5. thread' \in [Tids -> {"none", "spawned", "running", "ended"}]
  BY <1>1 DEF Inv, TypeOK
<1>6. TypeOK'
  BY <1>1, <1>3, <1>4, <1>5, SameFile DEF Inv, TypeOK
<1>7. Started'
  BY <1>1 DEF Inv, TypeOK, Started, Tids
<1> QED
  BY <1>6, <1>7

(* A thread uses the record at its frontier, which lies in no other region.*)
LEMMA ReadRecordRegions ==
  ASSUME Inv, Regular, NEW t \in Tids, ReadRecord(t)
  PROVE  Regions'
<1> USE TrainAssumption
<1> DEFINE p == pos[t]
<1>1. /\ ThreadInfo(t) \in Nat /\ ThreadInfo(t + 1) \in Nat
      /\ ThreadInfo(t + 1) <= records /\ records \in RecordCounts
  BY RegionBounds DEF Inv, TypeOK
<1>2. /\ thread[t] = "running"
      /\ visits' = [visits EXCEPT ![p] = @ + 1]
      /\ pos' = [pos EXCEPT ![t] = p + 1]
      /\ thread' = [thread EXCEPT ![t] = IF p + 1 = ThreadInfo(t + 1)
                                         THEN "ended" ELSE "running"]
      /\ UNCHANGED <<records, epoch, spawned, joined>>
  BY Zenon DEF ReadRecord, Visit
<1>3. p \in Region(t) /\ p \in Nat
  BY <1>2 DEF Inv, TypeOK, Regions
<1>4. Frontier(t) = p
  BY <1>2 DEF Inv, Started, TypeOK, Frontier, Tids
<1>5. p \in Positions /\ p < ThreadInfo(t + 1) /\ ThreadInfo(t) <= p
  BY <1>1, <1>3 DEF Region, Positions
<1>6. visits[p] = epoch
  <2>1. visits[p] = IF p < Frontier(t) THEN epoch + 1 ELSE epoch
    BY <1>3 DEF Inv, Regions
  <2> QED
    BY <1>3, <1>4, <2>1
<1>7. Frontier(t)' = p + 1
  BY <1>2, <1>5, <1>3, SameFile DEF Inv, Started, TypeOK, Frontier, Tids
<1>8. \A u \in Tids : u # t => Frontier(u)' = Frontier(u)
  BY <1>2, SameFile DEF Inv, TypeOK, Frontier, Tids
<1>9. ASSUME NEW u \in Tids, u # t
      PROVE  p \notin Region(u)
  <2>1. ThreadInfo(u) \in Nat /\ ThreadInfo(u + 1) \in Nat
    BY <1>1, RegionBounds
  <2>2. CASE t < u
    BY <1>1, <1>5, <2>1, <2>2, RegionsDisjoint DEF Region
  <2>3. CASE u < t
    BY <1>1, <1>5, <2>1, <2>3, RegionsDisjoint DEF Region
  <2> QED
    BY <1>9, <2>2, <2>3 DEF Tids
<1> HIDE DEF p
<1>10. ASSUME NEW u \in Tids, thread'[u] = "running"
       PROVE  pos'[u] \in Region(u)
  <2>1. CASE u = t
    <3>1. pos'[t] = p + 1 /\ p + 1 # ThreadInfo(t + 1)
      BY <1>2, <1>10, <2>1 DEF Inv, TypeOK
    <3> QED
      BY <1>1, <1>3, <1>5, <2>1, <3>1 DEF Region
  <2>2. CASE u # t
    BY <1>2, <1>10, <2>2 DEF Inv, TypeOK, Regions
  <2> QED
    BY <2>1, <2>2
<1>11. ASSUME NEW u \in Tids, NEW r \in Region(u)
       PROVE  visits'[r] = IF r < Frontier(u)' THEN epoch + 1 ELSE epoch
  <2>1. visits[r] = IF r < Frontier(u) THEN epoch + 1 ELSE epoch
    BY DEF Inv, Regions
  <2>2. r \in Positions
    BY <1>1, RegionBounds, TrainAssumption DEF Region, Positions
  <2>3. CASE u # t
    <3>1. r # p
      BY <1>9, <2>3
    <3>2. visits'[r] = visits[r]
      BY <1>2, <2>2, <3>1 DEF Inv, TypeOK
    <3>3. Frontier(u)' = Frontier(u)
      BY <1>8, <2>3
    <3> QED
      BY <2>1, <3>2, <3>3
  <2>4. CASE u = t /\ r = p
    <3>1. visits'[p] = epoch + 1
      BY <1>2, <1>5, <1>6 DEF Inv, TypeOK
    <3>2. p < Frontier(t)'
      BY <1>3, <1>7
    <3> QED
      BY <2>4, <3>1, <3>2
  <2>5. CASE u = t /\ r # p
    <3>1. r \in Int /\ (r < p + 1 <=> r < p)
      BY <1>1, <1>3, <2>5 DEF Region
    <3> QED
      BY <1>2, <1>4, <1>7, <2>1, <2>5, <3>1 DEF Inv, TypeOK
  <2> QED
    BY <2>3, <2>4, <2>5
<1> QED
  BY <1>2, <1>10, <1>11, SameFile DEF Regions

(* No thread meets the end of a Regular file.                              *)
LEMMA ReadPastEndInv ==
  ASSUME Inv, NEW t \in Tids, ReadPastEnd(t)
  PROVE  Inv'
<1> USE TrainAssumption
<1> DEFINE last == records - 1
<1>1. /\ thread[t] = "running" /\ pos[t] = records
      /\ visits' = [visits EXCEPT ![last] = @ + 1]
      /\ loss' = [loss EXCEPT ![t] = @ + 1]
      /\ thread' = [thread EXCEPT ![t] = "ended"]
      /\ UNCHANGED <<records, epoch, spawned, joined, pos>>
  BY Zenon DEF ReadPastEnd, Visit
<1>2. last \in Positions
  BY DEF Inv, TypeOK, Positions
<1> HIDE DEF last
<1>3. TypeOK'
  <2>1. visits' \in [Positions -> Nat] /\ loss' \in [Tids -> Nat]
    BY <1>1, <1>2 DEF Inv, TypeOK
  <2>2. thread' \in [Tids -> {"none", "spawned", "running", "ended"}]
    BY <1>1 DEF Inv, TypeOK
  <2> QED
    BY <1>1, <2>1, <2>2, SameFile DEF Inv, TypeOK
<1>4. Started'
  BY <1>1 DEF Inv, TypeOK, Started, Tids
<1>5. ~ Regular
  BY <1>1, RegionBounds DEF Inv, TypeOK, Regions, Region
<1> QED
  BY <1>1, <1>3, <1>4, <1>5, SameFile DEF Inv

LEMMA NextInv == ASSUME Inv, [Next]_vars PROVE Inv'
<1>1. CASE Main
  BY <1>1, SpawnInv, JoinInv, EndEpochInv DEF Main
<1>2. ASSUME NEW t \in Tids, Worker(t)
      PROVE  Inv'
  <2>1. CASE Begin(t)
    BY <2>1, BeginInv
  <2>2. CASE ReadRecord(t)
    <3>1. records' = records
      BY <2>2 DEF ReadRecord
    <3> QED
      BY <2>2, <3>1, SameFile, ReadRecordTypes, ReadRecordRegions DEF Inv
  <2>3. CASE ReadPastEnd(t)
    BY <2>3, ReadPastEndInv
  <2> QED
    BY <1>2, <2>1, <2>2, <2>3 DEF Worker
<1>3. CASE UNCHANGED vars
  <2>1. UNCHANGED <<records, epoch, spawned, joined, thread, pos, loss, visits>>
    BY <1>3 DEF vars
  <2>2. \A t : Frontier(t)' = Frontier(t)
    BY <2>1, SameFile DEF Frontier
  <2> QED
    BY <2>1, <2>2, SameFile DEF Inv, TypeOK, Started, Regions
<1> QED
  BY <1>1, <1>2, <1>3 DEF Next

LEMMA InvImpliesOncePerEpoch == ASSUME Inv PROVE OncePerEpoch
<1> SUFFICES ASSUME Regular, NEW r \in Positions
             PROVE  /\ visits[r] \in {epoch, epoch + 1}
                    /\ spawned = 0 => visits[r] = epoch
  BY DEF OncePerEpoch
<1>1. records \in RecordCounts /\ Regions
  BY DEF Inv, TypeOK
<1>2. PICK t \in Tids : r \in Region(t)
  BY <1>1, RegionsCover
<1>3. visits[r] = IF r < Frontier(t) THEN epoch + 1 ELSE epoch
  BY <1>1, <1>2 DEF Regions
<1>4. spawned = 0 => ~ (r < Frontier(t))
  BY <1>1, <1>2, RegionBounds, TrainAssumption DEF Frontier, Region, Tids
<1> QED
  BY <1>3, <1>4

(* The invariant holds in every state of Train::train, for every file.     *)
THEOREM InvHolds == Spec => []Inv
<1>1. Init => Inv
  BY InitInv
<1>2. Inv /\ [Next]_vars => Inv'
  BY NextInv
<1> QED
  BY <1>1, <1>2, PTL DEF Spec

(* Train::train keeps the types of its variables; no thread reads outside  *)
(* the file, however long it is, and no more epochs are run than were      *)
(* asked for.                                                              *)
THEOREM TypeCorrect == Spec => []TypeOK
<1>1. Inv => TypeOK
  BY DEF Inv
<1> QED
  BY <1>1, InvHolds, PTL

(* Every epoch of Train::train uses every record of a Regular file exactly *)
(* once, whatever the threads' speeds: threadCount cuts the file into      *)
(* regions that cover it and are disjoint, and train joins all threads     *)
(* before it starts over.                                                  *)
THEOREM EpochsUseEachRecordOnce == Spec => []OncePerEpoch
<1>1. Inv => OncePerEpoch
  BY InvImpliesOncePerEpoch
<1> QED
  BY <1>1, InvHolds, PTL
-----------------------------------------------------------------------------
(* Sums over finite sets, as MapThenSumSet defines them.                   *)

(* A set of numbers has a least element. *)
LEMMA Least ==
  ASSUME NEW S \in SUBSET Nat, S # {}
  PROVE \E n \in S : \A m \in S : n <= m
<1> DEFINE R == OpToRel(<, Nat)
<1>1. IsWellFoundedOn(R, Nat)
  BY NatLessThanWellFounded
<1>2. R = {p \in Nat \X Nat : p[1] < p[2]}
  BY DEF OpToRel
<1> HIDE DEF R
<1>3. PICK n \in S : \A m \in S : ~ (<<m, n>> \in R)
  BY <1>1, WFMin
<1>4. ASSUME NEW m \in S, m < n PROVE FALSE
  <2>1. <<m, n>> \in Nat \X Nat /\ <<m, n>>[1] < <<m, n>>[2]
    BY <1>4
  <2> QED
    BY <1>2, <1>3, <2>1
<1> QED
  BY <1>3, <1>4

(* A sum over a finite set is what adds up element by element. *)
LEMMA SumIsAddedUp ==
  ASSUME NEW S, IsFiniteSet(S), NEW w \in [S -> Nat], NEW g \in [SUBSET S -> Nat],
         g[{}] = 0,
         \A s \in SUBSET S : \A x \in s : g[s] = w[x] + g[s \ {x}]
  PROVE  MapThenSumSet(LAMBDA x : w[x], S) = g[S]
<1> DEFINE Folds(f) == f = [s \in SUBSET S |->
                              IF s = {} THEN 0
                              ELSE w[CHOOSE x \in s : TRUE] + f[s \ {CHOOSE x \in s : TRUE}]]
           it == CHOOSE f : Folds(f)
<1>1. MapThenSumSet(LAMBDA x : w[x], S) = it[S]
  BY DEF MapThenSumSet, MapThenFoldSet
<1>2. Folds(g)
  <2>1. ASSUME NEW s \in SUBSET S, s # {}
        PROVE  g[s] = w[CHOOSE x \in s : TRUE] + g[s \ {CHOOSE x \in s : TRUE}]
    <3>1. (CHOOSE x \in s : TRUE) \in s
      BY <2>1
    <3> QED
      BY <3>1
  <2> DEFINE h == [s \in SUBSET S |->
                              IF s = {} THEN 0
                              ELSE w[CHOOSE x \in s : TRUE] + g[s \ {CHOOSE x \in s : TRUE}]]
  <2>2. \A s \in SUBSET S : g[s] = h[s]
    BY <2>1
  <2>3. DOMAIN h = SUBSET S /\ h = [s \in SUBSET S |-> h[s]] /\ g = [s \in SUBSET S |-> g[s]]
    OBVIOUS
  <2> HIDE DEF h
  <2>4. g = h
    BY <2>2, <2>3, Zenon
  <2> QED
    BY <2>4 DEF h
<1>3. Folds(it)
  <2> HIDE DEF Folds
  <2> QED
    BY <1>2
<1> HIDE DEF it
<1>4. ASSUME NEW s \in SUBSET S, it[s] # g[s]
      PROVE  FALSE
  <2> DEFINE Wrong == {u \in SUBSET S : it[u] # g[u]}
             Sizes == {Cardinality(u) : u \in Wrong}
  <2>1. \A u \in SUBSET S : IsFiniteSet(u) /\ Cardinality(u) \in Nat
    BY FS_Subset, FS_CardinalityType
  <2>2. Sizes \in SUBSET Nat /\ Sizes # {}
    BY <1>4, <2>1
  <2> HIDE DEF Sizes
  <2>3. PICK n \in Sizes : \A m \in Sizes : n <= m
    BY <2>2, Least
  <2>4. PICK u \in Wrong : Cardinality(u) = n
    BY <2>3 DEF Sizes
  <2>5. u # {}
    BY <1>3, <2>4
  <2> DEFINE x == CHOOSE x \in u : TRUE
  <2>6. x \in u /\ it[u] = w[x] + it[u \ {x}]
    BY <1>3, <2>4, <2>5
  <2> HIDE DEF x
  <2>7. u \ {x} \in SUBSET S /\ Cardinality(u \ {x}) = n - 1 /\ n \in Nat
    BY <2>1, <2>2, <2>3, <2>4, <2>6, FS_RemoveElement
  <2>8. it[u \ {x}] = g[u \ {x}]
    <3>1. u \ {x} \in Wrong => n - 1 \in Sizes
      BY <2>7 DEF Sizes
    <3>2. n - 1 \notin Sizes
      BY <2>3, <2>7
    <3> QED
      BY <2>7, <3>1, <3>2
  <2> QED
    BY <2>4, <2>6, <2>8
<1> QED
  BY <1>1, <1>4
-----------------------------------------------------------------------------
(***************************************************************************)
(* The loss.  While a thread runs it has added as many terms as it has     *)
(* used records of its region; the terms stay until it is started again.   *)
(***************************************************************************)
Losses ==
  \A t \in Tids :
    /\ thread[t] = "running" => loss[t] = pos[t] - ThreadInfo(t)
    /\ thread[t] = "ended" \/ t < joined =>
         loss[t] = ThreadInfo(t + 1) - ThreadInfo(t)

LossInv == Regular => Losses

LEMMA MainLosses ==
  ASSUME Inv, LossInv, Main
  PROVE  LossInv'
<1> SUFFICES ASSUME Regular, Losses
             PROVE  Losses'
  <2>1. records' = records
    BY DEF Main, Spawn, Join, EndEpoch
  <2> QED
    BY <2>1, SameFile DEF LossInv
<1> USE TrainAssumption
<1>1. CASE Spawn
  <2>1. /\ spawned \in Tids /\ UNCHANGED <<records, joined, pos, loss>>
        /\ thread' = [thread EXCEPT ![spawned] = "spawned"]
    BY <1>1 DEF Inv, TypeOK, Spawn, Tids
  <2>2. \A t \in Tids : t < joined => t # spawned
    BY <2>1 DEF Inv, TypeOK, Started, Tids
  <2>3. \A t \in Tids : thread'[t] = IF t = spawned THEN "spawned" ELSE thread[t]
    BY <2>1 DEF Inv, TypeOK
  <2> QED
    BY <2>1, <2>2, <2>3, SameFile DEF Losses
<1>2. CASE Join
  <2>1. /\ joined \in Tids /\ thread[joined] = "ended" /\ joined' = joined + 1
        /\ UNCHANGED <<records, pos, loss>>
        /\ thread' = [thread EXCEPT ![joined] = "none"]
    BY <1>2 DEF Inv, TypeOK, Join, Tids
  <2>2. \A t \in Tids : thread'[t] = IF t = joined THEN "none" ELSE thread[t]
    BY <2>1 DEF Inv, TypeOK
  <2>3. \A t \in Tids : t < joined' => t < joined \/ t = joined
    BY <2>1 DEF Tids
  <2> QED
    BY <2>1, <2>2, <2>3, SameFile DEF Losses
<1>3. CASE EndEpoch
  <2>1. /\ spawned = Threads /\ joined = Threads /\ joined' = 0
        /\ UNCHANGED <<records, thread, pos, loss>>
    BY <1>3 DEF EndEpoch
  <2>2. \A t \in Tids : thread[t] = "none" /\ ~ (t < 0)
    BY <2>1 DEF Inv, Started, Tids
  <2> QED
    BY <2>1, <2>2, SameFile DEF Losses
<1> QED
  BY <1>1, <1>2, <1>3 DEF Main

LEMMA WorkerLosses ==
  ASSUME Inv, LossInv, NEW t \in Tids, Worker(t)
  PROVE  LossInv'
<1> SUFFICES ASSUME Regular, Losses, Regions
             PROVE  Losses'
  <2>1. records' = records
    BY DEF Worker, Begin, ReadRecord, ReadPastEnd
  <2> QED
    BY <2>1, SameFile DEF LossInv, Inv
<1> USE TrainAssumption
<1>1. /\ records \in RecordCounts /\ thread \in [Tids -> {"none", "spawned", "running", "ended"}]
      /\ pos \in [Tids -> 0 .. records] /\ loss \in [Tids -> Nat]
  BY DEF Inv, TypeOK
<1> DEFINE start == ThreadInfo(t)
           stop == ThreadInfo(t + 1)
<1>2. start \in Nat /\ stop \in Nat /\ start < stop /\ stop <= records
  BY <1>1, RegionBounds
<1>3. ASSUME thread[t] # "none"
      PROVE  ~ (t < joined)
  BY <1>3 DEF Inv, Started
<1>4. CASE Begin(t)
  <2>1. /\ thread[t] = "spawned" /\ UNCHANGED <<records, joined>>
        /\ thread' = [thread EXCEPT ![t] = IF start < 0 THEN "ended" ELSE "running"]
        /\ pos' = [pos EXCEPT ![t] = IF start < 0 THEN 0 ELSE start]
        /\ loss' = [loss EXCEPT ![t] = 0]
    BY <1>4, Zenon DEF Begin
  <2>2. ~ (start < 0) /\ start - start = 0
    BY <1>2
  <2>3. thread'[t] = "running" /\ pos'[t] = start /\ loss'[t] = 0
    BY <1>1, <2>1, <2>2
  <2>4. \A u \in Tids : u # t => /\ thread'[u] = thread[u] /\ pos'[u] = pos[u]
                                 /\ loss'[u] = loss[u]
    BY <1>1, <2>1
  <2> QED
    BY <1>3, <2>1, <2>2, <2>3, <2>4, SameFile DEF Losses
<1>5. CASE ReadRecord(t)
  <2> DEFINE p == pos[t]
  <2>1. /\ thread[t] = "running" /\ UNCHANGED <<records, joined>>
        /\ loss' = [loss EXCEPT ![t] = @ + 1]
        /\ pos' = [pos EXCEPT ![t] = p + 1]
        /\ thread' = [thread EXCEPT ![t] = IF p + 1 = stop THEN "ended" ELSE "running"]
    BY <1>5, Zenon DEF ReadRecord, Visit
  <2>2. loss[t] = p - start /\ p \in Nat
    BY <1>1, <2>1 DEF Losses
  <2> HIDE DEF p
  <2>3. /\ thread'[t] = IF p + 1 = stop THEN "ended" ELSE "running"
        /\ pos'[t] = p + 1 /\ loss'[t] = p + 1 - start
    BY <1>1, <1>2, <2>1, <2>2
  <2>4. \A u \in Tids : u # t => /\ thread'[u] = thread[u] /\ pos'[u] = pos[u]
                                 /\ loss'[u] = loss[u]
    BY <1>1, <2>1
  <2>5. \A u \in Tids : ThreadInfo(u)' = ThreadInfo(u) /\ ThreadInfo(u + 1)' = ThreadInfo(u + 1)
    BY <2>1, SameFile
  <2>6. ~ (t < joined')
    BY <1>3, <2>1
  <2>7. ASSUME NEW u \in Tids, u # t
        PROVE  /\ thread'[u] = "running" => loss'[u] = pos'[u] - ThreadInfo(u)
               /\ thread'[u] = "ended" \/ u < joined' =>
                    loss'[u] = ThreadInfo(u + 1) - ThreadInfo(u)
    BY <2>1, <2>4, <2>7 DEF Losses
  <2>8. /\ thread'[t] = "running" => loss'[t] = pos'[t] - ThreadInfo(t)
        /\ thread'[t] = "ended" \/ t < joined' =>
             loss'[t] = ThreadInfo(t + 1) - ThreadInfo(t)
    BY <1>2, <2>2, <2>3, <2>6
  <2> QED
    BY <2>5, <2>7, <2>8 DEF Losses
<1>6. CASE ReadPastEnd(t)
  BY <1>1, <1>2, <1>6 DEF ReadPastEnd, Regions, Region
<1> QED
  BY <1>4, <1>5, <1>6 DEF Worker

LEMMA NextLosses == ASSUME Inv, LossInv, [Next]_vars PROVE LossInv'
<1>1. CASE UNCHANGED vars
  <2>1. UNCHANGED <<records, joined, thread, pos, loss>>
    BY <1>1 DEF vars
  <2> QED
    BY <2>1, SameFile DEF LossInv, Losses
<1> QED
  BY <1>1, MainLosses, WorkerLosses DEF Next

(* The regions partition the file, so that their lengths add up to its     *)
(* own: the sum of partial_loss over any threads is the number of records  *)
(* in their regions.                                                       *)
LEMMA LossesAddUp ==
  ASSUME Inv, LossInv, Regular, joined = Threads
  PROVE  MapThenSumSet(LAMBDA t : loss[t], Tids) = records
<1> DEFINE Used(s) == {r \in Positions : \E t \in s : r \in Region(t)}
           g == [s \in SUBSET Tids |-> Cardinality(Used(s))]
<1>1. records \in RecordCounts /\ records \in Nat /\ loss \in [Tids -> Nat]
  BY TrainAssumption DEF Inv, TypeOK
<1>2. IsFiniteSet(Tids) /\ IsFiniteSet(Positions) /\ Cardinality(Positions) = records
  <2>1. 0 \in Int /\ Threads - 1 \in Int /\ records - 1 \in Int /\ records # 0
    BY <1>1, TrainAssumption
  <2>2. IsFiniteSet(0 .. Threads - 1) /\ IsFiniteSet(0 .. records - 1)
    BY <2>1, FS_Interval
  <2>3. Cardinality(0 .. records - 1) = IF 0 > records - 1 THEN 0 ELSE (records - 1) - 0 + 1
    BY <2>1, FS_Interval
  <2> QED
    BY <1>1, <2>1, <2>2, <2>3 DEF Tids, Positions
<1>3. ASSUME NEW t \in Tids
      PROVE  /\ IsFiniteSet(Region(t)) /\ Cardinality(Region(t)) = loss[t]
             /\ Region(t) \subseteq Positions
  <2>1. /\ ThreadInfo(t) \in Nat /\ ThreadInfo(t + 1) \in Nat
        /\ ThreadInfo(t) < ThreadInfo(t + 1) /\ ThreadInfo(t + 1) <= records
    BY <1>1, RegionBounds
  <2>2. loss[t] = ThreadInfo(t + 1) - ThreadInfo(t)
    BY TrainAssumption DEF LossInv, Losses, Tids
  <2> DEFINE a == ThreadInfo(t)
             b == ThreadInfo(t + 1) - 1
  <2>3. a \in Int /\ b \in Int /\ a <= b
    BY <2>1
  <2>4. Region(t) = a .. b
    BY DEF Region
  <2>5. loss[t] = b - a + 1 /\ a .. b \subseteq Positions
    BY <1>1, <2>1, <2>2 DEF Positions
  <2> HIDE DEF a, b
  <2>6. IsFiniteSet(a .. b) /\ Cardinality(a .. b) = IF a > b THEN 0 ELSE b - a + 1
    BY <2>3, FS_Interval
  <2> QED
    BY <2>3, <2>4, <2>5, <2>6
<1>4. \A s \in SUBSET Tids : IsFiniteSet(Used(s)) /\ Cardinality(Used(s)) \in Nat
  BY <1>2, FS_Subset, FS_CardinalityType
<1>5. g \in [SUBSET Tids -> Nat]
  BY <1>4
<1>6. g[{}] = 0
  <2>1. Used({}) = {} /\ {} \in SUBSET Tids
    OBVIOUS
  <2> QED
    BY <2>1, FS_EmptySet
<1>7. ASSUME NEW s \in SUBSET Tids, NEW t \in s
      PROVE  g[s] = loss[t] + g[s \ {t}]
  <2>1. s \ {t} \in SUBSET Tids /\ t \in Tids
    OBVIOUS
  <2>2. Used(s) = Region(t) \cup Used(s \ {t})
    BY <1>3, <2>1
  <2>3. Region(t) \cap Used(s \ {t}) = {}
    <3>1. ASSUME NEW u \in s \ {t}, NEW r \in Region(t)
          PROVE  r \notin Region(u)
      <4>1. /\ ThreadInfo(t) \in Nat /\ ThreadInfo(t + 1) \in Nat
            /\ ThreadInfo(u) \in Nat /\ ThreadInfo(u + 1) \in Nat
        BY <1>1, <2>1, RegionBounds
      <4>2. CASE t < u
        BY <1>1, <2>1, <4>1, <4>2, RegionsDisjoint DEF Region
      <4>3. CASE u < t
        BY <1>1, <2>1, <4>1, <4>3, RegionsDisjoint DEF Region
      <4> QED
        BY <2>1, <4>2, <4>3 DEF Tids
    <3> QED
      BY <3>1
  <2> DEFINE A == Region(t)
             B == Used(s \ {t})
  <2>4. IsFiniteSet(A) /\ IsFiniteSet(B) /\ Cardinality(A) = loss[t]
        /\ Cardinality(B) \in Nat /\ A \cap B = {} /\ loss[t] \in Nat
    BY <1>1, <1>3, <1>4, <2>1, <2>3
  <2>5. g[s] = Cardinality(A \cup B) /\ g[s \ {t}] = Cardinality(B)
    BY <2>1, <2>2
  <2> HIDE DEF A, B, g
  <2>6. Cardinality(A \cup B) = Cardinality(A) + Cardinality(B) - Cardinality(A \cap B)
    BY <2>4, FS_Union
  <2>7. Cardinality(A \cap B) = 0
    BY <2>4, FS_EmptySet
  <2> QED
    BY <2>4, <2>5, <2>6, <2>7
<1>8. g[Tids] = records
  <2>1. Used(Tids) = Positions
    BY <1>1, RegionsCover
  <2> QED
    BY <1>2, <2>1
<1> HIDE DEF g
<1> QED
  BY <1>1, <1>2, <1>5, <1>6, <1>7, <1>8, SumIsAddedUp

(* When the threads of an epoch are joined, the sum that train prints has  *)
(* one term for each record of a Regular file and none left from an        *)
(* earlier epoch (Train::train, single_thread).                            *)
THEOREM LossIsOfTheEpoch == Spec => []LossOfEpoch
<1>1. Init => LossInv
  BY TrainAssumption DEF Init, LossInv, Losses, Tids
<1>2. Inv /\ LossInv /\ [Next]_vars => LossInv'
  BY NextLosses
<1>3. Inv /\ LossInv => LossOfEpoch
  BY LossesAddUp DEF LossOfEpoch
<1> QED
  BY <1>1, <1>2, <1>3, InvHolds, PTL DEF Spec

-----------------------------------------------------------------------------
(***************************************************************************)
(* Every record of a short or long file.  When the file is not Regular the *)
(* first thread alone uses all of it: it starts at the beginning, and its  *)
(* region has no end that it could meet.                                   *)
(***************************************************************************)
FirstUsesAll ==
  /\ \A r \in Positions : visits[r] >= epoch
  /\ thread[0] = "running" =>
       \A r \in Positions : r < pos[0] => visits[r] >= epoch + 1
  /\ thread[0] = "ended" \/ joined > 0 =>
       \A r \in Positions : visits[r] >= epoch + 1

FirstInv == records < 2 * IntRecords /\ ~ Regular => FirstUsesAll

LEMMA FirstRegion ==
  ASSUME records \in RecordCounts, records < 2 * IntRecords, ~ Regular
  PROVE  /\ 0 \in Tids
         /\ ThreadInfo(0) = 0
         /\ ThreadInfo(1) \in Int
         /\ ThreadInfo(1) <= 0
<1>1. /\ Threads \in Nat \ {0} /\ IntRecords \in Nat \ {0} /\ records \in Nat \ {0}
      /\ 0 \in Tids
  BY TrainAssumption DEF Tids
<1>2. CASE records >= IntRecords
  <2> DEFINE x == records + IntRecords
             m == 2 * IntRecords
  <2>1. x \in Nat /\ m \in Nat \ {0} /\ m <= x /\ x < 2 * m
    BY <1>1, <1>2
  <2>2. x % m = x - m
    <3> HIDE DEF x, m
    <3> DEFINE q == x \div m
               y == x % m
    <3>1. q \in Nat /\ y \in 0 .. m - 1 /\ x = m * q + y
      BY <2>1
    <3> HIDE DEF q, y
    <3>2. CASE q = 0
      BY <2>1, <3>1, <3>2
    <3>3. CASE q = 1
      BY <2>1, <3>1, <3>3 DEF y
    <3>4. CASE q >= 2
      <4>1. q - 2 \in Nat
        BY <3>1, <3>4
      <4>2. m * (q - 2) \in Nat
        BY <2>1, <4>1
      <4>3. m * q = 2 * m + m * (q - 2)
        BY <2>1, <3>1
      <4> QED
        BY <2>1, <3>1, <4>2, <4>3
    <3> QED
      BY <3>1, <3>2, <3>3, <3>4
  <2>3. Size = records - 2 * IntRecords
    BY <1>1, <2>2 DEF Size
  <2>4. Size \in Int /\ Size < 0
    BY <1>1, <2>3
  <2> DEFINE q == (- Size) \div Threads
  <2>5. q \in Nat
    BY <1>1, <2>4
  <2>6. SingleNum = - q
    BY <2>4 DEF SingleNum
  <2> HIDE DEF q
  <2>7. ThreadInfo(0) = 0
    BY <1>1, <2>5, <2>6 DEF ThreadInfo
  <2>8. ThreadInfo(1) = IF Threads = 1 THEN Size ELSE - q
    BY <1>1, <2>5, <2>6 DEF ThreadInfo
  <2> QED
    BY <1>1, <2>4, <2>5, <2>7, <2>8
<1>3. CASE records < IntRecords
  <2>1. records < Threads
    BY <1>1, <1>3 DEF Regular
  <2>2. Size = records
    BY <1>1, <1>3 DEF Size
  <2>3. records \div Threads = 0
    BY <1>1, <2>1
  <2>4. SingleNum = 0
    BY <1>1, <2>2, <2>3 DEF SingleNum
  <2> QED
    BY <1>1, <2>1, <2>4 DEF ThreadInfo
<1> QED
  BY <1>1, <1>2, <1>3

LEMMA NextFirst == ASSUME Inv, FirstInv, [Next]_vars PROVE FirstInv'
<1>1. records' = records
  BY DEF Next, Main, Worker, Spawn, Join, EndEpoch, Begin, ReadRecord, ReadPastEnd, vars
<1> SUFFICES ASSUME records < 2 * IntRecords, ~ Regular, FirstUsesAll
             PROVE  FirstUsesAll'
  BY <1>1, SameFile DEF FirstInv
<1> USE TrainAssumption
<1>2. /\ 0 \in Tids /\ ThreadInfo(0) = 0
      /\ ThreadInfo(1) \in Int /\ ThreadInfo(1) <= 0
  BY FirstRegion DEF Inv, TypeOK
<1>3. /\ thread \in [Tids -> {"none", "spawned", "running", "ended"}]
      /\ pos \in [Tids -> 0 .. records] /\ records \in Nat
      /\ visits \in [Positions -> Nat] /\ epoch \in Nat /\ Positions' = Positions
  BY <1>1, SameFile DEF Inv, TypeOK
<1>4. CASE Spawn
  <2>1. /\ thread' = [thread EXCEPT ![spawned] = "spawned"]
        /\ UNCHANGED <<epoch, joined, pos, visits>>
    BY <1>4 DEF Spawn
  <2>2. thread'[0] \in {"running", "ended"} => thread'[0] = thread[0]
    BY <1>2, <1>3, <2>1
  <2> QED
    BY <1>3, <2>1, <2>2 DEF FirstUsesAll
<1>5. CASE Join
  <2>1. /\ thread[joined] = "ended" /\ joined' = joined + 1 /\ joined \in Nat
        /\ thread' = [thread EXCEPT ![joined] = "none"]
        /\ UNCHANGED <<epoch, pos, visits>>
    BY <1>5 DEF Join, Inv, TypeOK
  <2>2. thread'[0] \in {"running", "ended"} => thread'[0] = thread[0]
    BY <1>2, <1>3, <2>1
  <2>3. thread[0] = "ended" \/ joined > 0
    BY <2>1
  <2> QED
    BY <1>3, <2>1, <2>2, <2>3 DEF FirstUsesAll
<1>6. CASE EndEpoch
  <2>1. /\ spawned = Threads /\ joined = Threads /\ joined' = 0 /\ epoch' = epoch + 1
        /\ UNCHANGED <<thread, pos, visits>>
    BY <1>6 DEF EndEpoch
  <2>2. thread[0] = "none"
    BY <1>2, <2>1 DEF Inv, Started
  <2> QED
    BY <1>3, <2>1, <2>2 DEF FirstUsesAll
<1>7. ASSUME NEW t \in Tids, Begin(t)
      PROVE  FirstUsesAll'
  <2>1. /\ thread' = [thread EXCEPT ![t] = IF ThreadInfo(t) < 0 THEN "ended" ELSE "running"]
        /\ pos' = [pos EXCEPT ![t] = IF ThreadInfo(t) < 0 THEN 0 ELSE ThreadInfo(t)]
        /\ UNCHANGED <<epoch, joined, visits>>
    BY <1>7, Zenon DEF Begin
  <2>2. CASE t = 0
    <3>1. thread'[0] = "running" /\ pos'[0] = 0
      BY <1>2, <1>3, <2>1, <2>2
    <3>2. \A r \in Positions : ~ (r < 0)
      BY DEF Positions
    <3> QED
      BY <1>3, <2>1, <3>1, <3>2 DEF FirstUsesAll
  <2>3. CASE t # 0
    <3>1. thread'[0] = thread[0] /\ pos'[0] = pos[0]
      BY <1>2, <1>3, <2>1, <2>3
    <3> QED
      BY <1>3, <2>1, <3>1 DEF FirstUsesAll
  <2> QED
    BY <2>2, <2>3
<1>8. ASSUME NEW t \in Tids, ReadRecord(t)
      PROVE  FirstUsesAll'
  <2> DEFINE p == pos[t]
  <2>1. /\ visits' = [visits EXCEPT ![p] = @ + 1] /\ p < records /\ thread[t] = "running"
        /\ pos' = [pos EXCEPT ![t] = p + 1]
        /\ thread' = [thread EXCEPT ![t] = IF p + 1 = ThreadInfo(t + 1) THEN "ended" ELSE "running"]
        /\ UNCHANGED <<epoch, joined>>
    BY <1>8, Zenon DEF ReadRecord, Visit
  <2>2. p \in Nat /\ p \in Positions
    BY <1>3, <2>1 DEF Positions
  <2> HIDE DEF p
  <2>3. \A r \in Positions : /\ visits'[r] = IF r = p THEN visits[p] + 1 ELSE visits[r]
                             /\ visits'[r] >= visits[r]
    BY <1>3, <2>1, <2>2
  <2>4. CASE t = 0
    <3>1. p + 1 # ThreadInfo(0 + 1)
      BY <1>2, <2>2
    <3>2. thread'[0] = "running" /\ pos'[0] = p + 1 /\ pos[0] = p
      BY <1>2, <1>3, <2>1, <2>4, <3>1 DEF p
    <3>3. \A r \in Positions : r < p + 1 => r < p \/ r = p
      BY <2>2 DEF Positions
    <3>4. \A r \in Positions : r < p => visits[r] >= epoch + 1
      BY <2>1, <2>4, <3>2 DEF FirstUsesAll
    <3>5. \A r \in Positions : visits[r] >= epoch /\ visits[r] \in Nat
      BY <1>3 DEF FirstUsesAll
    <3>6. \A r \in Positions : r < p + 1 => visits'[r] >= epoch + 1
      BY <1>3, <2>2, <2>3, <3>3, <3>4, <3>5
    <3>7. \A r \in Positions : visits'[r] >= epoch
      BY <1>3, <2>2, <2>3, <3>5
    <3>8. joined > 0 => \A r \in Positions : visits'[r] >= epoch + 1
      BY <1>3, <2>2, <2>3, <3>5 DEF FirstUsesAll
    <3> QED
      BY <1>3, <2>1, <3>2, <3>6, <3>7, <3>8 DEF FirstUsesAll
  <2>5. CASE t # 0
    <3>1. thread'[0] = thread[0] /\ pos'[0] = pos[0]
      BY <1>2, <1>3, <2>1, <2>5
    <3>2. \A r \in Positions : visits[r] \in Nat /\ visits'[r] \in Nat
      BY <1>3, <2>2, <2>3
    <3>3. \A r \in Positions : visits[r] >= epoch => visits'[r] >= epoch
      BY <1>3, <2>3, <3>2
    <3>4. \A r \in Positions : visits[r] >= epoch + 1 => visits'[r] >= epoch + 1
      BY <1>3, <2>3, <3>2
    <3> QED
      BY <1>3, <2>1, <3>1, <3>3, <3>4 DEF FirstUsesAll
  <2> QED
    BY <2>4, <2>5
<1>9. ASSUME NEW t \in Tids, ReadPastEnd(t)
      PROVE  FirstUsesAll'
  <2> DEFINE last == records - 1
  <2>1. /\ visits' = [visits EXCEPT ![last] = @ + 1] /\ thread[t] = "running" /\ pos[t] = records
        /\ thread' = [thread EXCEPT ![t] = "ended"]
        /\ UNCHANGED <<epoch, joined, pos>>
    BY <1>9, Zenon DEF ReadPastEnd, Visit
  <2>2. last \in Positions
    BY <1>3 DEF Positions, Inv, TypeOK
  <2> HIDE DEF last
  <2>3. \A r \in Positions : visits[r] \in Nat /\ visits'[r] \in Nat /\ visits'[r] >= visits[r]
    BY <1>3, <2>1, <2>2
  <2>4. \A r \in Positions : visits[r] >= epoch => visits'[r] >= epoch
    BY <1>3, <2>3
  <2>5. \A r \in Positions : visits[r] >= epoch + 1 => visits'[r] >= epoch + 1
    BY <1>3, <2>3
  <2>6. CASE t = 0
    <3>1. thread'[0] = "ended" /\ thread[0] = "running" /\ pos[0] = records
      BY <1>2, <1>3, <2>1, <2>6
    <3>2. \A r \in Positions : r < records
      BY <1>3 DEF Positions
    <3> QED
      BY <1>3, <2>1, <2>4, <2>5, <3>1, <3>2 DEF FirstUsesAll
  <2>7. CASE t # 0
    <3>1. thread'[0] = thread[0]
      BY <1>2, <1>3, <2>1, <2>7
    <3> QED
      BY <1>3, <2>1, <2>4, <2>5, <3>1 DEF FirstUsesAll
  <2> QED
    BY <2>6, <2>7
<1>10. CASE UNCHANGED vars
  BY <1>3, <1>10 DEF vars, FirstUsesAll
<1> QED
  BY <1>4, <1>5, <1>6, <1>7, <1>8, <1>9, <1>10 DEF Next, Main, Worker

(* Whatever the number of threads, no record of a file of up to 4 GiB is   *)
(* left out of an epoch: neither if its length is negative as an int, nor  *)
(* if it has fewer records than there are threads (threadCount, train).    *)
THEOREM NoRecordLeftOut == Spec => []EveryRecordUsed
<1>1. Init => FirstInv
  BY TrainAssumption DEF Init, FirstInv, FirstUsesAll, Tids, Positions
<1>2. Inv /\ FirstInv /\ [Next]_vars => FirstInv'
  BY NextFirst
<1>3. Inv /\ FirstInv => EveryRecordUsed
  <2> SUFFICES ASSUME Inv, FirstInv, records < 2 * IntRecords, spawned = 0, NEW r \in Positions
               PROVE  visits[r] >= epoch
    BY DEF EveryRecordUsed
  <2>1. CASE Regular
    BY <2>1, InvImpliesOncePerEpoch DEF OncePerEpoch, Inv, TypeOK
  <2>2. CASE ~ Regular
    BY <2>2 DEF FirstInv, FirstUsesAll
  <2> QED
    BY <2>1, <2>2
<1> QED
  BY <1>1, <1>2, <1>3, InvHolds, PTL DEF Spec
=============================================================================
