-------------------------------- MODULE Train --------------------------------
(***************************************************************************)
(* Train::train: in every epoch the records of log/cooccur.bin are divided *)
(* among threads, each of which reads its region of the file from a stream *)
(* of its own.  An epoch ends when all threads are joined.                 *)
(*                                                                         *)
(* Offsets are counted in records, not bytes: every offset the code        *)
(* computes is a multiple of sizeof(CREC).  What a thread does with a      *)
(* record is a visit; the races on the parameters it updates are not shown.*)
(***************************************************************************)
EXTENDS Integers, FiniteSetsExt

CONSTANTS
  Threads,     \* threads
  RecordCounts,\* the numbers of records the file may have
  Epochs,      \* epoch
  IntRecords   \* an int counts the bytes of fewer than this many records

ASSUME TrainAssumption ==
  /\ Threads \in Nat \ {0}
  /\ RecordCounts \subseteq Nat \ {0}
  /\ Epochs \in Nat
  /\ IntRecords \in Nat \ {0}

Tids == 0 .. Threads - 1

VARIABLES
  records,  \* the number of records in log/cooccur.bin
  epoch,    \* _epoch
  spawned,  \* threadId, the number of threads started in this epoch
  joined,   \* how many of them were joined
  thread,   \* the state of each thread
  pos,      \* where its stream stands
  loss,     \* partial_loss, as the number of records that contributed
  visits    \* how often each record was used

vars == <<records, epoch, spawned, joined, thread, pos, loss, visits>>

Positions == 0 .. records - 1

-----------------------------------------------------------------------------
(* Train::threadCount *)

(* untils::size returns the length of the file as an int. *)
Size == ((records + IntRecords) % (2 * IntRecords)) - IntRecords

(* The division of C rounds towards 0. *)
SingleNum == IF Size >= 0 THEN Size \div Threads ELSE - ((- Size) \div Threads)

(* The remainder of the division belongs to no thread. *)
ThreadInfo_NoRest(n) == n * SingleNum

ThreadInfo(n) == IF n = Threads THEN Size ELSE n * SingleNum

Init ==
  /\ records \in RecordCounts
  /\ epoch = 0
  /\ spawned = 0
  /\ joined = 0
  /\ thread = [t \in Tids |-> "none"]
  /\ pos = [t \in Tids |-> 0]
  /\ loss = [t \in Tids |-> 0]
  /\ visits = [r \in Positions |-> 0]

-----------------------------------------------------------------------------
(* Train::train, on the main thread *)

Spawn ==
  /\ epoch # Epochs
  /\ spawned < Threads
  /\ thread' = [thread EXCEPT ![spawned] = "spawned"]
  /\ spawned' = spawned + 1
  /\ UNCHANGED <<records, epoch, joined, pos, loss, visits>>

Join ==
  /\ spawned = Threads
  /\ joined < Threads
  /\ thread[joined] = "ended"
  /\ thread' = [thread EXCEPT ![joined] = "none"]
  /\ joined' = joined + 1
  /\ UNCHANGED <<records, epoch, spawned, pos, loss, visits>>

(* The next epoch begins without waiting for the last thread. *)
EndEpoch_Early ==
  /\ spawned = Threads
  /\ joined >= Threads - 1
  /\ epoch' = epoch + 1
  /\ spawned' = 0
  /\ joined' = 0
  /\ UNCHANGED <<records, thread, pos, loss, visits>>

(* The loop that starts the threads does not start over. *)
EndEpoch_NoRestart ==
  /\ spawned = Threads
  /\ joined = Threads
  /\ epoch' = epoch + 1
  /\ joined' = 0
  /\ UNCHANGED <<records, spawned, thread, pos, loss, visits>>

EndEpoch ==
  /\ spawned = Threads
  /\ joined = Threads
  /\ epoch' = epoch + 1
  /\ spawned' = 0
  /\ joined' = 0
  /\ UNCHANGED <<records, thread, pos, loss, visits>>

Main == Spawn \/ Join \/ EndEpoch

-----------------------------------------------------------------------------
(* Train::single_thread *)

(* partial_loss[threadId] is not set to 0. *)
Begin_KeepsLoss(t) ==
  /\ thread[t] = "spawned"
  /\ thread' = [thread EXCEPT ![t] = IF ThreadInfo(t) < 0
                                     THEN "ended" ELSE "running"]
  /\ pos' = [pos EXCEPT ![t] = IF ThreadInfo(t) < 0 THEN 0 ELSE ThreadInfo(t)]
  /\ UNCHANGED <<records, epoch, spawned, joined, loss, visits>>

(* Opening the file and seeking; a seek to a negative offset fails, and    *)
(* the loop is never entered.                                              *)
Begin(t) ==
  /\ thread[t] = "spawned"
  /\ thread' = [thread EXCEPT ![t] = IF ThreadInfo(t) < 0
                                     THEN "ended" ELSE "running"]
  /\ pos' = [pos EXCEPT ![t] = IF ThreadInfo(t) < 0 THEN 0 ELSE ThreadInfo(t)]
  /\ loss' = [loss EXCEPT ![t] = 0]
  /\ UNCHANGED <<records, epoch, spawned, joined, visits>>

Visit(t, r) ==
  /\ visits' = [visits EXCEPT ![r] = @ + 1]
  /\ loss' = [loss EXCEPT ![t] = @ + 1]

(* One round of the loop, ending where the region of the next thread begins.*)
ReadRecord(t) ==
  /\ thread[t] = "running"
  /\ pos[t] < records
  /\ Visit(t, pos[t])
  /\ pos' = [pos EXCEPT ![t] = @ + 1]
  /\ thread' = [thread EXCEPT ![t] = IF pos[t] + 1 = ThreadInfo(t + 1)
                                     THEN "ended" ELSE "running"]
  /\ UNCHANGED <<records, epoch, spawned, joined>>

(* A read at the end of the file fails and leaves i, j and val alone: the  *)
(* record before it is used again.                                         *)
ReadPastEnd(t) ==
  /\ thread[t] = "running"
  /\ pos[t] = records
  /\ Visit(t, records - 1)
  /\ thread' = [thread EXCEPT ![t] = "ended"]
  /\ UNCHANGED <<records, epoch, spawned, joined, pos>>

Worker(t) == Begin(t) \/ ReadRecord(t) \/ ReadPastEnd(t)

Next == Main \/ \E t \in Tids : Worker(t)

(* The scheduler of the operating system runs every thread that can run.   *)
Spec ==
  /\ Init /\ [][Next]_vars
  /\ WF_vars(Main)
  /\ \A t \in Tids : WF_vars(Worker(t))

-----------------------------------------------------------------------------
TypeOK ==
  /\ records \in RecordCounts
  /\ epoch \in 0 .. Epochs
  /\ spawned \in 0 .. Threads
  /\ joined \in 0 .. Threads
  /\ thread \in [Tids -> {"none", "spawned", "running", "ended"}]
  /\ pos \in [Tids -> 0 .. records]
  /\ loss \in [Tids -> Nat]
  /\ visits \in [Positions -> Nat]

(* The files for which threadCount is right: a record for every thread, and*)
(* a length that is an int.                                                *)
Regular == Threads <= records /\ records < IntRecords

(* The regions of threadCount cover the file and do not overlap, and the   *)
(* epochs do not overlap either: no record is used a second time in an     *)
(* epoch, and none is missed when the next epoch begins.                   *)
OncePerEpoch ==
  Regular =>
    \A r \in Positions :
      /\ visits[r] \in {epoch, epoch + 1}
      /\ spawned = 0 => visits[r] = epoch

(* The loss printed for an epoch is that of all records, in this epoch.    *)
LossOfEpoch ==
  Regular /\ joined = Threads =>
    MapThenSumSet(LAMBDA t : loss[t], Tids) = records

(* A file whose length is negative as an int, of 2 to 4 GiB, is still used *)
(* from its beginning to its end in every epoch, as is one with fewer      *)
(* records than threads.  The length of a longer one is an int that is too *)
(* small, and the end of the file is not used.                             *)
EveryRecordUsed ==
  records < 2 * IntRecords /\ spawned = 0 =>
    \A r \in Positions : visits[r] >= epoch

(* An epoch that has begun ends, and training comes to an end.             *)
TrainingEnds == <>(epoch = Epochs)

=============================================================================
