---------------------------- MODULE TaskPool_proofs ----------------------------
(***************************************************************************)
(* The thread pools take every task once and in order, lose no wake-up of  *)
(* a task, and have run what they took when the destructor returns, for    *)
(* any number of workers, submitters and tasks.                            *)
(*                                                                         *)
(* None of these is inductive.  Taking in order needs that a worker that   *)
(* was let through by the predicate still finds the task when it takes it  *)
(* (FrontWaits: it held the mutex in between); the wake-ups need that a    *)
(* worker about to wait leaves an empty queue behind (SleepsOnEmpty), for  *)
(* when it waits it is no longer awake; and the destructor needs that a    *)
(* worker that was joined stays ended (DeadStayDead).                      *)
(***************************************************************************)
EXTENDS TaskPool, SequenceTheorems, FiniteSetTheorems, TLAPS

\* The predicate of a worker that is past it still holds, and one that runs has a
\* task.
FrontWaits ==
    \A w \in Workers : /\ pc[w] = "take" => Predicate
                       /\ pc[w] = "run" => task[w] # 0

\* The first tasks were taken, in order, and the others wait, in order.
Ordered ==
    /\ Len(started) + Len(taskQueue) = submitted
    /\ \A i \in 1 .. Len(started) : started[i] = i
    /\ \A i \in 1 .. Len(taskQueue) : taskQueue[i] = Len(started) + i

Running == {w \in Workers : pc[w] = "run"}

NoneForgotten == ToSet(started) = done \cup {task[w] : w \in Running}

TakenInv == TypeOK /\ FrontWaits /\ Ordered /\ NoneForgotten

SleepsOnEmpty == \A w \in Workers : pc[w] = "sleep" => taskQueue = << >>

WakeInv == SleepsOnEmpty /\ NoTaskSleeps

DeadStayDead == owner = "destroyed" => \A w \in Workers : pc[w] = "ended"

-----------------------------------------------------------------------------
(* The variables hold tasks. *)

LEMMA TypeInit ==
  ASSUME Init
  PROVE  TypeOK
<1>1. \A w \in Workers : pc[w] \in {"check", "sleep", "take"} <=> lock = w
  BY TaskPoolAssumption DEF Init
<1>2. 0 \in 0 .. NumTasks
  BY TaskPoolAssumption
<1>3. taskQueue \in Seq(1 .. NumTasks) /\ started \in Seq(1 .. NumTasks)
  BY EmptySeq DEF Init
<1> QED
  BY <1>1, <1>2, <1>3 DEF Init, TypeOK

LEMMA WorkerTypes ==
  ASSUME TypeOK, FrontWaits, NEW w \in Workers,
         LoopTest(w) \/ Lock(w) \/ Check(w) \/ Sleep(w) \/ SpuriousWake(w) \/ Run(w)
  PROVE  TypeOK'
<1>1. CASE LoopTest(w)
  BY <1>1 DEF TypeOK, LoopTest, Go, poolVars, callerVars
<1>2. CASE Lock(w)
  BY <1>2, TaskPoolAssumption DEF TypeOK, Lock, Go, callerVars
<1>3. CASE Check(w)
  BY <1>3 DEF TypeOK, Check, Go, poolVars, callerVars
<1>4. CASE Sleep(w)
  BY <1>4, TaskPoolAssumption DEF TypeOK, Sleep, Go, callerVars
<1>5. CASE SpuriousWake(w)
  BY <1>5 DEF TypeOK, SpuriousWake, Go, poolVars, callerVars
<1>6. CASE Run(w)
  <2>1. task[w] \in 1 .. NumTasks
    BY <1>6 DEF TypeOK, FrontWaits, Run, Go
  <2> QED
    BY <1>6, <2>1 DEF TypeOK, Run, Go, poolVars, callerVars
<1> QED
  BY <1>1, <1>2, <1>3, <1>4, <1>5, <1>6

(* A worker that takes finds a task, unless the pool is stopped. *)
LEMMA TaskWaits ==
  ASSUME TypeOK, FrontWaits, NEW w \in Workers, pc[w] = "take", ~stop
  PROVE  /\ taskQueue # << >> /\ taskQueue \in Seq(1 .. NumTasks)
         /\ Head(taskQueue) \in 1 .. NumTasks /\ Tail(taskQueue) \in Seq(1 .. NumTasks)
         /\ Len(Tail(taskQueue)) = Len(taskQueue) - 1
         /\ Head(taskQueue) = taskQueue[1]
         /\ \A i \in 1 .. Len(Tail(taskQueue)) : Tail(taskQueue)[i] = taskQueue[i + 1]
<1>1. taskQueue # << >>
  BY DEF FrontWaits, Predicate
<1>2. taskQueue \in Seq(1 .. NumTasks)
  BY DEF TypeOK
<1>3. /\ Head(taskQueue) \in 1 .. NumTasks /\ Tail(taskQueue) \in Seq(1 .. NumTasks)
      /\ Len(Tail(taskQueue)) = Len(taskQueue) - 1
      /\ \A i \in 1 .. Len(Tail(taskQueue)) : Tail(taskQueue)[i] = taskQueue[i + 1]
  BY <1>1, <1>2, HeadTailProperties
<1>4. Head(taskQueue) = taskQueue[1]
  BY <1>2
<1> QED
  BY <1>1, <1>2, <1>3, <1>4

LEMMA TakeTypes ==
  ASSUME TypeOK, FrontWaits, NEW w \in Workers, Take(w)
  PROVE  TypeOK'
<1>1. pc[w] = "take" /\ lock' = Nobody /\ UNCHANGED <<edition, stop, callerVars, done>>
  BY DEF Take, Go
<1>2. CASE stop
  <2>1. pc' = [pc EXCEPT ![w] = "ended"] /\ UNCHANGED <<taskQueue, task, started>>
    BY <1>2 DEF Take, Go
  <2> QED
    BY <1>1, <2>1, TaskPoolAssumption DEF TypeOK, callerVars
<1>3. CASE ~stop
  <2> DEFINE h == Head(taskQueue)
  <2>1. /\ pc' = [pc EXCEPT ![w] = "run"] /\ task' = [task EXCEPT ![w] = h]
        /\ started' = Append(started, h) /\ taskQueue' = Tail(taskQueue)
    BY <1>3 DEF Take, Go, Popped
  <2>2. started \in Seq(1 .. NumTasks)
    BY DEF TypeOK
  <2>3. h \in 1 .. NumTasks /\ taskQueue' \in Seq(1 .. NumTasks)
    BY <1>1, <1>3, <2>1, TaskWaits
  <2>4. started' \in Seq(1 .. NumTasks)
    BY <2>1, <2>2, <2>3, AppendProperties
  <2> HIDE DEF h
  <2> QED
    BY <1>1, <2>1, <2>3, <2>4, TaskPoolAssumption DEF TypeOK, callerVars
<1> QED
  BY <1>2, <1>3

LEMMA SubmitTypes ==
  ASSUME TypeOK, NEW s \in Submitters, Submit(s)
  PROVE  TypeOK'
<1>1. submitted' = submitted + 1 /\ submitted' \in 1 .. NumTasks
  BY TaskPoolAssumption DEF TypeOK, Submit
<1>2. taskQueue' \in Seq(1 .. NumTasks)
  BY <1>1, AppendProperties DEF TypeOK, Submit
<1> QED
  BY <1>1, <1>2 DEF TypeOK, Submit, workerVars

(* What a notification does to the workers. *)
LEMMA NotifyPc ==
  ASSUME TypeOK, NEW s \in Submitters, EndSubmit(s)
  PROVE  /\ pc' \in [Workers -> {"loop", "lock", "check", "sleep", "wait", "take", "run", "ended"}]
         /\ \A w \in Workers : pc'[w] = pc[w] \/ (pc[w] = "wait" /\ pc'[w] = "lock")
BY DEF TypeOK, EndSubmit, NotifyOne, Waiting

LEMMA NotifyAllPc ==
  ASSUME TypeOK, NotifyAll
  PROVE  /\ pc' \in [Workers -> {"loop", "lock", "check", "sleep", "wait", "take", "run", "ended"}]
         /\ \A w \in Workers : pc'[w] = pc[w] \/ (pc[w] = "wait" /\ pc'[w] = "lock")
BY DEF TypeOK, NotifyAll, Woken

LEMMA TypeStep ==
  ASSUME TypeOK, FrontWaits, [Next]_vars
  PROVE  TypeOK'
<1>1. ASSUME NEW s \in Submitters, EndSubmit(s) PROVE TypeOK'
  BY <1>1, NotifyPc DEF TypeOK, EndSubmit, poolVars
<1>2. CASE Stop
  BY <1>2 DEF TypeOK, Stop, workerVars
<1>3. CASE NotifyAll
  BY <1>3, NotifyAllPc DEF TypeOK, NotifyAll, poolVars
<1>4. CASE Join
  BY <1>4 DEF TypeOK, Join, poolVars, workerVars
<1>5. CASE UNCHANGED vars
  BY <1>5 DEF TypeOK, vars, poolVars, workerVars, callerVars
<1> QED
  BY <1>1, <1>2, <1>3, <1>4, <1>5, WorkerTypes, TakeTypes, SubmitTypes DEF Next, Worker

-----------------------------------------------------------------------------
(* Tasks are taken once and in order. *)

LEMMA FrontWaitsStep ==
  ASSUME TypeOK, FrontWaits, [Next]_vars
  PROVE  FrontWaits'
<1>1. ASSUME NEW w \in Workers, Take(w) PROVE FrontWaits'
  <2>1. /\ pc[w] = "take" /\ lock = w
        /\ \A v \in Workers : v # w => pc[v] # "take" /\ pc'[v] = pc[v] /\ task'[v] = task[v]
    BY <1>1 DEF TypeOK, Take, Go
  <2>2. pc'[w] # "take" /\ (pc'[w] = "run" => task'[w] # 0)
    <3>1. CASE stop
      BY <1>1, <3>1 DEF TypeOK, Take, Go
    <3>2. CASE ~stop
      <4>1. Head(taskQueue) \in 1 .. NumTasks
        BY <2>1, <3>2, TaskWaits
      <4>2. task'[w] = Head(taskQueue) /\ pc'[w] = "run"
        BY <1>1, <3>2 DEF TypeOK, Take, Go
      <4> QED
        BY <4>1, <4>2
    <3> QED
      BY <3>1, <3>2
  <2> QED
    BY <2>1, <2>2 DEF FrontWaits
<1>2. ASSUME NEW s \in Submitters, Submit(s) PROVE FrontWaits'
  <2>1. pc' = pc /\ task' = task /\ \A w \in Workers : pc[w] # "take"
    BY <1>2, TaskPoolAssumption DEF TypeOK, Submit, workerVars
  <2> QED
    BY <2>1 DEF FrontWaits
<1>3. ASSUME NEW s \in Submitters, EndSubmit(s) PROVE FrontWaits'
  BY <1>3, NotifyPc DEF FrontWaits, EndSubmit, poolVars, Predicate
<1>4. CASE NotifyAll
  BY <1>4, NotifyAllPc DEF FrontWaits, NotifyAll, poolVars, Predicate
<1>5. CASE Stop
  BY <1>5 DEF FrontWaits, Stop, workerVars, Predicate
<1>6. CASE Join
  BY <1>6 DEF FrontWaits, Join, poolVars, workerVars, Predicate
<1>7. CASE UNCHANGED vars
  BY <1>7 DEF FrontWaits, vars, poolVars, workerVars, Predicate
<1>8. ASSUME NEW w \in Workers, LoopTest(w) \/ Lock(w) \/ Check(w) \/ Sleep(w) \/ SpuriousWake(w) \/ Run(w)
      PROVE  FrontWaits'
  <2>1. /\ task' = task /\ taskQueue' = taskQueue /\ stop' = stop
        /\ \A v \in Workers : v # w => pc'[v] = pc[v]
        /\ pc'[w] # "run" /\ (pc'[w] = "take" => Predicate)
    BY <1>8 DEF LoopTest, Lock, Check, Sleep, SpuriousWake, Run, Go, poolVars, TypeOK
  <2> QED
    BY <2>1 DEF FrontWaits, Predicate
<1> QED
  BY <1>1, <1>2, <1>3, <1>4, <1>5, <1>6, <1>7, <1>8 DEF Next, Worker

LEMMA OrderedStep ==
  ASSUME TypeOK, FrontWaits, Ordered, [Next]_vars
  PROVE  Ordered'
<1>1. ASSUME NEW w \in Workers, Take(w), ~stop PROVE Ordered'
  <2> DEFINE h == Head(taskQueue)
  <2>1. started' = Append(started, h) /\ taskQueue' = Tail(taskQueue) /\ submitted' = submitted
    BY <1>1 DEF Take, Popped, callerVars
  <2>2. /\ h \in 1 .. NumTasks /\ h = taskQueue[1] /\ Len(taskQueue') = Len(taskQueue) - 1
        /\ \A i \in 1 .. Len(taskQueue') : taskQueue'[i] = taskQueue[i + 1]
        /\ taskQueue \in Seq(1 .. NumTasks) /\ taskQueue # << >> /\ Len(taskQueue') \in Nat
    BY <1>1, <2>1, TaskWaits, LenProperties DEF Take, Go
  <2>3. started \in Seq(1 .. NumTasks) /\ Len(started) \in Nat /\ Len(taskQueue) \in Nat \ {0}
    BY <2>2, LenProperties, EmptySeq DEF TypeOK
  <2>4. /\ Len(started') = Len(started) + 1 /\ started'[Len(started) + 1] = h
        /\ \A i \in 1 .. Len(started) : started'[i] = started[i]
    BY <2>1, <2>2, <2>3, AppendProperties
  <2>5. h = Len(started) + 1
    BY <2>2, <2>3 DEF Ordered
  <2> HIDE DEF h
  <2>6. Len(started') + Len(taskQueue') = submitted'
    BY <2>1, <2>2, <2>3, <2>4 DEF Ordered
  <2>7. ASSUME NEW i \in 1 .. Len(started') PROVE started'[i] = i
    <3>1. i \in 1 .. Len(started) \/ i = Len(started) + 1
      BY <2>3, <2>4
    <3> QED
      BY <2>4, <2>5, <3>1 DEF Ordered
  <2>8. ASSUME NEW i \in 1 .. Len(taskQueue') PROVE taskQueue'[i] = Len(started') + i
    <3>1. i + 1 \in 1 .. Len(taskQueue) /\ taskQueue'[i] = taskQueue[i + 1]
      BY <2>2, <2>3
    <3>2. taskQueue[i + 1] = Len(started) + (i + 1)
      BY <3>1 DEF Ordered
    <3> QED
      BY <2>3, <2>4, <3>1, <3>2
  <2> QED
    BY <2>6, <2>7, <2>8 DEF Ordered
<1>2. ASSUME NEW s \in Submitters, Submit(s) PROVE Ordered'
  <2>1. /\ submitted' = submitted + 1 /\ started' = started
        /\ taskQueue' = Append(taskQueue, submitted + 1)
    BY <1>2 DEF Submit, workerVars
  <2>2. submitted + 1 \in 1 .. NumTasks
    BY <1>2, TaskPoolAssumption DEF TypeOK, Submit
  <2>3. /\ taskQueue \in Seq(1 .. NumTasks) /\ Len(taskQueue) \in Nat /\ Len(started) \in Nat
    BY LenProperties DEF TypeOK
  <2>4. /\ Len(taskQueue') = Len(taskQueue) + 1 /\ taskQueue'[Len(taskQueue) + 1] = submitted + 1
        /\ \A i \in 1 .. Len(taskQueue) : taskQueue'[i] = taskQueue[i]
    BY <2>1, <2>2, <2>3, AppendProperties
  <2> QED
    BY <2>1, <2>2, <2>3, <2>4 DEF Ordered
<1>3. CASE UNCHANGED <<started, taskQueue, submitted>>
  BY <1>3 DEF Ordered
<1>4. ASSUME NEW w \in Workers, Take(w), stop PROVE UNCHANGED <<started, taskQueue, submitted>>
  BY <1>4 DEF Take, callerVars
<1> QED
  BY <1>1, <1>2, <1>3, <1>4
  DEF Next, Worker, LoopTest, Lock, Check, Sleep, SpuriousWake, Run, EndSubmit, Stop, NotifyAll,
      Join, vars, poolVars, workerVars, callerVars

LEMMA NoneForgottenStep ==
  ASSUME TypeOK, FrontWaits, NoneForgotten, [Next]_vars
  PROVE  NoneForgotten'
<1>1. ASSUME NEW w \in Workers, Take(w), ~stop PROVE NoneForgotten'
  <2> DEFINE h == Head(taskQueue)
  <2>1. /\ started' = Append(started, h) /\ done' = done /\ pc' = [pc EXCEPT ![w] = "run"]
        /\ task' = [task EXCEPT ![w] = h] /\ pc[w] = "take"
    BY <1>1 DEF Take, Go
  <2>2. h \in 1 .. NumTasks /\ started \in Seq(1 .. NumTasks) /\ Len(started) \in Nat
    BY <1>1, <2>1, TaskWaits, LenProperties DEF TypeOK
  <2>3. /\ Len(started') = Len(started) + 1 /\ started'[Len(started) + 1] = h
        /\ \A i \in 1 .. Len(started) : started'[i] = started[i]
        /\ DOMAIN started = 1 .. Len(started) /\ DOMAIN started' = 1 .. Len(started) + 1
    BY <2>1, <2>2, AppendProperties, LenProperties
  <2> HIDE DEF h
  <2>4. ToSet(started') = ToSet(started) \cup {h}
    BY <2>2, <2>3 DEF ToSet
  <2>5. /\ Running' = Running \cup {w} /\ w \notin Running
        /\ task'[w] = h /\ \A v \in Running : task'[v] = task[v]
    BY <2>1 DEF Running, TypeOK
  <2>6. {task'[v] : v \in Running'} = {task[v] : v \in Running} \cup {h}
    BY <2>5
  <2> QED
    BY <2>1, <2>4, <2>6 DEF NoneForgotten
<1>2. ASSUME NEW w \in Workers, Run(w) PROVE NoneForgotten'
  <2>1. /\ started' = started /\ done' = done \cup {task[w]} /\ task' = task
        /\ Running' = Running \ {w} /\ w \in Running
    BY <1>2 DEF Run, Go, Running, TypeOK
  <2>2. {task[v] : v \in Running} = {task[v] : v \in Running \ {w}} \cup {task[w]}
    BY <2>1
  <2> QED
    BY <2>1, <2>2 DEF NoneForgotten
<1>3. CASE UNCHANGED <<started, done, task>> /\ Running' = Running
  BY <1>3 DEF NoneForgotten
<1>4. ASSUME NEW w \in Workers,
             LoopTest(w) \/ Lock(w) \/ Check(w) \/ Sleep(w) \/ SpuriousWake(w) \/ (Take(w) /\ stop)
      PROVE  UNCHANGED <<started, done, task>> /\ Running' = Running
  <2>1. /\ UNCHANGED <<started, done, task>> /\ pc[w] # "run" /\ pc'[w] # "run"
        /\ \A v \in Workers : v # w => pc'[v] = pc[v]
    BY <1>4 DEF LoopTest, Lock, Check, Sleep, SpuriousWake, Take, Go, TypeOK
  <2> QED
    BY <2>1 DEF Running
<1>5. ASSUME NEW s \in Submitters, EndSubmit(s)
      PROVE  UNCHANGED <<started, done, task>> /\ Running' = Running
  BY <1>5, NotifyPc DEF EndSubmit, Running
<1>6. ASSUME NotifyAll PROVE UNCHANGED <<started, done, task>> /\ Running' = Running
  BY <1>6, NotifyAllPc DEF NotifyAll, Running
<1>7. CASE UNCHANGED workerVars
  BY <1>3, <1>7 DEF workerVars, Running
<1> QED
  BY <1>1, <1>2, <1>3, <1>4, <1>5, <1>6, <1>7 DEF Next, Worker, Submit, Stop, Join, vars

(* The inductive invariant: the types, and that the tasks taken and the    *)
(* tasks waiting are those submitted, in order (init, add, append).        *)
THEOREM TakenInvariant == Spec => []TakenInv
<1>1. Init => TakenInv
  <2> SUFFICES ASSUME Init PROVE TakenInv
    OBVIOUS
  <2>1. FrontWaits
    BY DEF Init, FrontWaits
  <2>2. Ordered
    BY DEF Init, Ordered
  <2>3. NoneForgotten
    BY DEF Init, NoneForgotten, Running, ToSet
  <2> QED
    BY <2>1, <2>2, <2>3, TypeInit DEF TakenInv
<1>2. TakenInv /\ [Next]_vars => TakenInv'
  BY TypeStep, FrontWaitsStep, OrderedStep, NoneForgottenStep DEF TakenInv
<1> QED
  BY <1>1, <1>2, PTL DEF Spec

(* Every task is taken once and by one worker, in the order of submission, *)
(* and none that was taken is forgotten (init, add and append).            *)
THEOREM TasksTakenInOrder == Spec => []TakenOnceInOrder
<1>1. TakenInv => TakenOnceInOrder
  <2> SUFFICES ASSUME TakenInv PROVE TakenOnceInOrder
    OBVIOUS
  <2> DEFINE all == [k \in 1 .. submitted |-> k]
             s == started \o taskQueue
  <2>1. /\ started \in Seq(1 .. NumTasks) /\ taskQueue \in Seq(1 .. NumTasks)
        /\ Len(started) \in Nat /\ Len(taskQueue) \in Nat /\ submitted \in 0 .. NumTasks
    BY LenProperties DEF TakenInv, TypeOK
  <2>2. /\ s \in Seq(1 .. NumTasks) /\ Len(s) = Len(started) + Len(taskQueue)
        /\ \A i \in 1 .. Len(started) + Len(taskQueue) :
              s[i] = IF i <= Len(started) THEN started[i] ELSE taskQueue[i - Len(started)]
    BY <2>1, ConcatProperties
  <2>3. all \in Seq(1 .. NumTasks) /\ Len(all) = submitted
    BY <2>1, TaskPoolAssumption
  <2>4. ASSUME NEW i \in 1 .. Len(s) PROVE s[i] = all[i]
    <3>1. i \in 1 .. submitted /\ Len(s) = submitted
      BY <2>2 DEF TakenInv, Ordered
    <3>2. s[i] = i
      <4>1. CASE i <= Len(started)
        <5>1. i \in 1 .. Len(started)
          BY <2>1, <3>1, <4>1
        <5>2. s[i] = started[i]
          BY <2>2, <3>1, <4>1
        <5> HIDE DEF s
        <5> QED
          BY <5>1, <5>2 DEF TakenInv, Ordered
      <4>2. CASE i > Len(started)
        <5>1. i - Len(started) \in 1 .. Len(taskQueue)
          BY <2>1, <2>2, <3>1, <4>2
        <5>2. s[i] = taskQueue[i - Len(started)]
          BY <2>1, <2>2, <3>1, <4>2
        <5>3. taskQueue[i - Len(started)] = Len(started) + (i - Len(started))
          BY <5>1 DEF TakenInv, Ordered
        <5> QED
          BY <2>1, <3>1, <5>2, <5>3
      <4> QED
        BY <2>1, <3>1, <4>1, <4>2
    <3> QED
      BY <3>1, <3>2
  <2>5. s = all
    <3>1. Len(s) = Len(all)
      BY <2>2, <2>3 DEF TakenInv, Ordered
    <3> HIDE DEF s, all
    <3> QED
      BY <2>2, <2>3, <2>4, <3>1, SeqEqual
  <2> QED
    BY <2>5 DEF TakenInv, TakenOnceInOrder, NoneForgotten, Running
<1> QED
  BY <1>1, TakenInvariant, PTL

-----------------------------------------------------------------------------
(* Wake-ups. *)

LEMMA AwakeFinite ==
  /\ IsFiniteSet(Awake) /\ Cardinality(Awake) \in Nat
  /\ TypeOK => IsFiniteSet(adding) /\ Cardinality(adding) \in Nat
BY TaskPoolAssumption, FS_Subset, FS_CardinalityType DEF Awake, TypeOK

LEMMA SleepsOnEmptyStep ==
  ASSUME TypeOK, FrontWaits, SleepsOnEmpty, [Next]_vars
  PROVE  SleepsOnEmpty'
<1>1. ASSUME NEW w \in Workers, Take(w) PROVE SleepsOnEmpty'
  <2>1. \A v \in Workers : pc'[v] # "sleep"
    <3>1. lock = w /\ pc[w] = "take" /\ pc'[w] \in {"ended", "run"}
      BY <1>1 DEF TypeOK, Take, Go
    <3>2. \A v \in Workers : v # w => pc'[v] = pc[v] /\ pc[v] # "sleep"
      BY <1>1, <3>1 DEF TypeOK, Take, Go
    <3> QED
      BY <3>1, <3>2
  <2> QED
    BY <2>1 DEF SleepsOnEmpty
<1>2. ASSUME NEW s \in Submitters, Submit(s) PROVE SleepsOnEmpty'
  <2>1. pc' = pc /\ \A w \in Workers : pc[w] # "sleep"
    BY <1>2, TaskPoolAssumption DEF TypeOK, Submit, workerVars
  <2> QED
    BY <2>1 DEF SleepsOnEmpty
<1>3. ASSUME NEW s \in Submitters, EndSubmit(s) PROVE SleepsOnEmpty'
  BY <1>3, NotifyPc DEF SleepsOnEmpty, EndSubmit, poolVars
<1>4. CASE NotifyAll
  BY <1>4, NotifyAllPc DEF SleepsOnEmpty, NotifyAll, poolVars
<1>5. CASE UNCHANGED <<pc, taskQueue>>
  BY <1>5 DEF SleepsOnEmpty
<1>6. ASSUME NEW w \in Workers, LoopTest(w) \/ Lock(w) \/ Check(w) \/ Sleep(w) \/ SpuriousWake(w) \/ Run(w)
      PROVE  SleepsOnEmpty'
  <2>1. /\ taskQueue' = taskQueue
        /\ \A v \in Workers : v # w => pc'[v] = pc[v]
        /\ pc'[w] = "sleep" => ~Predicate
    BY <1>6 DEF LoopTest, Lock, Check, Sleep, SpuriousWake, Run, Go, poolVars, TypeOK
  <2> QED
    BY <2>1 DEF SleepsOnEmpty, Predicate
<1> QED
  BY <1>1, <1>2, <1>3, <1>4, <1>5, <1>6
  DEF Next, Worker, Stop, Join, vars, poolVars, workerVars

\* Where a worker is awake.
Up == {"loop", "lock", "check", "take"}

(* One worker moves: how many are awake. *)
LEMMA OneMoves ==
  ASSUME TypeOK, NEW w \in Workers, NEW to, pc' = [pc EXCEPT ![w] = to]
  PROVE  /\ pc[w] \in Up /\ to \in Up => Cardinality(Awake') = Cardinality(Awake)
         /\ pc[w] \notin Up /\ to \in Up => Cardinality(Awake') = Cardinality(Awake) + 1
         /\ pc[w] \in Up /\ to \notin Up => Cardinality(Awake') = Cardinality(Awake) - 1
         /\ pc[w] \notin Up /\ to \notin Up => Cardinality(Awake') = Cardinality(Awake)
<1>1. pc'[w] = to /\ \A v \in Workers : v # w => pc'[v] = pc[v]
  BY DEF TypeOK
<1>2. (w \in Awake <=> pc[w] \in Up) /\ IsFiniteSet(Awake)
  BY AwakeFinite DEF Awake, Up
<1>3. to \in Up => Awake' = Awake \cup {w}
  BY <1>1 DEF Awake, Up
<1>4. to \notin Up => Awake' = Awake \ {w}
  BY <1>1 DEF Awake, Up
<1>5. /\ Cardinality(Awake \cup {w}) = IF w \in Awake THEN Cardinality(Awake) ELSE Cardinality(Awake) + 1
      /\ Cardinality(Awake \ {w}) = IF w \in Awake THEN Cardinality(Awake) - 1 ELSE Cardinality(Awake)
  BY <1>2, FS_AddElement, FS_RemoveElement
<1> QED
  BY <1>2, <1>3, <1>4, <1>5

(* Where each action leaves the queue, the notifications and the workers   *)
(* that are awake.                                                         *)
LEMMA NoTaskSleepsStep ==
  ASSUME TypeOK, FrontWaits, SleepsOnEmpty, NoTaskSleeps, [Next]_vars
  PROVE  NoTaskSleeps'
<1> DEFINE q == Len(taskQueue)
           a == Cardinality(Awake)
           n == Cardinality(adding)
<1> USE DEF NoTaskSleeps
<1>0. q \in Nat /\ a \in Nat /\ n \in Nat /\ IsFiniteSet(adding)
  BY AwakeFinite, LenProperties DEF TypeOK
<1>1. ASSUME NEW w \in Workers, LoopTest(w) PROVE NoTaskSleeps'
  <2>1. CASE stop
    BY <1>1, <2>1 DEF LoopTest, poolVars
  <2>2. CASE ~stop
    <3>1. pc[w] = "loop" /\ pc' = [pc EXCEPT ![w] = "lock"] /\ UNCHANGED <<taskQueue, adding, stop>>
      BY <1>1, <2>2 DEF LoopTest, Go, poolVars, callerVars
    <3>2. a' = a
      BY <3>1, OneMoves DEF Up
    <3>3. Waiting' = Waiting
      BY <3>1 DEF Waiting, TypeOK
    <3> QED
      BY <1>0, <3>1, <3>2, <3>3
  <2> QED
    BY <2>1, <2>2
<1>2. ASSUME NEW w \in Workers, Lock(w) PROVE NoTaskSleeps'
  <2>1. pc[w] = "lock" /\ pc' = [pc EXCEPT ![w] = "check"] /\ UNCHANGED <<taskQueue, adding, stop>>
    BY <1>2 DEF Lock, Go, callerVars
  <2>2. a' = a
    BY <2>1, OneMoves DEF Up
  <2>3. Waiting' = Waiting
    BY <2>1 DEF Waiting, TypeOK
  <2> QED
    BY <1>0, <2>1, <2>2, <2>3
<1>3. ASSUME NEW w \in Workers, Check(w) PROVE NoTaskSleeps'
  <2>1. pc[w] = "check" /\ UNCHANGED <<taskQueue, adding, stop>>
    BY <1>3 DEF Check, Go, poolVars, callerVars
  <2>2. CASE Predicate
    <3>1. pc' = [pc EXCEPT ![w] = "take"]
      BY <1>3, <2>2 DEF Check, Go
    <3>2. a' = a
      BY <2>1, <3>1, OneMoves DEF Up
    <3>3. Waiting' = Waiting
      BY <2>1, <3>1 DEF Waiting, TypeOK
    <3> QED
      BY <1>0, <2>1, <3>2, <3>3
  <2>3. CASE ~Predicate
    <3>1. pc' = [pc EXCEPT ![w] = "sleep"] /\ taskQueue = << >>
      BY <1>3, <2>3 DEF Check, Go, Predicate
    <3>2. a' = a - 1
      <4>1. pc[w] \in Up /\ "sleep" \notin Up
        BY <2>1 DEF Up
      <4> QED
        BY <3>1, <4>1, OneMoves
    <3>3. q' = 0 /\ a - 1 \in Nat
      <4>1. a' \in Nat
        <5>1. IsFiniteSet(Awake')
          BY TaskPoolAssumption, FS_Subset DEF Awake
        <5> QED
          BY <5>1, FS_CardinalityType
      <4> QED
        BY <2>1, <3>1, <3>2, <4>1, EmptySeq
    <3> QED
      BY <1>0, <2>1, <3>2, <3>3
  <2> QED
    BY <2>2, <2>3
<1>4. ASSUME NEW w \in Workers, Sleep(w) PROVE NoTaskSleeps'
  <2>1. pc[w] = "sleep" /\ pc' = [pc EXCEPT ![w] = "wait"] /\ UNCHANGED <<taskQueue, adding, stop>>
    BY <1>4 DEF Sleep, Go, callerVars
  <2>2. a' = a
    <3>1. pc[w] \notin Up /\ "wait" \notin Up
      BY <2>1 DEF Up
    <3> QED
      BY <2>1, <3>1, OneMoves
  <2>3. q' = 0
    BY <2>1, EmptySeq DEF SleepsOnEmpty
  <2> QED
    BY <1>0, <2>1, <2>2, <2>3
<1>5. ASSUME NEW w \in Workers, SpuriousWake(w) PROVE NoTaskSleeps'
  <2>1. pc[w] = "wait" /\ pc' = [pc EXCEPT ![w] = "lock"] /\ UNCHANGED <<taskQueue, adding, stop>>
    BY <1>5 DEF SpuriousWake, Go, poolVars, callerVars
  <2>2. a' = a + 1
    BY <2>1, OneMoves DEF Up
  <2>3. Waiting # {}
    BY <2>1 DEF Waiting
  <2> QED
    BY <1>0, <2>1, <2>2, <2>3
<1>6. ASSUME NEW w \in Workers, Run(w) PROVE NoTaskSleeps'
  <2>1. pc[w] = "run" /\ pc' = [pc EXCEPT ![w] = "loop"] /\ UNCHANGED <<taskQueue, adding, stop>>
    BY <1>6 DEF Run, Go, poolVars, callerVars
  <2>2. a' = a + 1
    BY <2>1, OneMoves DEF Up
  <2>3. Waiting' = Waiting
    BY <2>1 DEF Waiting, TypeOK
  <2> QED
    BY <1>0, <2>1, <2>2, <2>3
<1>7. ASSUME NEW w \in Workers, Take(w) PROVE NoTaskSleeps'
  <2>1. pc[w] = "take" /\ UNCHANGED <<adding, stop>>
    BY <1>7 DEF Take, Go, callerVars
  <2>2. CASE stop
    BY <2>1, <2>2
  <2>3. CASE ~stop
    <3>1. pc' = [pc EXCEPT ![w] = "run"] /\ taskQueue' = Tail(taskQueue)
      BY <1>7, <2>3 DEF Take, Go, Popped
    <3>2. a' = a - 1
      <4>1. pc[w] \in Up /\ "run" \notin Up
        BY <2>1 DEF Up
      <4> QED
        BY <3>1, <4>1, OneMoves
    <3>3. q' = q - 1
      BY <2>1, <2>3, <3>1, TaskWaits
    <3>4. Waiting' = Waiting
      BY <2>1, <3>1 DEF Waiting, TypeOK
    <3> QED
      BY <1>0, <2>1, <3>2, <3>3, <3>4
  <2> QED
    BY <2>2, <2>3
<1>8. ASSUME NEW s \in Submitters, Submit(s) PROVE NoTaskSleeps'
  <2>1. /\ pc' = pc /\ stop' = stop /\ adding' = adding \cup {s} /\ s \notin adding
        /\ taskQueue' = Append(taskQueue, submitted + 1)
    BY <1>8 DEF Submit, workerVars
  <2>2. n' = n + 1
    BY <1>0, <2>1, FS_AddElement
  <2>3. submitted + 1 \in 1 .. NumTasks
    BY <1>8, TaskPoolAssumption DEF Submit, TypeOK
  <2>4. q' = q + 1
    BY <2>1, <2>3, AppendProperties DEF TypeOK
  <2>5. Awake' = Awake /\ Waiting' = Waiting
    BY <2>1 DEF Awake, Waiting
  <2> QED
    BY <1>0, <2>1, <2>2, <2>4, <2>5
<1>9. ASSUME NEW s \in Submitters, EndSubmit(s) PROVE NoTaskSleeps'
  <2>1. taskQueue' = taskQueue /\ stop' = stop /\ adding' = adding \ {s} /\ s \in adding
    BY <1>9 DEF EndSubmit, poolVars
  <2>2. n' = n - 1
    BY <1>0, <2>1, FS_RemoveElement
  <2>3. CASE Waiting = {}
    <3>1. pc' = pc
      BY <1>9, <2>3 DEF EndSubmit, NotifyOne
    <3> QED
      BY <2>3, <3>1 DEF Waiting
  <2>4. CASE Waiting # {}
    <3>1. PICK w \in Waiting : pc' = [pc EXCEPT ![w] = "lock"]
      BY <1>9, <2>4 DEF EndSubmit, NotifyOne
    <3>2. w \in Workers /\ pc[w] = "wait"
      BY DEF Waiting
    <3>3. a' = a + 1
      BY <3>1, <3>2, OneMoves DEF Up
    <3> QED
      BY <1>0, <2>1, <2>2, <2>4, <3>3
  <2> QED
    BY <2>3, <2>4
<1>10. CASE Stop
  BY <1>10 DEF Stop
<1>11. CASE NotifyAll
  <2>1. Waiting' = {}
    <3>1. \A w \in Workers : pc'[w] # "wait"
      BY <1>11 DEF NotifyAll, Woken
    <3> QED
      BY <3>1 DEF Waiting
  <2> QED
    BY <2>1
<1>12. CASE UNCHANGED <<pc, taskQueue, adding, stop>>
  BY <1>12 DEF Waiting, Awake
<1> QED
  BY <1>1, <1>2, <1>3, <1>4, <1>5, <1>6, <1>7, <1>8, <1>9, <1>10, <1>11, <1>12
  DEF Next, Worker, Join, vars, poolVars, workerVars, callerVars

(* No wake-up of a task is lost: while a worker waits, each task in the    *)
(* queue has a worker that is awake or a notification that is yet to come  *)
(* (init, add and append).                                                 *)
THEOREM NoWakeUpLost == Spec => []NoTaskSleeps
<1>1. Init => WakeInv
  <2> SUFFICES ASSUME Init PROVE WakeInv
    OBVIOUS
  <2>1. SleepsOnEmpty
    BY DEF Init, SleepsOnEmpty
  <2>2. Waiting = {}
    BY DEF Init, Waiting
  <2> QED
    BY <2>1, <2>2 DEF WakeInv, NoTaskSleeps
<1>2. TakenInv /\ WakeInv /\ [Next]_vars => WakeInv'
  BY SleepsOnEmptyStep, NoTaskSleepsStep DEF TakenInv, WakeInv
<1>3. WakeInv => NoTaskSleeps
  BY DEF WakeInv
<1> QED
  BY <1>1, <1>2, <1>3, TakenInvariant, PTL DEF Spec

-----------------------------------------------------------------------------
(* The destructor. *)

LEMMA DeadStayDeadStep ==
  ASSUME TypeOK, DeadStayDead, [Next]_vars
  PROVE  DeadStayDead'
<1>1. CASE Join
  BY <1>1 DEF Join, Joined, DeadStayDead, workerVars
<1>2. ASSUME NEW s \in Submitters, EndSubmit(s) PROVE DeadStayDead'
  BY <1>2, NotifyPc DEF EndSubmit, DeadStayDead
<1>3. CASE Stop \/ NotifyAll
  BY <1>3 DEF Stop, NotifyAll, DeadStayDead
<1>4. CASE UNCHANGED <<owner, pc>>
  BY <1>4 DEF DeadStayDead
<1>5. ASSUME NEW w \in Workers, Worker(w) \/ Lock(w) \/ SpuriousWake(w) PROVE DeadStayDead'
  <2>1. pc[w] # "ended" /\ owner' = owner
    BY <1>5 DEF Worker, LoopTest, Lock, Check, Sleep, SpuriousWake, Take, Run, Go, callerVars
  <2> QED
    BY <2>1 DEF DeadStayDead
<1> QED
  BY <1>1, <1>2, <1>3, <1>4, <1>5 DEF Next, Submit, vars, workerVars, callerVars

(* When ~threadPool returns no task is half done, and those not taken stay *)
(* in the queue for good (old/threadpool.h:13-20).                         *)
THEOREM DestroyedPoolIsQuiet == Spec => []DestroyedIsQuiet
<1>1. Init => DeadStayDead
  BY DEF Init, DeadStayDead
<1>2. TakenInv /\ DeadStayDead => DestroyedIsQuiet
  <2> SUFFICES ASSUME TakenInv, DeadStayDead, owner = "destroyed"
               PROVE  done = 1 .. submitted - Len(taskQueue)
    BY DEF DestroyedIsQuiet
  <2>1. Running = {}
    BY DEF DeadStayDead, Running
  <2>2. done = ToSet(started)
    BY <2>1 DEF TakenInv, NoneForgotten
  <2>3. /\ Len(started) \in Nat /\ Len(taskQueue) \in Nat /\ submitted \in Nat
        /\ DOMAIN started = 1 .. Len(started)
    BY LenProperties DEF TakenInv, TypeOK
  <2>4. Len(started) = submitted - Len(taskQueue)
    BY <2>3 DEF TakenInv, Ordered
  <2>5. ToSet(started) = 1 .. Len(started)
    BY <2>3 DEF TakenInv, Ordered, ToSet
  <2> QED
    BY <2>2, <2>4, <2>5
<1> QED
  BY <1>1, <1>2, DeadStayDeadStep, TakenInvariant, PTL DEF Spec, TakenInv

===============================================================================
