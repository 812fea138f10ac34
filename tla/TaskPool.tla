------------------------------ MODULE TaskPool ------------------------------
(***************************************************************************)
(* The two thread pools of src/src/server_pop: threadpool.h, whose threads *)
(* never end, and the earlier old/threadpool.h, which can be stopped and   *)
(* joins its threads when it is destroyed.  They share the queue, its      *)
(* mutex and its condition variable; the variable edition says which one a *)
(* behaviour is about.  A worker's step is one access to what others may   *)
(* change: the mutex, stop_, or the queue while the mutex is held.         *)
(***************************************************************************)
EXTENDS Naturals, FiniteSets, SequencesExt

CONSTANTS
    Workers,        \* the threads of the pool (10 unless the constructor is told)
    Submitters,     \* the threads that call add or append
    NumTasks        \* bound: how many tasks they submit: 1, 2, ... in the queue's order

Nobody == "nobody"

ASSUME TaskPoolAssumption ==
    /\ Workers # {} /\ IsFiniteSet(Workers) /\ Nobody \notin Workers
    /\ Submitters # {} /\ IsFiniteSet(Submitters)
    /\ NumTasks \in Nat

VARIABLES
    edition,        \* "current" (threadpool.h) or "old" (old/threadpool.h)
    lock,           \* the worker that holds lock_
    taskQueue,      \* taskQueue_
    stop,           \* stop_ (there is none in the current edition)
    pc,             \* pc[w]: where worker w is
    task,           \* task[w]: the task w took last, 0 before
    adding,         \* the threads in add or append that have still to notify
    owner,          \* ~threadPool: "alive", "notify", "join", "destroyed"
    submitted,      \* how many tasks were put into the queue
    started,        \* history: the tasks taken, in order
    done            \* history: the tasks that were run to their end

poolVars == <<edition, lock, taskQueue, stop>>
workerVars == <<pc, task, started, done>>
callerVars == <<adding, owner, submitted>>
vars == <<poolVars, workerVars, callerVars>>

Init ==
    /\ edition \in {"current", "old"}
    /\ lock = Nobody /\ taskQueue = << >> /\ stop = FALSE
    /\ pc = [w \in Workers |-> "loop"] /\ task = [w \in Workers |-> 0]
    /\ adding = {} /\ owner = "alive" /\ submitted = 0
    /\ started = << >> /\ done = {}

Go(w, from, to) == pc[w] = from /\ pc' = [pc EXCEPT ![w] = to]
-----------------------------------------------------------------------------
\* while(1), or while(!stop_)
LoopTest(w) ==
    /\ Go(w, "loop", IF stop THEN "ended" ELSE "lock")
    /\ UNCHANGED <<poolVars, callerVars, task, started, done>>

Lock(w) ==
    /\ lock = Nobody /\ lock' = w
    /\ Go(w, "lock", "check")
    /\ UNCHANGED <<edition, taskQueue, stop, callerVars, task, started, done>>

\* The predicate of wait, evaluated with the mutex held.
Predicate == stop \/ taskQueue # << >>

Check(w) ==
    /\ Go(w, "check", IF Predicate THEN "take" ELSE "sleep")
    /\ UNCHANGED <<poolVars, callerVars, task, started, done>>

\* wait releases the mutex and blocks in one step; a notification that comes
\* between Check and this step reaches nobody.
Sleep(w) ==
    /\ Go(w, "sleep", "wait")
    /\ lock' = Nobody
    /\ UNCHANGED <<edition, taskQueue, stop, callerVars, task, started, done>>

\* A wait may end without a notification.
SpuriousWake(w) ==
    /\ Go(w, "wait", "lock")
    /\ UNCHANGED <<poolVars, callerVars, task, started, done>>

\* (the mutant looks at the front without the pop)
Popped_Not == taskQueue
Popped == Tail(taskQueue)

\* old/threadpool.h asks for stop_ once more; then the front is moved out.
Take(w) ==
    /\ lock' = Nobody
    /\ IF stop
         THEN Go(w, "take", "ended") /\ UNCHANGED <<taskQueue, task, started>>
         ELSE /\ Go(w, "take", "run")
              /\ task' = [task EXCEPT ![w] = Head(taskQueue)]
              /\ started' = Append(started, Head(taskQueue))
              /\ taskQueue' = Popped
    /\ UNCHANGED <<edition, stop, callerVars, done>>

\* task() ends; what a task of add throws goes to its future.
Run(w) ==
    /\ Go(w, "run", "loop")
    /\ done' = done \cup {task[w]}
    /\ UNCHANGED <<poolVars, callerVars, task, started>>
-----------------------------------------------------------------------------
\* The critical section of add and append; old/threadpool.h throws when stopped.
Submit(s) ==
    /\ owner = "alive" /\ s \notin adding /\ lock = Nobody
    /\ ~stop /\ submitted < NumTasks
    /\ submitted' = submitted + 1
    /\ taskQueue' = Append(taskQueue, submitted')
    /\ adding' = adding \cup {s}
    /\ UNCHANGED <<edition, lock, stop, workerVars, owner>>

Waiting == {w \in Workers : pc[w] = "wait"}

\* notify_one, outside the mutex (one mutant leaves it out, one notifies only when
\* the queue was empty before)
NotifyOne_Never(s) == UNCHANGED pc
NotifyOne_IfFirst(s) ==
    IF Len(taskQueue) = 1 /\ Waiting # {}
      THEN \E w \in Waiting : pc' = [pc EXCEPT ![w] = "lock"]
      ELSE UNCHANGED pc
NotifyOne(s) ==
    IF Waiting # {} THEN \E w \in Waiting : pc' = [pc EXCEPT ![w] = "lock"]
                    ELSE UNCHANGED pc

EndSubmit(s) ==
    /\ s \in adding
    /\ NotifyOne(s)
    /\ adding' = adding \ {s}
    /\ UNCHANGED <<poolVars, task, started, done, owner, submitted>>

\* ~threadPool of old/threadpool.h, once nobody is in add: stop_ is set without
\* the mutex, then everyone that waits is notified, and CThreadGuard joins.
Stop ==
    /\ edition = "old" /\ owner = "alive" /\ adding = {}
    /\ stop' = TRUE
    /\ owner' = "notify"
    /\ UNCHANGED <<edition, lock, taskQueue, workerVars, adding, submitted>>

\* notify_all (the mutant wakes one)
Woken_One ==
    IF Waiting = {} THEN pc ELSE [pc EXCEPT ![CHOOSE w \in Waiting : TRUE] = "lock"]
Woken == [w \in Workers |-> IF pc[w] = "wait" THEN "lock" ELSE pc[w]]

NotifyAll ==
    /\ owner = "notify" /\ owner' = "join"
    /\ pc' = Woken
    /\ UNCHANGED <<poolVars, task, started, done, adding, submitted>>

\* join() returns for the threads that have ended (the mutant forgets one worker)
Joined_Some == \E w \in Workers : pc[w] = "ended"
Joined == \A w \in Workers : pc[w] = "ended"

Join ==
    /\ owner = "join" /\ Joined
    /\ owner' = "destroyed"
    /\ UNCHANGED <<poolVars, workerVars, adding, submitted>>
-----------------------------------------------------------------------------
Worker(w) == LoopTest(w) \/ Check(w) \/ Sleep(w) \/ Take(w) \/ Run(w)

Next ==
    \/ \E w \in Workers : Worker(w) \/ Lock(w) \/ SpuriousWake(w)
    \/ \E s \in Submitters : Submit(s) \/ EndSubmit(s)
    \/ Stop \/ NotifyAll \/ Join

\* Threads run, tasks end, and a mutex that is free again and again is acquired.
Spec ==
    /\ Init /\ [][Next]_vars
    /\ \A w \in Workers : WF_vars(Worker(w)) /\ SF_vars(Lock(w))
    /\ \A s \in Submitters : WF_vars(EndSubmit(s))
    /\ WF_vars(NotifyAll) /\ WF_vars(Join)
-----------------------------------------------------------------------------
\* The type invariant: the variables hold what the comments at their declaration say.
TypeOK ==
    /\ edition \in {"current", "old"} /\ stop \in BOOLEAN
    /\ lock \in Workers \cup {Nobody}
    /\ taskQueue \in Seq(1 .. NumTasks) /\ started \in Seq(1 .. NumTasks)
    /\ pc \in [Workers -> {"loop", "lock", "check", "sleep", "wait", "take", "run", "ended"}]
    /\ \A w \in Workers : pc[w] \in {"check", "sleep", "take"} <=> lock = w
    /\ task \in [Workers -> 0 .. NumTasks] /\ done \subseteq 1 .. NumTasks
    /\ adding \subseteq Submitters /\ submitted \in 0 .. NumTasks
    /\ owner \in {"alive", "notify", "join", "destroyed"}

(***************************************************************************)
(* Every task is taken once and by one worker, in the order of submission, *)
(* and none that was taken is forgotten: it is being run, or was (init,    *)
(* add and append).  (And the variables have their types; the mutex is     *)
(* held by the one worker that is in the critical section.)                *)
(***************************************************************************)
TakenOnceInOrder ==
    /\ TypeOK
    /\ started \o taskQueue = [k \in 1 .. submitted |-> k]
    /\ ToSet(started) = done \cup {task[w] : w \in {v \in Workers : pc[v] = "run"}}

\* The workers that will look at the queue before they wait.
Awake == {w \in Workers : pc[w] \in {"loop", "lock", "check", "take"}}

(***************************************************************************)
(* No wake-up of a task is lost: while a worker waits, each task in the    *)
(* queue has a worker that is awake or a notification that is yet to come, *)
(* so a task never waits for another to end although a worker is free.     *)
(***************************************************************************)
NoTaskSleeps ==
    Waiting # {} /\ ~stop => Len(taskQueue) <= Cardinality(Awake) + Cardinality(adding)

(***************************************************************************)
(* When ~threadPool returns no task is half done, and those not taken stay *)
(* in the queue for good: they are a suffix of what was submitted.         *)
(***************************************************************************)
DestroyedIsQuiet ==
    owner = "destroyed" => done = 1 .. submitted - Len(taskQueue)

(***************************************************************************)
(* A task that was submitted is run, unless the pool is stopped: more      *)
(* tasks than workers, workers about to wait and spurious wake-ups         *)
(* included.                                                               *)
(***************************************************************************)
SubmittedIsRun ==
    \A t \in 1 .. NumTasks : submitted >= t ~> (t \in done \/ stop)

(***************************************************************************)
(* The destructor ends if, when it is about to notify, no worker stands    *)
(* between the test of its wait and the wait itself.  Without that premise *)
(* it does not, contrary to the comment at old/threadpool.h:14: stop_ is   *)
(* set and notified without the mutex, such a worker hears nothing, and    *)
(* CThreadGuard joins it for ever.                                         *)
(***************************************************************************)
DestructionEnds ==
    (owner = "notify" /\ \A w \in Workers : pc[w] # "sleep") ~> owner = "destroyed"
==============================================================================
