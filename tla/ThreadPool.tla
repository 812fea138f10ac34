------------------------------ MODULE ThreadPool ------------------------------
(***************************************************************************)
(* How the server starts its event loops: Task<EventLoop> and              *)
(* EventLoopThreadPool of src/src/server.  The thread of main creates the  *)
(* threads one at a time and waits for each, on the condition variable of  *)
(* the task, until the new thread has built its loop; then the loops are   *)
(* handed out in turn.                                                     *)
(***************************************************************************)
EXTENDS Naturals, Sequences

CONSTANT NumThreads          \* numThreads_ (main passes 5)

ASSUME NumThreadsAssumption == NumThreads \in Nat \ {0}

Loops == 1 .. NumThreads     \* a loop has the number of the thread that owns it

VARIABLES
    starter,   \* where the thread of main is: "spawn", "check", "wait", "listening"
    task,      \* task[l]: "none", "created" (thread runs, loop_ is null), "looping"
    loops,     \* loops_, the loops handed over so far
    next       \* next_, the index (from 0) of the loop for the next connection

poolVars == <<starter, task, loops, next>>

PoolInit ==
    /\ starter = "spawn"
    /\ task = [l \in Loops |-> "none"]
    /\ loops = << >>
    /\ next = 0

Starting == Len(loops) + 1   \* the thread that is being started, while one is

\* start(), one round: a new Task, and startLoop creates its thread.
StartTask ==
    /\ starter = "spawn"
    /\ Starting \in Loops
    /\ task' = [task EXCEPT ![Starting] = "created"]
    /\ starter' = "check"
    /\ UNCHANGED <<loops, next>>

\* loop_ != nullptr (the mutant forgets to test it)
LoopBuilt_Untested == TRUE
LoopBuilt == task[Starting] = "looping"

\* cond_.wait(locker, loop_ != nullptr): the predicate is evaluated with the
\* mutex held; when it is false the mutex is released and the wait begins in one step.
CheckLoop ==
    /\ starter = "check"
    /\ IF LoopBuilt
         THEN /\ loops' = Append(loops, Starting)
              /\ starter' = "spawn"
         ELSE /\ starter' = "wait"
              /\ UNCHANGED loops
    /\ UNCHANGED <<task, next>>

\* cond_.notify_one() of the task of l (the mutant leaves it out)
Notify_None(l) == starter' = starter
Notify(l) == starter' = IF starter = "wait" /\ l = Starting THEN "check" ELSE starter

\* startSubTask, on the new thread: the loop is built, loop_ set and the waiter
\* notified with the mutex held, then loop() runs and never returns.
Handover(l) ==
    /\ task[l] = "created"
    /\ task' = [task EXCEPT ![l] = "looping"]
    /\ Notify(l)
    /\ UNCHANGED <<loops, next>>

\* A wait on a condition variable may end without a notification.
SpuriousWake ==
    /\ starter = "wait"
    /\ starter' = "check"
    /\ UNCHANGED <<task, loops, next>>

\* acceptorListen, after the last round of start().
Listen ==
    /\ starter = "spawn"
    /\ Len(loops) = NumThreads
    /\ starter' = "listening"
    /\ UNCHANGED <<task, loops, next>>

\* getNextLoop: the loop it returns, and what it does to next_.
NextLoop == loops[next + 1]
TurnNext == next' = (next + 1) % Len(loops)

PoolNext ==
    \/ StartTask \/ CheckLoop \/ SpuriousWake \/ Listen
    \/ \E l \in Loops : Handover(l)

PoolTypeOK ==
    /\ starter \in {"spawn", "check", "wait", "listening"}
    /\ task \in [Loops -> {"none", "created", "looping"}]
    /\ loops \in Seq(Loops)
    /\ Len(loops) <= NumThreads
    /\ next \in 0 .. NumThreads - 1

(***************************************************************************)
(* startLoop returns loop_ after the lock is released: every loop that was *)
(* handed over has been constructed by its thread, each loop is handed     *)
(* over once, and a thread is created only after the one before has its    *)
(* loop in the pool.                                                       *)
(***************************************************************************)
LoopsConstructed ==
    /\ \A i \in 1 .. Len(loops) : task[loops[i]] = "looping"
    /\ \A i, j \in 1 .. Len(loops) : loops[i] = loops[j] => i = j
    /\ \A l \in Loops : task[l] = "created" => l = Starting

================================================================================
