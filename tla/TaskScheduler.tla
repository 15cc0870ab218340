--------------------------- MODULE TaskScheduler ---------------------------
(***************************************************************************)
(* The task scheduler: the worker threads of a database take tasks from    *)
(* one queue, to which the threads of its users add them.                  *)
(*                                                                         *)
(* A query has its tasks executed one after the other with                 *)
(* scheduleTaskAndWaitOrError, dependencies first.  A COPY statement       *)
(* schedules a set of tasks and waits for the queue to be empty.  Several  *)
(* workers may register to a task; the last one to finish finalizes it.    *)
(* Each section under the mutex of the scheduler or of a task is a step.   *)
(***************************************************************************)
EXTENDS Integers, Sequences, FiniteSets

CONSTANTS
    Workers,
    Queries,            \* users that call scheduleTaskAndWaitOrError
    Copies,             \* users that call scheduleTask and waitAllTasksToCompleteOrError
    Tasks,
    Plan,               \* the tasks of each user, in the order in which it schedules them
    maxNumThreads,      \* of each task
    RunMayThrow, FinalizeMayThrow,      \* tasks whose functions may throw
    NoTask

Users == Queries \cup Copies

ASSUME TaskSchedulerAssumption ==
    /\ Queries \cap Copies = {}
    /\ NoTask \notin Tasks
    /\ Plan \in [Users -> Seq(Tasks)]
    /\ \A u \in Users : Plan[u] # <<>>
    /\ maxNumThreads \in [Tasks -> Nat \ {0}]
    /\ \A u, v \in Users : \A i \in DOMAIN Plan[u], j \in DOMAIN Plan[v] :
           Plan[u][i] = Plan[v][j] => u = v /\ i = j

ASSUME FinitelyManyWorkers == IsFiniteSet(Workers)

\* A COPY statement runs in a write transaction, of which there is one at a time.
ASSUME OneCopyAtATime == \A u, v \in Copies : u = v

VARIABLES
    taskQueue, stopThreads,
    numThreadsRegistered, numThreadsFinished, exceptionsPtr,    \* per task
    pc, task,               \* per worker: what it does and to which task
    upc, next, result,      \* per user: what it does, the task of its plan, how it ended
    finalized, finalizeThrew    \* history: calls to finalizeIfNecessary per task, and the
                                \* tasks for which it threw

taskVars == <<numThreadsRegistered, numThreadsFinished, exceptionsPtr, finalized,
              finalizeThrew>>
workerVars == <<pc, task>>
userVars == <<upc, next, result>>
vars == <<taskQueue, stopThreads, taskVars, workerVars, userVars>>

Init ==
    /\ taskQueue = <<>>
    /\ stopThreads = FALSE
    /\ numThreadsRegistered = [t \in Tasks |-> 0]
    /\ numThreadsFinished = [t \in Tasks |-> 0]
    /\ exceptionsPtr = [t \in Tasks |-> FALSE]
    /\ pc = [w \in Workers |-> "idle"]
    /\ task = [w \in Workers |-> NoTask]
    /\ upc = [u \in Users |-> "schedule"]
    /\ next = [u \in Users |-> 1]
    /\ result = [u \in Users |-> "none"]
    /\ finalized = [t \in Tasks |-> 0]
    /\ finalizeThrew = {}

-----------------------------------------------------------------------------
(* Task                                                                     *)

\* Mutant: a task that no worker has taken yet is completed.
IsCompleted_Unregistered(t) == numThreadsFinished[t] = numThreadsRegistered[t]

IsCompleted(t) ==
    numThreadsRegistered[t] > 0 /\ numThreadsFinished[t] = numThreadsRegistered[t]

IsCompletedSuccessfully(t) == IsCompleted(t) /\ ~exceptionsPtr[t]

\* Mutant: a task accepts workers until it is completed.
CanRegister_UntilCompleted(t) ==
    /\ ~exceptionsPtr[t]
    /\ maxNumThreads[t] > numThreadsRegistered[t]

CanRegister(t) ==
    /\ ~exceptionsPtr[t]
    /\ numThreadsFinished[t] = 0
    /\ maxNumThreads[t] > numThreadsRegistered[t]

-----------------------------------------------------------------------------
(* Worker threads: runWorkerThread                                          *)

\* The elements of s that are not in S, in their order.
Without(s, S) ==
    LET kept[i \in 0..Len(s)] ==
            IF i = 0 THEN <<>>
            ELSE IF s[i] \in S THEN kept[i - 1] ELSE Append(kept[i - 1], s[i])
    IN  kept[Len(s)]

\* Mutant: a task is removed when no more workers can register to it.
Cleaned_DropsRunning(n) ==
    Without(SubSeq(taskQueue, 1, n), {t \in Tasks : ~exceptionsPtr[t]})
        \o SubSeq(taskQueue, n + 1, Len(taskQueue))

\* The queue that a worker leaves behind when it looks at its first n tasks: those that are
\* completed without an exception are removed, all others stay.
Cleaned(n) ==
    Without(SubSeq(taskQueue, 1, n), {t \in Tasks : IsCompletedSuccessfully(t)})
        \o SubSeq(taskQueue, n + 1, Len(taskQueue))

\* getTaskAndRegister, for the first task in the queue that accepts the worker.
GetTaskAndRegister(w) ==
    /\ pc[w] = "idle"
    /\ ~stopThreads
    /\ \E i \in DOMAIN taskQueue :
           /\ CanRegister(taskQueue[i])
           /\ \A j \in 1..(i - 1) : ~CanRegister(taskQueue[j])
           /\ taskQueue' = Cleaned(i - 1)
           /\ task' = [task EXCEPT ![w] = taskQueue[i]]
           /\ numThreadsRegistered' = [numThreadsRegistered EXCEPT ![taskQueue[i]] = @ + 1]
    /\ pc' = [pc EXCEPT ![w] = "run"]
    /\ UNCHANGED <<stopThreads, numThreadsFinished, exceptionsPtr, finalized, finalizeThrew,
                   userVars>>

\* No task accepts the worker: it removes the completed ones and sleeps.
GetNoTask(w) ==
    /\ pc[w] = "idle"
    /\ ~stopThreads
    /\ \A i \in DOMAIN taskQueue : ~CanRegister(taskQueue[i])
    /\ \E i \in DOMAIN taskQueue : IsCompletedSuccessfully(taskQueue[i])
    /\ taskQueue' = Cleaned(Len(taskQueue))
    /\ UNCHANGED <<stopThreads, taskVars, workerVars, userVars>>

RunSucceeds(w) ==
    /\ pc[w] = "run"
    /\ pc' = [pc EXCEPT ![w] = "deregister"]
    /\ UNCHANGED <<taskQueue, stopThreads, taskVars, task, userVars>>

RunThrows(w) ==
    /\ pc[w] = "run"
    /\ task[w] \in RunMayThrow
    /\ pc' = [pc EXCEPT ![w] = "set_exception"]
    /\ UNCHANGED <<taskQueue, stopThreads, taskVars, task, userVars>>

\* Mutant: the worker is deregistered before the exception is set.
SetException_AfterDeRegister(w) ==
    /\ pc[w] = "set_exception"
    /\ \/ /\ numThreadsFinished[task[w]] < numThreadsRegistered[task[w]]
          /\ numThreadsFinished' = [numThreadsFinished EXCEPT ![task[w]] = @ + 1]
          /\ UNCHANGED <<exceptionsPtr, pc, task>>
       \/ /\ exceptionsPtr' = [exceptionsPtr EXCEPT ![task[w]] = TRUE]
          /\ pc' = [pc EXCEPT ![w] = "idle"]
          /\ task' = [task EXCEPT ![w] = NoTask]
          /\ UNCHANGED numThreadsFinished
    /\ UNCHANGED <<taskQueue, stopThreads, numThreadsRegistered, finalized, finalizeThrew, userVars>>

\* setException keeps the first exception of a task.
SetException(w) ==
    /\ pc[w] = "set_exception"
    /\ exceptionsPtr' = [exceptionsPtr EXCEPT ![task[w]] = TRUE]
    /\ pc' = [pc EXCEPT ![w] = "deregister"]
    /\ UNCHANGED <<taskQueue, stopThreads, numThreadsRegistered, numThreadsFinished, finalized,
                   finalizeThrew, task, userVars>>

\* The last worker of a task without an exception calls finalizeIfNecessary.
IsLastToFinish(w) ==
    /\ ~exceptionsPtr[task[w]]
    /\ numThreadsFinished[task[w]] + 1 = numThreadsRegistered[task[w]]

\* Mutant: every worker of a task finalizes it.
DeRegister_AlwaysFinalizes(w) ==
    /\ pc[w] = "deregister"
    /\ numThreadsFinished' = [numThreadsFinished EXCEPT ![task[w]] = @ + 1]
    /\ finalized' = [finalized EXCEPT ![task[w]] = @ + 1]
    /\ pc' = [pc EXCEPT ![w] = "idle"]
    /\ task' = [task EXCEPT ![w] = NoTask]
    /\ UNCHANGED <<taskQueue, stopThreads, numThreadsRegistered, exceptionsPtr, finalizeThrew,
                   userVars>>

\* Mutant: a worker that threw is not counted as finished.
DeRegister_NotAfterException(w) ==
    /\ pc[w] = "deregister"
    /\ numThreadsFinished' = [numThreadsFinished EXCEPT ![task[w]] =
                                  IF exceptionsPtr[task[w]] THEN @ ELSE @ + 1]
    /\ finalized' = [finalized EXCEPT ![task[w]] = IF IsLastToFinish(w) THEN @ + 1 ELSE @]
    /\ pc' = [pc EXCEPT ![w] = "idle"]
    /\ task' = [task EXCEPT ![w] = NoTask]
    /\ UNCHANGED <<taskQueue, stopThreads, numThreadsRegistered, exceptionsPtr, finalizeThrew,
                   userVars>>

\* deRegisterThreadAndFinalizeTaskIfNecessary
DeRegister(w) ==
    /\ pc[w] = "deregister"
    /\ numThreadsFinished' = [numThreadsFinished EXCEPT ![task[w]] = @ + 1]
    /\ finalized' = [finalized EXCEPT ![task[w]] = IF IsLastToFinish(w) THEN @ + 1 ELSE @]
    /\ pc' = [pc EXCEPT ![w] = "idle"]
    /\ task' = [task EXCEPT ![w] = NoTask]
    /\ UNCHANGED <<taskQueue, stopThreads, numThreadsRegistered, exceptionsPtr, finalizeThrew,
                   userVars>>

\* finalizeIfNecessary throws: the worker, already counted, is deregistered once more by the
\* handler of runWorkerThread.
FinalizeThrows(w) ==
    /\ pc[w] = "deregister"
    /\ IsLastToFinish(w)
    /\ task[w] \in FinalizeMayThrow
    /\ numThreadsFinished' = [numThreadsFinished EXCEPT ![task[w]] = @ + 1]
    /\ finalized' = [finalized EXCEPT ![task[w]] = @ + 1]
    /\ finalizeThrew' = finalizeThrew \cup {task[w]}
    /\ pc' = [pc EXCEPT ![w] = "set_exception"]
    /\ UNCHANGED <<taskQueue, stopThreads, numThreadsRegistered, exceptionsPtr, task, userVars>>

\* Mutant: a worker leaves only when the queue is empty.
Exit_WhenQueueEmpty(w) ==
    /\ pc[w] = "idle"
    /\ stopThreads
    /\ taskQueue = <<>>
    /\ pc' = [pc EXCEPT ![w] = "exited"]
    /\ UNCHANGED <<taskQueue, stopThreads, taskVars, task, userVars>>

Exit(w) ==
    /\ pc[w] = "idle"
    /\ stopThreads
    /\ pc' = [pc EXCEPT ![w] = "exited"]
    /\ UNCHANGED <<taskQueue, stopThreads, taskVars, task, userVars>>

-----------------------------------------------------------------------------
(* Users                                                                    *)

CurrentTask(u) == Plan[u][next[u]]
IsLastTask(u) == next[u] = Len(Plan[u])

End(u, outcome) ==
    /\ upc' = [upc EXCEPT ![u] = "done"]
    /\ result' = [result EXCEPT ![u] = outcome]

ScheduleTask(u) ==
    /\ upc[u] = "schedule"
    /\ taskQueue' = Append(taskQueue, CurrentTask(u))
    /\ \/ u \in Queries /\ upc' = [upc EXCEPT ![u] = "wait"] /\ UNCHANGED next
       \/ u \in Copies /\ IsLastTask(u) /\ upc' = [upc EXCEPT ![u] = "wait_all"] /\ UNCHANGED next
       \/ u \in Copies /\ ~IsLastTask(u) /\ next' = [next EXCEPT ![u] = @ + 1] /\ UNCHANGED upc
    /\ UNCHANGED <<stopThreads, taskVars, workerVars, result>>

\* scheduleTaskAndWaitOrError polls until the task is completed...
WaitTask(u) ==
    /\ upc[u] = "wait"
    /\ IsCompleted(CurrentTask(u))
    /\ upc' = [upc EXCEPT ![u] = "check"]
    /\ UNCHANGED <<taskQueue, stopThreads, taskVars, workerVars, next, result>>

\* ...and then looks for its exception.
CheckTask(u) ==
    /\ upc[u] = "check"
    /\ \/ /\ exceptionsPtr[CurrentTask(u)]
          /\ upc' = [upc EXCEPT ![u] = "remove"]
          /\ UNCHANGED <<next, result>>
       \/ /\ ~exceptionsPtr[CurrentTask(u)]
          /\ ~IsLastTask(u)
          /\ next' = [next EXCEPT ![u] = @ + 1]
          /\ upc' = [upc EXCEPT ![u] = "schedule"]
          /\ UNCHANGED result
       \/ /\ ~exceptionsPtr[CurrentTask(u)]
          /\ IsLastTask(u)
          /\ End(u, "returned")
          /\ UNCHANGED next
    /\ UNCHANGED <<taskQueue, stopThreads, taskVars, workerVars>>

\* removeErroringTask, which need not find it: a COPY may have taken it.
RemoveErroringTask(u) ==
    /\ upc[u] = "remove"
    /\ taskQueue' = Without(taskQueue, {CurrentTask(u)})
    /\ End(u, "threw")
    /\ UNCHANGED <<stopThreads, taskVars, workerVars, next>>

WaitAllReturns(u) ==
    /\ upc[u] = "wait_all"
    /\ taskQueue = <<>>
    /\ End(u, "returned")
    /\ UNCHANGED <<taskQueue, stopThreads, taskVars, workerVars, next>>

\* The first task with an exception that the scan observes, of whatever user; a task before
\* it may get its exception behind the scan.
WaitAllThrows(u) ==
    /\ upc[u] = "wait_all"
    /\ \E i \in DOMAIN taskQueue :
           /\ exceptionsPtr[taskQueue[i]]
           /\ taskQueue' = Without(taskQueue, {taskQueue[i]})
    /\ End(u, "threw")
    /\ UNCHANGED <<stopThreads, taskVars, workerVars, next>>

\* ~TaskScheduler, when the users are gone.
Stop ==
    /\ ~stopThreads
    /\ \A u \in Users : upc[u] = "done"
    /\ stopThreads' = TRUE
    /\ UNCHANGED <<taskQueue, taskVars, workerVars, userVars>>

-----------------------------------------------------------------------------
WorkerStep(w) ==
    \/ GetTaskAndRegister(w)
    \/ GetNoTask(w)
    \/ RunSucceeds(w)
    \/ RunThrows(w)
    \/ SetException(w)
    \/ DeRegister(w)
    \/ FinalizeThrows(w)
    \/ Exit(w)

UserStep(u) ==
    \/ ScheduleTask(u)
    \/ WaitTask(u)
    \/ CheckTask(u)
    \/ RemoveErroringTask(u)
    \/ WaitAllReturns(u)
    \/ WaitAllThrows(u)

Next ==
    \/ \E w \in Workers : WorkerStep(w)
    \/ \E u \in Users : UserStep(u)
    \/ Stop

Spec == Init /\ [][Next]_vars

\* Threads are scheduled, and every task a worker runs ends.
FairSpec ==
    /\ Spec
    /\ \A w \in Workers : WF_vars(WorkerStep(w))
    /\ \A u \in Users : WF_vars(UserStep(u))
    /\ WF_vars(Stop)
-----------------------------------------------------------------------------
TypeOK ==
    /\ taskQueue \in Seq(Tasks)
    /\ stopThreads \in BOOLEAN
    /\ numThreadsRegistered \in [Tasks -> Nat]
    /\ numThreadsFinished \in [Tasks -> Nat]
    /\ exceptionsPtr \in [Tasks -> BOOLEAN]
    /\ pc \in [Workers -> {"idle", "run", "set_exception", "deregister", "exited"}]
    /\ task \in [Workers -> Tasks \cup {NoTask}]
    /\ upc \in [Users -> {"schedule", "wait", "check", "remove", "wait_all", "done"}]
    /\ next \in [Users -> Nat]
    /\ \A u \in Users : next[u] \in DOMAIN Plan[u]
    /\ result \in [Users -> {"none", "returned", "threw"}]
    /\ finalized \in [Tasks -> Nat]
    /\ finalizeThrew \subseteq Tasks

\* A task is finalized at most once, and no worker runs it then or later: finalizeIfNecessary
\* merges what the workers made (task.h:33-37, "only once by the last registered worker").
FinalizeIsLast ==
    \A t \in Tasks :
        /\ finalized[t] <= 1
        /\ finalized[t] = 1 => \A w \in Workers : task[w] = t => pc[w] # "run"

\* The tasks of a user up to the one it has come to, but for those whose finalizeIfNecessary
\* threw: a worker is counted twice on them.
Scheduled(u) == {Plan[u][i] : i \in 1..next[u]} \ finalizeThrew

Succeeded(t) == finalized[t] = 1 /\ ~exceptionsPtr[t]

\* A query returns normally only if each of its tasks was finalized without an exception in
\* any worker, and throws only for an exception of a task of its own.
QueriesGetTheirOutcome ==
    \A u \in Queries :
        /\ result[u] = "returned" =>
               next[u] = Len(Plan[u]) /\ \A t \in Scheduled(u) : Succeeded(t)
        /\ result[u] = "threw" => exceptionsPtr[CurrentTask(u)]

\* When scheduleTaskAndWaitOrError returns or throws, "no worker thread will be working on the
\* given task" (task_scheduler.h:58-59), nor on a task it depends on, and none will later: a
\* task that is still in the queue accepts no worker, and one that errored is not in it.  A
\* completed task may be (NoTaskIsLeftInTheQueue).
QueriesLeaveNoWorker ==
    \A u \in Queries : result[u] # "none" =>
        /\ \A w \in Workers : task[w] \notin Scheduled(u)
        /\ \A i \in DOMAIN taskQueue : taskQueue[i] \in Scheduled(u) =>
               ~CanRegister(taskQueue[i]) /\ ~exceptionsPtr[taskQueue[i]]

\* waitAllTasksToCompleteOrError returns normally only if every task that was scheduled was
\* finalized without an exception.
CopiesAreComplete ==
    \A u \in Copies : result[u] = "returned" => \A t \in Scheduled(u) : Succeeded(t)

\* The worker of a task only runs when the tasks before it in the plan of its query have been
\* finalized: a probe never runs beside its build.
DependenciesFirst ==
    \A w \in Workers, u \in Queries : \A i, j \in DOMAIN Plan[u] :
        i < j /\ task[w] = Plan[u][j] => Succeeded(Plan[u][i]) \/ Plan[u][i] \in finalizeThrew

\* Every user comes back, with a result or an exception, unless a finalization has thrown:
\* there is no other way for a user to wait for ever.
UsersComeBack == \A u \in Users : <>(upc[u] = "done" \/ finalizeThrew # {})

\* The destructor joins every worker.
WorkersExit == \A w \in Workers : stopThreads ~> pc[w] = "exited"

-----------------------------------------------------------------------------
(* What the comments of the function say, and the code does not do.         *)

\* scheduleTaskAndWaitOrError "throws an exception if any of the tasks errors"
\* (task_scheduler.h:55-56): a query always comes back.
QueriesComeBack == \A u \in Queries : <>(upc[u] = "done")

\* "Regardless of whether or not the given task or one of its dependencies errors, when this
\* function returns, no task related to the given task will be in the task queue."
\* (task_scheduler.h:56-58)
NoTaskIsLeftInTheQueue ==
    \A u \in Queries : result[u] # "none" =>
        \A i \in DOMAIN taskQueue : taskQueue[i] \notin Scheduled(u)
-----------------------------------------------------------------------------
(* The inductive invariant.                                                 *)

Active(t) == {w \in Workers : task[w] = t}

\* A worker has a task exactly while it is between getTaskAndRegister and deRegister.
WorkersInv ==
    \A w \in Workers : task[w] = NoTask <=> pc[w] \in {"idle", "exited"}

\* The counts of a task: its workers are those registered and not finished.  A worker whose
\* finalizeIfNecessary threw is finished and still there.
CountsInv ==
    \A t \in Tasks :
        /\ t \notin finalizeThrew =>
               numThreadsRegistered[t] = numThreadsFinished[t] + Cardinality(Active(t))
        /\ t \in finalizeThrew =>
               /\ finalized[t] = 1
               /\ numThreadsFinished[t] >= numThreadsRegistered[t]
               /\ numThreadsRegistered[t] > 0
               /\ \A w \in Active(t) : \/ pc[w] = "set_exception"
                                       \/ pc[w] = "deregister" /\ exceptionsPtr[t]

\* A task is finalized when its last worker finishes without an exception in any of them.
FinalizationInv ==
    \A t \in Tasks :
        /\ finalized[t] \in {0, 1}
        /\ t \notin finalizeThrew => (finalized[t] = 1 <=> IsCompletedSuccessfully(t))

\* The tasks a user has added to the queue.
AddedIndices(u) == {i \in DOMAIN Plan[u] : \/ i < next[u]
                                           \/ i = next[u] /\ upc[u] # "schedule"}
Added(u) == {Plan[u][i] : i \in AddedIndices(u)}

\* Only added tasks are in the queue or have workers.
QueueInv ==
    /\ \A i \in DOMAIN taskQueue : \E u \in Users : taskQueue[i] \in Added(u)
    /\ \A w \in Workers : task[w] # NoTask => \E u \in Users : task[w] \in Added(u)

Passed(t) == t \in finalizeThrew \/ Succeeded(t)

\* Where a query is in its plan, and what it has seen of its current task.
QueriesInv ==
    \A u \in Queries :
        /\ upc[u] # "wait_all"
        /\ \A i \in 1..(next[u] - 1) : Passed(Plan[u][i])
        /\ upc[u] \in {"check", "remove", "done"} =>
               CurrentTask(u) \in finalizeThrew \/ IsCompleted(CurrentTask(u))
        /\ upc[u] = "remove" => exceptionsPtr[CurrentTask(u)]
        /\ upc[u] = "done" <=> result[u] # "none"
        /\ result[u] = "returned" => IsLastTask(u) /\ Passed(CurrentTask(u))
        /\ result[u] = "threw" =>
               /\ exceptionsPtr[CurrentTask(u)]
               /\ \A i \in DOMAIN taskQueue : taskQueue[i] # CurrentTask(u)

\* A task a COPY has added is in the queue, or has left it because it succeeded, unless the
\* COPY itself has thrown.
CopiesInv ==
    \A u \in Copies :
        /\ upc[u] \in {"schedule", "wait_all", "done"}
        /\ upc[u] = "done" <=> result[u] # "none"
        /\ upc[u] # "schedule" => IsLastTask(u)
        /\ result[u] # "threw" =>
               \A t \in Added(u) : Passed(t) \/ \E i \in DOMAIN taskQueue : taskQueue[i] = t
        /\ result[u] = "returned" => \A t \in Added(u) : Passed(t)

IInv ==
    /\ TypeOK
    /\ WorkersInv
    /\ CountsInv
    /\ FinalizationInv
    /\ QueueInv
    /\ QueriesInv
    /\ CopiesInv
=============================================================================
