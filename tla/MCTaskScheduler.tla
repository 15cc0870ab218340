-------------------------- MODULE MCTaskScheduler --------------------------
(* TaskScheduler with two workers, a query of two tasks and a COPY of two.  *)
EXTENDS TaskScheduler, TLC

CONSTANTS w1, w2, query, copy, build, probe, c1, c2

TwoWorkers == {w1, w2}
OneQuery == {query}
OneCopy == {copy}
NoUsers == {}
FourTasks == {build, probe, c1, c2}
NoTasks == {}
OnlyBuild == {build}
QueryAndCopy == (query :> <<build, probe>>) @@ (copy :> <<c1, c2>>)
QueryOnly == query :> <<build, probe>>

\* CopyCSVTask is a task for one thread.
Threads == [t \in Tasks |-> IF t \in {c1, c2} THEN 1 ELSE 2]
============================================================================
