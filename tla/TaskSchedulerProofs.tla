------------------------ MODULE TaskSchedulerProofs ------------------------
(***************************************************************************)
(* Proofs about TaskScheduler for any finite set of workers, any users and *)
(* any plans.  IInv is inductive; the safety properties follow from it.    *)
(***************************************************************************)
EXTENDS TaskScheduler, InductionLemmas, FiniteSetTheorems, SequenceTheorems

-----------------------------------------------------------------------------
(* Operators                                                                *)

\* Without(s, S) is a sequence, and its elements are those of s that are not in S.
LEMMA WithoutProperties ==
    ASSUME NEW T, NEW s \in Seq(T), NEW S
    PROVE  /\ Without(s, S) \in Seq(T)
           /\ \A i \in DOMAIN Without(s, S) :
                  \E j \in DOMAIN s : Without(s, S)[i] = s[j] /\ s[j] \notin S
           /\ \A j \in DOMAIN s : s[j] \notin S =>
                  \E i \in DOMAIN Without(s, S) : Without(s, S)[i] = s[j]
<1> DEFINE Step(f, i) == IF i = 0 THEN <<>>
                         ELSE IF s[i] \in S THEN f[i - 1] ELSE Append(f[i - 1], s[i])
           IsKept(f, n) == f = [i \in 0..n |-> Step(f, i)]
           kept == CHOOSE f : IsKept(f, Len(s))
<1>1. \E f : IsKept(f, Len(s))
    <2> DEFINE G == {n \in Nat : \E f : IsKept(f, n)}
    <2>1. 0 \in G
        <3>1. IsKept([i \in 0..0 |-> <<>>], 0)
            OBVIOUS
        <3> QED BY <3>1
    <2>2. ASSUME NEW n \in Nat, n \in G PROVE n + 1 \in G
        <3>1. PICK f : IsKept(f, n)
            BY <2>2
        <3> DEFINE g == [i \in 0..(n + 1) |-> IF i = n + 1 THEN Step(f, i) ELSE f[i]]
        <3>2. ASSUME NEW i \in 0..(n + 1) PROVE g[i] = Step(g, i)
            <4>1. i = n + 1 => i # 0 /\ i - 1 = n /\ g[i - 1] = f[n]
                OBVIOUS
            <4>2. i # n + 1 => i \in 0..n /\ f[i] = Step(f, i)
                <5> HIDE DEF Step
                <5> QED BY <3>1
            <4>3. i # n + 1 /\ i # 0 => g[i - 1] = f[i - 1]
                OBVIOUS
            <4> QED BY <4>1, <4>2, <4>3
        <3>3. IsKept(g, n + 1)
            BY <3>2
        <3> HIDE DEF IsKept, g
        <3> QED BY <3>3
    <2> HIDE DEF IsKept
    <2>3. Nat \subseteq G
        <3> HIDE DEF G
        <3> QED BY <2>1, <2>2, NatSetInduction
    <2> QED BY <2>3
<1>2. IsKept(kept, Len(s))
    BY <1>1
<1>3. Without(s, S) = kept[Len(s)]
    BY DEF Without
<1> HIDE DEF kept
<1> DEFINE P(n) == /\ kept[n] \in Seq(T)
                   /\ \A i \in DOMAIN kept[n] : \E j \in 1..n : kept[n][i] = s[j] /\ s[j] \notin S
                   /\ \A j \in 1..n : s[j] \notin S => \E i \in DOMAIN kept[n] : kept[n][i] = s[j]
           H == {n \in Nat : n <= Len(s) => P(n)}
<1>4. 0 \in H
    BY <1>2
<1>5. ASSUME NEW n \in Nat, n \in H PROVE n + 1 \in H
    <2> SUFFICES ASSUME n + 1 <= Len(s) PROVE P(n + 1)
        OBVIOUS
    <2>1. P(n) /\ s[n + 1] \in T
        BY <1>5
    <2>2. kept[n + 1] = IF s[n + 1] \in S THEN kept[n] ELSE Append(kept[n], s[n + 1])
        <3>1. kept[n + 1] = Step(kept, n + 1)
            <4> HIDE DEF Step
            <4> QED BY <1>2
        <3> QED BY <3>1
    <2>3. CASE s[n + 1] \in S
        BY <2>1, <2>2, <2>3
    <2>4. CASE s[n + 1] \notin S
        <3> DEFINE q == kept[n]
        <3>1. kept[n + 1] = Append(q, s[n + 1]) /\ q \in Seq(T)
            BY <2>1, <2>2, <2>4
        <3>2. /\ Append(q, s[n + 1]) \in Seq(T)
              /\ DOMAIN Append(q, s[n + 1]) = 1..(Len(q) + 1)
              /\ Append(q, s[n + 1])[Len(q) + 1] = s[n + 1]
              /\ DOMAIN q = 1..Len(q)
              /\ \A i \in 1..Len(q) : Append(q, s[n + 1])[i] = q[i]
            BY <3>1, <2>1
        <3> HIDE DEF q
        <3>3. \A i \in DOMAIN q : \E j \in 1..n : q[i] = s[j] /\ s[j] \notin S
            BY <2>1 DEF q
        <3>4. \A j \in 1..n : s[j] \notin S => \E i \in DOMAIN q : q[i] = s[j]
            BY <2>1 DEF q
        <3> QED BY SMTT(20), <3>1, <3>2, <3>3, <3>4, <2>4
    <2> QED BY <2>3, <2>4
<1>6. P(Len(s))
    <2> HIDE DEF P
    <2>1. Nat \subseteq H
        BY <1>4, <1>5, NatSetInduction
    <2> QED BY <2>1
<1> QED BY SMTT(20), <1>3, <1>6

\* The workers f assigns task t.
Holding(f, t) == {v \in Workers : f[v] = t}

\* What the number of workers that hold a task becomes when one of them changes its task.
LEMMA Holders ==
    ASSUME NEW f \in [Workers -> Tasks \cup {NoTask}], NEW w \in Workers, NEW t
    PROVE  /\ Cardinality(Holding(f, t)) \in Nat
           /\ f[w] = t =>
                  /\ Cardinality(Holding(f, t)) > 0
                  /\ Cardinality(Holding(f, t)) = 1 => Holding(f, t) = {w}
                  /\ \A x : x # t => Cardinality(Holding([f EXCEPT ![w] = x], t))
                                         = Cardinality(Holding(f, t)) - 1
           /\ f[w] # t => Cardinality(Holding([f EXCEPT ![w] = t], t))
                              = Cardinality(Holding(f, t)) + 1
<1> DEFINE before == Holding(f, t)
<1>1. IsFiniteSet(before) /\ Cardinality(before) \in Nat
    BY FinitelyManyWorkers, FS_Subset, FS_CardinalityType DEF Holding
<1>2. ASSUME f[w] = t
      PROVE  /\ Cardinality(before) > 0
             /\ Cardinality(before) = 1 => before = {w}
             /\ Cardinality(before \ {w}) = Cardinality(before) - 1
    <2>1. w \in before
        BY <1>2 DEF Holding
    <2>2. IsFiniteSet(before \ {w}) /\ Cardinality(before \ {w}) = Cardinality(before) - 1
        BY <1>1, <2>1, FS_RemoveElement
    <2>3. Cardinality(before \ {w}) \in Nat /\ (Cardinality(before \ {w}) = 0 => before \ {w} = {})
        BY <2>2, FS_CardinalityType, FS_EmptySet
    <2> QED BY <1>1, <2>1, <2>2, <2>3
<1>3. ASSUME f[w] = t, NEW x, x # t PROVE Holding([f EXCEPT ![w] = x], t) = before \ {w}
    BY <1>3 DEF Holding
<1>4. ASSUME f[w] # t
      PROVE  Cardinality(Holding([f EXCEPT ![w] = t], t)) = Cardinality(before) + 1
    <2>1. Holding([f EXCEPT ![w] = t], t) = before \cup {w} /\ w \notin before
        BY <1>4 DEF Holding
    <2> QED BY <1>1, <2>1, FS_AddElement
<1> QED BY <1>1, <1>2, <1>3, <1>4

\* The queue a worker leaves behind has no new task, and misses only tasks that are completed
\* successfully.
LEMMA CleanedProperties ==
    ASSUME TypeOK, NEW n \in 0..Len(taskQueue)
    PROVE  /\ Cleaned(n) \in Seq(Tasks)
           /\ \A i \in DOMAIN Cleaned(n) : \E j \in DOMAIN taskQueue : Cleaned(n)[i] = taskQueue[j]
           /\ \A j \in DOMAIN taskQueue :
                  \/ IsCompletedSuccessfully(taskQueue[j])
                  \/ \E i \in DOMAIN Cleaned(n) : Cleaned(n)[i] = taskQueue[j]
<1> DEFINE S == {t \in Tasks : IsCompletedSuccessfully(t)}
           a == SubSeq(taskQueue, 1, n)
           b == SubSeq(taskQueue, n + 1, Len(taskQueue))
           c == Without(a, S)
<1>1. taskQueue \in Seq(Tasks) /\ Len(taskQueue) \in Nat
    BY DEF TypeOK
<1>2. /\ a \in Seq(Tasks) /\ Len(a) = n
      /\ \A i \in 1..n : a[i] = taskQueue[i]
    BY <1>1, SubSeqProperties
<1>3. /\ b \in Seq(Tasks) /\ Len(b) = Len(taskQueue) - n
      /\ \A i \in 1..(Len(taskQueue) - n) : b[i] = taskQueue[n + i]
    BY <1>1
<1> HIDE DEF a, b
<1>4. /\ c \in Seq(Tasks)
      /\ \A i \in DOMAIN c : \E j \in DOMAIN a : c[i] = a[j]
      /\ \A j \in DOMAIN a : a[j] \notin S => \E i \in DOMAIN c : c[i] = a[j]
    <2> HIDE DEF S
    <2>1. a \in Seq(Tasks)
        BY <1>2
    <2>2. /\ Without(a, S) \in Seq(Tasks)
          /\ \A i \in DOMAIN Without(a, S) :
                 \E j \in DOMAIN a : Without(a, S)[i] = a[j] /\ a[j] \notin S
          /\ \A j \in DOMAIN a : a[j] \notin S =>
                 \E i \in DOMAIN Without(a, S) : Without(a, S)[i] = a[j]
        BY <2>1, WithoutProperties
    <2> QED BY <2>2
<1> HIDE DEF c
<1>5. Cleaned(n) = c \o b
    BY DEF Cleaned, a, b, c
<1>6. /\ c \o b \in Seq(Tasks) /\ DOMAIN (c \o b) = 1..(Len(c) + Len(b))
      /\ \A i \in 1..(Len(c) + Len(b)) :
             (c \o b)[i] = IF i <= Len(c) THEN c[i] ELSE b[i - Len(c)]
    <2>1. c \in Seq(Tasks) /\ b \in Seq(Tasks)
        BY <1>3, <1>4
    <2> QED BY <2>1
<1>7. ASSUME NEW i \in DOMAIN (c \o b)
      PROVE  \E j \in DOMAIN taskQueue : (c \o b)[i] = taskQueue[j]
    <2>1. CASE i <= Len(c)
        <3>1. i \in DOMAIN c /\ (c \o b)[i] = c[i]
            BY <1>3, <1>4, <1>6, <2>1
        <3>2. PICK j \in DOMAIN a : c[i] = a[j]
            BY <1>4, <3>1
        <3>3. j \in 1..n /\ j \in DOMAIN taskQueue
            BY <1>1, <1>2, <3>2
        <3> QED BY <1>2, <3>1, <3>2, <3>3
    <2>2. CASE i > Len(c)
        <3>1. i - Len(c) \in 1..Len(b) /\ n + (i - Len(c)) \in DOMAIN taskQueue
            BY <1>1, <1>3, <1>4, <1>6, <2>2
        <3>2. (c \o b)[i] = b[i - Len(c)]
            BY <1>3, <1>4, <1>6, <2>2
        <3>3. b[i - Len(c)] = taskQueue[n + (i - Len(c))]
            BY <1>3, <3>1
        <3> QED BY <3>1, <3>2, <3>3
    <2> QED BY <1>3, <1>4, <1>6, <2>1, <2>2
<1>8. ASSUME NEW j \in DOMAIN taskQueue, ~IsCompletedSuccessfully(taskQueue[j])
      PROVE  \E i \in DOMAIN (c \o b) : (c \o b)[i] = taskQueue[j]
    <2>1. CASE j <= n
        <3>1. j \in DOMAIN a /\ a[j] = taskQueue[j] /\ a[j] \notin S
            BY <1>1, <1>2, <1>8, <2>1
        <3>2. PICK i \in DOMAIN c : c[i] = a[j]
            BY <1>4, <3>1
        <3>3. i \in 1..Len(c) /\ Len(c) \in Nat /\ Len(b) \in Nat
            BY <1>3, <1>4, <3>2
        <3> QED BY <1>6, <3>1, <3>2, <3>3
    <2>2. CASE j > n
        <3>1. j - n \in 1..Len(b) /\ b[j - n] = taskQueue[j]
            BY <1>1, <1>3, <2>2
        <3>2. Len(c) \in Nat /\ Len(b) \in Nat
            BY <1>3, <1>4
        <3>3. Len(c) + (j - n) \in DOMAIN (c \o b) /\ (c \o b)[Len(c) + (j - n)] = b[j - n]
            BY <1>6, <3>1, <3>2
        <3> QED BY <3>1, <3>3
    <2> QED BY <1>1, <2>1, <2>2
<1> QED BY <1>5, <1>6, <1>7, <1>8

-----------------------------------------------------------------------------
(* Steps                                                                    *)

\* The plans of the users.
LEMMA PlanProperties ==
    /\ \A u \in Users : Plan[u] \in Seq(Tasks) /\ Len(Plan[u]) \in Nat /\ Len(Plan[u]) > 0
                        /\ DOMAIN Plan[u] = 1..Len(Plan[u])
    /\ TypeOK => \A u \in Users : CurrentTask(u) \in Tasks
<1>1. \A u \in Users : Plan[u] \in Seq(Tasks) /\ Plan[u] # <<>>
    BY TaskSchedulerAssumption
<1>2. \A u \in Users : Len(Plan[u]) \in Nat /\ Len(Plan[u]) > 0 /\ DOMAIN Plan[u] = 1..Len(Plan[u])
    BY <1>1, EmptySeq, LenProperties
<1> QED BY <1>1, <1>2, ElementOfSeq DEF TypeOK, CurrentTask

\* What a step may do to the queue: a new task is one a user schedules; a task that is gone
\* was completed successfully, or was removed with its exception.
LEMMA QueueStep ==
    ASSUME TypeOK, [Next]_vars
    PROVE  /\ taskQueue' \in Seq(Tasks)
           /\ \A i \in DOMAIN taskQueue' :
                  \/ \E j \in DOMAIN taskQueue : taskQueue'[i] = taskQueue[j]
                  \/ \E u \in Users : ScheduleTask(u) /\ taskQueue'[i] = CurrentTask(u)
           /\ \A j \in DOMAIN taskQueue :
                  \/ IsCompletedSuccessfully(taskQueue[j])
                  \/ \E i \in DOMAIN taskQueue' : taskQueue'[i] = taskQueue[j]
                  \/ \E u \in Users : RemoveErroringTask(u) /\ taskQueue[j] = CurrentTask(u)
                  \/ \E u \in Users : WaitAllThrows(u)
<1>0. taskQueue \in Seq(Tasks) /\ Len(taskQueue) \in Nat /\ DOMAIN taskQueue = 1..Len(taskQueue)
    BY DEF TypeOK
<1>1. CASE UNCHANGED taskQueue
    BY <1>0, <1>1
<1>2. ASSUME NEW n \in 0..Len(taskQueue), taskQueue' = Cleaned(n)
      PROVE  /\ taskQueue' \in Seq(Tasks)
             /\ \A i \in DOMAIN taskQueue' : \E j \in DOMAIN taskQueue : taskQueue'[i] = taskQueue[j]
             /\ \A j \in DOMAIN taskQueue :
                    \/ IsCompletedSuccessfully(taskQueue[j])
                    \/ \E i \in DOMAIN taskQueue' : taskQueue'[i] = taskQueue[j]
    BY <1>2, CleanedProperties
<1>3. ASSUME NEW S, taskQueue' = Without(taskQueue, S)
      PROVE  /\ taskQueue' \in Seq(Tasks)
             /\ \A i \in DOMAIN taskQueue' : \E j \in DOMAIN taskQueue : taskQueue'[i] = taskQueue[j]
             /\ \A j \in DOMAIN taskQueue :
                    taskQueue[j] \notin S => \E i \in DOMAIN taskQueue' : taskQueue'[i] = taskQueue[j]
    <2>1. /\ Without(taskQueue, S) \in Seq(Tasks)
          /\ \A i \in DOMAIN Without(taskQueue, S) :
                 \E j \in DOMAIN taskQueue :
                     Without(taskQueue, S)[i] = taskQueue[j] /\ taskQueue[j] \notin S
          /\ \A j \in DOMAIN taskQueue : taskQueue[j] \notin S =>
                 \E i \in DOMAIN Without(taskQueue, S) : Without(taskQueue, S)[i] = taskQueue[j]
        <3>1. taskQueue \in Seq(Tasks)
            BY <1>0
        <3> QED BY <3>1, WithoutProperties
    <2> QED BY <1>3, <2>1
<1>4. ASSUME NEW w \in Workers, GetTaskAndRegister(w)
      PROVE  \E n \in 0..Len(taskQueue) : taskQueue' = Cleaned(n)
    BY <1>0, <1>4 DEF GetTaskAndRegister
<1>5. ASSUME NEW w \in Workers, GetNoTask(w)
      PROVE  \E n \in 0..Len(taskQueue) : taskQueue' = Cleaned(n)
    BY <1>0, <1>5 DEF GetNoTask
<1>6. CASE \E u \in Users : ScheduleTask(u)
    <2>1. PICK u \in Users : ScheduleTask(u)
        BY <1>6
    <2>2. taskQueue' = Append(taskQueue, CurrentTask(u)) /\ CurrentTask(u) \in Tasks
        BY <2>1, PlanProperties DEF ScheduleTask
    <2>3. /\ taskQueue' \in Seq(Tasks) /\ DOMAIN taskQueue' = 1..(Len(taskQueue) + 1)
          /\ taskQueue'[Len(taskQueue) + 1] = CurrentTask(u)
          /\ \A i \in 1..Len(taskQueue) : taskQueue'[i] = taskQueue[i]
        BY <1>0, <2>2
    <2> QED BY <1>0, <2>1, <2>3
<1>7. CASE \E u \in Users : RemoveErroringTask(u)
    <2>1. PICK u \in Users : RemoveErroringTask(u)
        BY <1>7
    <2>2. taskQueue' = Without(taskQueue, {CurrentTask(u)})
        BY <2>1 DEF RemoveErroringTask
    <2>3. /\ taskQueue' \in Seq(Tasks)
          /\ \A i \in DOMAIN taskQueue' : \E j \in DOMAIN taskQueue : taskQueue'[i] = taskQueue[j]
          /\ \A j \in DOMAIN taskQueue :
                 taskQueue[j] \notin {CurrentTask(u)} =>
                     \E i \in DOMAIN taskQueue' : taskQueue'[i] = taskQueue[j]
        BY <1>3, <2>2, Zenon
    <2> QED BY <2>1, <2>3, Zenon
<1>8. CASE \E u \in Users : WaitAllThrows(u)
    <2>1. PICK u \in Users : WaitAllThrows(u)
        BY <1>8
    <2>2. PICK i \in DOMAIN taskQueue : taskQueue' = Without(taskQueue, {taskQueue[i]})
        BY <2>1 DEF WaitAllThrows
    <2>3. /\ taskQueue' \in Seq(Tasks)
          /\ \A k \in DOMAIN taskQueue' : \E j \in DOMAIN taskQueue : taskQueue'[k] = taskQueue[j]
        BY <1>3, <2>2
    <2> QED BY <1>8, <2>3, Zenon
<1>9. \/ UNCHANGED taskQueue
      \/ \E w \in Workers : GetTaskAndRegister(w) \/ GetNoTask(w)
      \/ \E u \in Users : ScheduleTask(u) \/ RemoveErroringTask(u) \/ WaitAllThrows(u)
    BY DEF Next, WorkerStep, UserStep, RunSucceeds, RunThrows, SetException, DeRegister,
           FinalizeThrows, Exit, WaitTask, CheckTask, WaitAllReturns, Stop, vars
<1> QED BY <1>1, <1>2, <1>4, <1>5, <1>6, <1>7, <1>8, <1>9

\* Every step keeps the types; a worker that is not idle has a task (WorkersInv).
LEMMA TypeStep == TypeOK /\ WorkersInv /\ [Next]_vars => TypeOK'
<1> SUFFICES ASSUME TypeOK, WorkersInv, [Next]_vars PROVE TypeOK'
    OBVIOUS
<1>0. taskQueue' \in Seq(Tasks)
    BY QueueStep
<1>a. \A w \in Workers : pc[w] \in {"run", "set_exception", "deregister"} => task[w] \in Tasks
    BY DEF TypeOK, WorkersInv
<1> USE <1>0 DEF TypeOK, taskVars, workerVars, userVars
<1>1. ASSUME NEW w \in Workers, GetTaskAndRegister(w) PROVE TypeOK'
    <2>1. PICK i \in DOMAIN taskQueue :
              /\ task' = [task EXCEPT ![w] = taskQueue[i]]
              /\ numThreadsRegistered' = [numThreadsRegistered EXCEPT ![taskQueue[i]] = @ + 1]
        BY <1>1 DEF GetTaskAndRegister
    <2>2. taskQueue[i] \in Tasks
        BY <2>1
    <2>3. task' \in [Workers -> Tasks \cup {NoTask}]
        BY <2>1, <2>2
    <2>4. numThreadsRegistered' \in [Tasks -> Nat]
        BY <2>1, <2>2
    <2> QED BY <1>1, <2>3, <2>4 DEF GetTaskAndRegister
<1>2. ASSUME NEW w \in Workers, GetNoTask(w) PROVE TypeOK'
    BY <1>2 DEF GetNoTask
<1>3. ASSUME NEW w \in Workers, RunSucceeds(w) PROVE TypeOK'
    BY <1>3 DEF RunSucceeds
<1>4. ASSUME NEW w \in Workers, RunThrows(w) PROVE TypeOK'
    BY <1>4 DEF RunThrows
<1>5. ASSUME NEW w \in Workers, SetException(w) PROVE TypeOK'
    BY <1>5 DEF SetException
<1>6. ASSUME NEW w \in Workers, DeRegister(w) PROVE TypeOK'
    <2>1. task[w] \in Tasks
        BY <1>a, <1>6 DEF DeRegister
    <2> QED BY <1>6, <2>1 DEF DeRegister
<1>7. ASSUME NEW w \in Workers, FinalizeThrows(w) PROVE TypeOK'
    <2>1. task[w] \in Tasks
        BY <1>a, <1>7 DEF FinalizeThrows
    <2> QED BY <1>7, <2>1 DEF FinalizeThrows
<1>8. ASSUME NEW w \in Workers, Exit(w) PROVE TypeOK'
    BY <1>8 DEF Exit
<1>9. ASSUME NEW u \in Users, ScheduleTask(u) PROVE TypeOK'
    <2>1. /\ next' \in [Users -> Nat]
          /\ \A v \in Users : next'[v] \in DOMAIN Plan[v]
        <3>1. ~IsLastTask(u) => next[u] + 1 \in DOMAIN Plan[u]
            BY PlanProperties DEF IsLastTask
        <3>2. next' = next \/ (~IsLastTask(u) /\ next' = [next EXCEPT ![u] = @ + 1])
            BY <1>9 DEF ScheduleTask
        <3>3. ASSUME NEW v \in Users PROVE next'[v] \in Nat /\ next'[v] \in DOMAIN Plan[v]
            <4>1. CASE v = u
                BY <3>1, <3>2, <4>1
            <4>2. CASE v # u
                BY <3>2, <4>2
            <4> QED BY <4>1, <4>2
        <3>4. next' \in [Users -> Nat]
            <4>1. next \in [Users -> Nat] /\ next[u] + 1 \in Nat
                OBVIOUS
            <4>2. CASE next' = next
                BY <4>1, <4>2
            <4>3. CASE next' = [next EXCEPT ![u] = @ + 1]
                BY <4>1, <4>3
            <4> QED BY <3>2, <4>2, <4>3
        <3> QED BY <3>3, <3>4
    <2> QED BY <1>9, <2>1 DEF ScheduleTask
<1>10. ASSUME NEW u \in Users, WaitTask(u) PROVE TypeOK'
    BY <1>10 DEF WaitTask
<1>11. ASSUME NEW u \in Users, CheckTask(u) PROVE TypeOK'
    <2>1. /\ next' \in [Users -> Nat]
          /\ \A v \in Users : next'[v] \in DOMAIN Plan[v]
        <3>1. ~IsLastTask(u) => next[u] + 1 \in DOMAIN Plan[u]
            BY PlanProperties DEF IsLastTask
        <3>2. next' = next \/ (~IsLastTask(u) /\ next' = [next EXCEPT ![u] = @ + 1])
            BY <1>11 DEF CheckTask
        <3>3. ASSUME NEW v \in Users PROVE next'[v] \in Nat /\ next'[v] \in DOMAIN Plan[v]
            <4>1. CASE v = u
                BY <3>1, <3>2, <4>1
            <4>2. CASE v # u
                BY <3>2, <4>2
            <4> QED BY <4>1, <4>2
        <3>4. next' \in [Users -> Nat]
            <4>1. next \in [Users -> Nat] /\ next[u] + 1 \in Nat
                OBVIOUS
            <4>2. CASE next' = next
                BY <4>1, <4>2
            <4>3. CASE next' = [next EXCEPT ![u] = @ + 1]
                BY <4>1, <4>3
            <4> QED BY <3>2, <4>2, <4>3
        <3> QED BY <3>3, <3>4
    <2> QED BY <1>11, <2>1 DEF CheckTask, End
<1>12. ASSUME NEW u \in Users, RemoveErroringTask(u) PROVE TypeOK'
    BY <1>12 DEF RemoveErroringTask, End
<1>13. ASSUME NEW u \in Users, WaitAllReturns(u) PROVE TypeOK'
    BY <1>13 DEF WaitAllReturns, End
<1>14. ASSUME NEW u \in Users, WaitAllThrows(u) PROVE TypeOK'
    BY <1>14 DEF WaitAllThrows, End
<1>15. CASE Stop
    BY <1>15 DEF Stop
<1>16. CASE UNCHANGED vars
    BY <1>16 DEF vars
<1> QED
    BY <1>1, <1>2, <1>3, <1>4, <1>5, <1>6, <1>7, <1>8, <1>9, <1>10, <1>11, <1>12, <1>13, <1>14,
       <1>15, <1>16 DEF Next, WorkerStep, UserStep
\* Every step keeps that the workers without a task are those idle or exited.
LEMMA WorkersStep == TypeOK /\ WorkersInv /\ [Next]_vars => WorkersInv'
<1> SUFFICES ASSUME TypeOK, WorkersInv, [Next]_vars PROVE WorkersInv'
    OBVIOUS
<1> USE DEF TypeOK, WorkersInv
<1>1. ASSUME NEW w \in Workers, GetTaskAndRegister(w) PROVE WorkersInv'
    <2>1. PICK i \in DOMAIN taskQueue : task' = [task EXCEPT ![w] = taskQueue[i]]
        BY <1>1 DEF GetTaskAndRegister
    <2>2. taskQueue[i] \in Tasks /\ taskQueue[i] # NoTask
        BY <2>1, TaskSchedulerAssumption
    <2> QED BY <1>1, <2>1, <2>2 DEF GetTaskAndRegister
<1>2. ASSUME NEW w \in Workers,
             RunSucceeds(w) \/ RunThrows(w) \/ SetException(w) \/ FinalizeThrows(w) \/ Exit(w)
      PROVE  WorkersInv'
    BY <1>2 DEF RunSucceeds, RunThrows, SetException, FinalizeThrows, Exit
<1>3. ASSUME NEW w \in Workers, DeRegister(w) PROVE WorkersInv'
    BY <1>3 DEF DeRegister
<1>4. CASE UNCHANGED <<pc, task>>
    BY <1>4
<1> QED
    BY <1>1, <1>2, <1>3, <1>4
       DEF Next, WorkerStep, UserStep, GetNoTask, ScheduleTask, WaitTask, CheckTask,
           RemoveErroringTask, WaitAllReturns, WaitAllThrows, Stop, vars, workerVars

\* The workers of a task that is not one of those whose finalization threw are counted, and
\* no worker registers to a task after the first has finished.
LEMMA CountsStep == TypeOK /\ WorkersInv /\ CountsInv /\ FinalizationInv /\ [Next]_vars
                        => CountsInv' /\ FinalizationInv'
<1> SUFFICES ASSUME TypeOK, WorkersInv, CountsInv, FinalizationInv, [Next]_vars
             PROVE  CountsInv' /\ FinalizationInv'
    OBVIOUS
<1>a. /\ task \in [Workers -> Tasks \cup {NoTask}]
      /\ numThreadsRegistered \in [Tasks -> Nat] /\ numThreadsFinished \in [Tasks -> Nat]
      /\ exceptionsPtr \in [Tasks -> BOOLEAN] /\ finalized \in [Tasks -> Nat]
    BY DEF TypeOK
<1>b. \A w \in Workers : pc[w] \in {"run", "set_exception", "deregister"} => task[w] \in Tasks
    BY DEF TypeOK, WorkersInv
\* What has to be shown of one task.
<1> DEFINE Good(t) ==
        /\ t \notin finalizeThrew =>
               /\ numThreadsRegistered[t] = numThreadsFinished[t] + Cardinality(Active(t))
               /\ finalized[t] = 1 <=> IsCompletedSuccessfully(t)
        /\ t \in finalizeThrew =>
               /\ finalized[t] = 1
               /\ numThreadsFinished[t] >= numThreadsRegistered[t]
               /\ numThreadsRegistered[t] > 0
               /\ \A w \in Active(t) : \/ pc[w] = "set_exception"
                                       \/ pc[w] = "deregister" /\ exceptionsPtr[t]
        /\ finalized[t] \in {0, 1}
<1>c. \A t \in Tasks : Good(t)
    BY DEF CountsInv, FinalizationInv
<1> SUFFICES ASSUME NEW t \in Tasks PROVE Good(t)'
    BY DEF CountsInv, FinalizationInv
<1>d. Good(t)
    BY <1>c
<1> USE DEF Active, IsCompletedSuccessfully, IsCompleted
<1>1. ASSUME NEW w \in Workers, GetTaskAndRegister(w) PROVE Good(t)'
    <2>1. PICK i \in DOMAIN taskQueue :
              /\ CanRegister(taskQueue[i])
              /\ task' = [task EXCEPT ![w] = taskQueue[i]]
              /\ numThreadsRegistered' = [numThreadsRegistered EXCEPT ![taskQueue[i]] = @ + 1]
        BY <1>1 DEF GetTaskAndRegister
    <2>2. taskQueue[i] \in Tasks /\ taskQueue[i] # NoTask
        BY <2>1, TaskSchedulerAssumption DEF TypeOK
    <2>3. /\ task[w] = NoTask /\ pc' = [pc EXCEPT ![w] = "run"]
          /\ UNCHANGED <<numThreadsFinished, exceptionsPtr, finalized, finalizeThrew>>
        BY <1>1 DEF GetTaskAndRegister, WorkersInv
    <2>4. CASE t = taskQueue[i]
        <3>1. numThreadsFinished[t] = 0 /\ t \notin finalizeThrew
            BY <1>a, <1>d, <2>1, <2>4 DEF CanRegister
        <3>2. Cardinality(Active(t)') = Cardinality(Active(t)) + 1 /\ Cardinality(Active(t)) \in Nat
            <4>1. Active(t) = Holding(task, t) /\ Active(t)' = Holding([task EXCEPT ![w] = t], t)
                BY <2>1, <2>4 DEF Holding
            <4>2. task[w] # t
                BY <2>2, <2>3, <2>4
            <4> HIDE DEF Active
            <4>3. task \in [Workers -> Tasks \cup {NoTask}]
                BY <1>a
            <4>4. /\ Cardinality(Holding(task, t)) \in Nat
                  /\ Cardinality(Holding([task EXCEPT ![w] = t], t)) = Cardinality(Holding(task, t)) + 1
                BY <4>2, <4>3, Holders, Zenon
            <4> QED BY <4>1, <4>4, Zenon
        <3> QED BY <1>a, <1>d, <2>1, <2>3, <2>4, <3>1, <3>2
    <2>5. CASE t # taskQueue[i]
        <3>1. Active(t)' = Active(t) /\ w \notin Active(t)
            BY <1>a, <2>1, <2>2, <2>3, <2>5, TaskSchedulerAssumption
        <3>2. numThreadsRegistered'[t] = numThreadsRegistered[t]
            BY <1>a, <2>1, <2>2, <2>5
        <3>3. \A v \in Active(t) : pc'[v] = pc[v]
            BY <2>3, <3>1 DEF TypeOK
        <3> HIDE DEF Active
        <3> QED BY <1>d, <2>3, <3>1, <3>2, <3>3
    <2> QED BY <2>4, <2>5
<1>2. ASSUME NEW w \in Workers, RunSucceeds(w) \/ RunThrows(w) \/ Exit(w) PROVE Good(t)'
    <2>1. UNCHANGED <<taskVars, task>> /\ \A v \in Workers : v # w => pc'[v] = pc[v]
        BY <1>2 DEF RunSucceeds, RunThrows, Exit, TypeOK
    <2>2. t \in finalizeThrew => w \notin Active(t)
        BY <1>2, <1>d, TaskSchedulerAssumption
           DEF RunSucceeds, RunThrows, Exit, WorkersInv, TypeOK
    <2> QED BY <1>d, <2>1, <2>2 DEF taskVars
<1>3. ASSUME NEW w \in Workers, SetException(w) PROVE Good(t)'
    <2>1. /\ task[w] \in Tasks /\ exceptionsPtr' = [exceptionsPtr EXCEPT ![task[w]] = TRUE]
          /\ pc' = [pc EXCEPT ![w] = "deregister"]
          /\ UNCHANGED <<numThreadsRegistered, numThreadsFinished, finalized, finalizeThrew, task>>
        BY <1>3, <1>b DEF SetException
    <2>2. CASE t = task[w]
        <3>1. Cardinality(Active(t)) > 0 /\ Cardinality(Active(t)) \in Nat
            <4>1. Active(t) = Holding(task, t)
                BY DEF Holding
            <4> QED BY <1>a, <2>2, <4>1, Holders
        <3> QED BY <1>a, <1>d, <2>1, <2>2, <3>1 DEF TypeOK
    <2>3. CASE t # task[w]
        BY <1>a, <1>d, <2>1, <2>3 DEF TypeOK
    <2> QED BY <2>2, <2>3
<1>4. ASSUME NEW w \in Workers, DeRegister(w) PROVE Good(t)'
    <2>1. /\ task[w] \in Tasks /\ task[w] # NoTask
          /\ numThreadsFinished' = [numThreadsFinished EXCEPT ![task[w]] = @ + 1]
          /\ finalized' = [finalized EXCEPT ![task[w]] = IF IsLastToFinish(w) THEN @ + 1 ELSE @]
          /\ pc' = [pc EXCEPT ![w] = "idle"]
          /\ task' = [task EXCEPT ![w] = NoTask]
          /\ UNCHANGED <<numThreadsRegistered, exceptionsPtr, finalizeThrew>>
        BY <1>4, <1>b, TaskSchedulerAssumption DEF DeRegister
    <2>2. CASE t = task[w]
        <3>1. /\ Cardinality(Active(t)) > 0 /\ Cardinality(Active(t)) \in Nat
              /\ Cardinality(Active(t)') = Cardinality(Active(t)) - 1
            <4>1. /\ Active(t) = Holding(task, t)
                  /\ Active(t)' = Holding([task EXCEPT ![w] = NoTask], t)
                BY <2>1 DEF Holding
            <4> HIDE DEF Active
            <4>2. task \in [Workers -> Tasks \cup {NoTask}] /\ task[w] = t /\ NoTask # t
                BY <1>a, <2>1, <2>2
            <4>3. /\ Cardinality(Holding(task, t)) \in Nat
                  /\ Cardinality(Holding(task, t)) > 0
                  /\ Cardinality(Holding([task EXCEPT ![w] = NoTask], t)) = Cardinality(Holding(task, t)) - 1
                BY <4>2, Holders, Zenon
            <4> QED BY <4>1, <4>3, Zenon
        <3>2. CASE t \in finalizeThrew
            BY <1>a, <1>d, <2>1, <2>2, <3>2 DEF IsLastToFinish, TypeOK
        <3>3. CASE t \notin finalizeThrew
            BY <1>a, <1>d, <2>1, <2>2, <3>1, <3>3 DEF IsLastToFinish
        <3> QED BY <3>2, <3>3
    <2>3. CASE t # task[w]
        <3>1. Active(t)' = Active(t) /\ w \notin Active(t)
            BY <1>a, <2>1, <2>3, TaskSchedulerAssumption
        <3> QED BY <1>a, <1>d, <2>1, <2>3, <3>1 DEF TypeOK
    <2> QED BY <2>2, <2>3
<1>5. ASSUME NEW w \in Workers, FinalizeThrows(w) PROVE Good(t)'
    <2>1. /\ task[w] \in Tasks /\ IsLastToFinish(w)
          /\ numThreadsFinished' = [numThreadsFinished EXCEPT ![task[w]] = @ + 1]
          /\ finalized' = [finalized EXCEPT ![task[w]] = @ + 1]
          /\ finalizeThrew' = finalizeThrew \cup {task[w]}
          /\ pc' = [pc EXCEPT ![w] = "set_exception"]
          /\ UNCHANGED <<numThreadsRegistered, exceptionsPtr, task>>
        BY <1>5, <1>b DEF FinalizeThrows
    <2>2. CASE t = task[w]
        <3>1. t \notin finalizeThrew
            BY <1>a, <1>d, <2>1, <2>2 DEF IsLastToFinish
        <3>2. /\ Cardinality(Active(t)) \in Nat
              /\ Cardinality(Active(t)) = 1 => Active(t) = {w}
            <4>1. Active(t) = Holding(task, t)
                BY DEF Holding
            <4> QED BY <1>a, <2>2, <4>1, Holders
        <3>3. Active(t) = {w} /\ finalized[t] = 0
            BY <1>a, <1>d, <2>1, <2>2, <3>1, <3>2 DEF IsLastToFinish
        <3> QED BY <1>a, <1>d, <2>1, <2>2, <3>1, <3>3 DEF TypeOK, IsLastToFinish
    <2>3. CASE t # task[w]
        BY <1>a, <1>d, <2>1, <2>3 DEF TypeOK
    <2> QED BY <2>2, <2>3
<1>6. CASE UNCHANGED <<taskVars, workerVars>>
    BY <1>d, <1>6 DEF taskVars, workerVars
<1> QED
    BY <1>1, <1>2, <1>3, <1>4, <1>5, <1>6
       DEF Next, WorkerStep, UserStep, GetNoTask, ScheduleTask, WaitTask, CheckTask,
           RemoveErroringTask, WaitAllReturns, WaitAllThrows, Stop, vars
\* Nothing that a user has seen of a task is undone: it stays completed, and with the same
\* outcome, or its finalization has thrown.
LEMMA Stability ==
    ASSUME TypeOK, WorkersInv, CountsInv, FinalizationInv, [Next]_vars, NEW t \in Tasks
    PROVE  /\ exceptionsPtr[t] => exceptionsPtr'[t]
           /\ t \in finalizeThrew \/ IsCompleted(t) => t \in finalizeThrew' \/ IsCompleted(t)'
           /\ Passed(t) => Passed(t)'
<1>a. /\ task \in [Workers -> Tasks \cup {NoTask}]
      /\ numThreadsRegistered \in [Tasks -> Nat] /\ numThreadsFinished \in [Tasks -> Nat]
      /\ exceptionsPtr \in [Tasks -> BOOLEAN] /\ finalized \in [Tasks -> Nat]
    BY DEF TypeOK
<1>b. t \in finalizeThrew => t \in finalizeThrew'
    BY DEF Next, WorkerStep, UserStep, GetTaskAndRegister, GetNoTask, RunSucceeds, RunThrows,
           SetException, DeRegister, FinalizeThrows, Exit, ScheduleTask, WaitTask, CheckTask,
           RemoveErroringTask, WaitAllReturns, WaitAllThrows, Stop, vars, taskVars
<1>c. exceptionsPtr[t] => exceptionsPtr'[t]
    BY <1>a DEF Next, WorkerStep, UserStep, GetTaskAndRegister, GetNoTask, RunSucceeds, RunThrows,
           SetException, DeRegister, FinalizeThrows, Exit, ScheduleTask, WaitTask, CheckTask,
           RemoveErroringTask, WaitAllReturns, WaitAllThrows, Stop, vars, taskVars
<1>d. t \notin finalizeThrew /\ IsCompletedSuccessfully(t) <=> t \notin finalizeThrew /\ finalized[t] = 1
    BY DEF FinalizationInv
\* A completed task has no worker.
<1>e. ASSUME t \notin finalizeThrew, IsCompleted(t)
      PROVE  \A w \in Workers : task[w] # t
    <2> SUFFICES ASSUME NEW w \in Workers, task[w] = t PROVE FALSE
        OBVIOUS
    <2>1. Cardinality(Holding(task, t)) \in Nat /\ Cardinality(Holding(task, t)) > 0
        BY <1>a, Holders
    <2>2. Active(t) = Holding(task, t)
        BY DEF Active, Holding
    <2> QED BY <1>a, <1>e, <2>1, <2>2 DEF CountsInv, IsCompleted
<1>f. ASSUME t \notin finalizeThrew, IsCompleted(t)
      PROVE  IsCompleted(t)' /\ exceptionsPtr'[t] = exceptionsPtr[t] /\ finalized'[t] = finalized[t]
    <2>1. \A w \in Workers : task[w] # t
        BY <1>e, <1>f
    <2>2. ASSUME NEW w \in Workers, GetTaskAndRegister(w)
          PROVE  UNCHANGED <<numThreadsRegistered[t], numThreadsFinished[t], exceptionsPtr[t], finalized[t]>>
        <3>1. PICK i \in DOMAIN taskQueue :
                  /\ CanRegister(taskQueue[i])
                  /\ numThreadsRegistered' = [numThreadsRegistered EXCEPT ![taskQueue[i]] = @ + 1]
            BY <2>2 DEF GetTaskAndRegister
        <3>2. taskQueue[i] # t
            BY <1>a, <1>f, <3>1 DEF CanRegister, IsCompleted
        <3> QED BY <1>a, <2>2, <3>1, <3>2 DEF GetTaskAndRegister
    <2>3. ASSUME NEW w \in Workers, SetException(w) \/ DeRegister(w) \/ FinalizeThrows(w)
          PROVE  UNCHANGED <<numThreadsRegistered[t], numThreadsFinished[t], exceptionsPtr[t], finalized[t]>>
        BY <1>a, <2>1, <2>3 DEF SetException, DeRegister, FinalizeThrows
    <2>4. UNCHANGED <<numThreadsRegistered[t], numThreadsFinished[t], exceptionsPtr[t], finalized[t]>>
        BY <2>2, <2>3 DEF Next, WorkerStep, UserStep, GetNoTask, RunSucceeds, RunThrows, Exit,
           ScheduleTask, WaitTask, CheckTask, RemoveErroringTask, WaitAllReturns, WaitAllThrows,
           Stop, vars, taskVars
    <2> QED BY <1>f, <2>4 DEF IsCompleted
<1>g. Passed(t) => Passed(t)'
    BY <1>b, <1>d, <1>f DEF Passed, Succeeded, IsCompletedSuccessfully
<1> QED BY <1>b, <1>c, <1>f, <1>g

\* The tasks a user has added grow by the task it schedules.
LEMMA AddedStep ==
    ASSUME TypeOK, [Next]_vars, NEW u \in Users
    PROVE  /\ ScheduleTask(u) => Added(u)' = Added(u) \cup {CurrentTask(u)}
           /\ ~ScheduleTask(u) => Added(u)' = Added(u)
<1>a. /\ next \in [Users -> Nat] /\ \A v \in Users : next[v] \in DOMAIN Plan[v]
      /\ upc \in [Users -> {"schedule", "wait", "check", "remove", "wait_all", "done"}]
      /\ DOMAIN Plan[u] = 1..Len(Plan[u]) /\ Len(Plan[u]) \in Nat
    BY PlanProperties DEF TypeOK
<1>b. \A i : /\ i \in AddedIndices(u) <=>
                    i \in 1..Len(Plan[u]) /\ (i < next[u] \/ (i = next[u] /\ upc[u] # "schedule"))
             /\ i \in AddedIndices(u)' <=>
                    i \in 1..Len(Plan[u]) /\ (i < next'[u] \/ (i = next'[u] /\ upc'[u] # "schedule"))
    BY <1>a DEF AddedIndices
<1>1. ASSUME ScheduleTask(u) PROVE AddedIndices(u)' = AddedIndices(u) \cup {next[u]}
    <2>1. /\ upc[u] = "schedule"
          /\ \/ upc'[u] # "schedule" /\ next'[u] = next[u]
             \/ upc'[u] = "schedule" /\ next'[u] = next[u] + 1
        BY <1>1, <1>a DEF ScheduleTask
    <2> QED BY <1>a, <1>b, <2>1
<1>2. ASSUME UNCHANGED <<next[u], upc[u]>> PROVE AddedIndices(u)' = AddedIndices(u)
    BY <1>2 DEF AddedIndices
<1>3. ASSUME CheckTask(u) PROVE AddedIndices(u)' = AddedIndices(u)
    <2>1. /\ upc[u] = "check"
          /\ \/ upc'[u] # "schedule" /\ next'[u] = next[u]
             \/ upc'[u] = "schedule" /\ next'[u] = next[u] + 1
        BY <1>3, <1>a DEF CheckTask, End
    <2>2. ASSUME NEW i PROVE i \in AddedIndices(u)' <=> i \in AddedIndices(u)
        <3>1. next[u] \in Nat
            BY <1>a
        <3>2. CASE upc'[u] # "schedule" /\ next'[u] = next[u]
            BY <1>b, <2>1, <3>2
        <3>3. CASE upc'[u] = "schedule" /\ next'[u] = next[u] + 1
            BY <1>b, <2>1, <3>1, <3>3
        <3> QED BY <2>1, <3>2, <3>3
    <2> QED BY <2>2
<1>4. ASSUME WaitTask(u) \/ RemoveErroringTask(u) \/ WaitAllReturns(u) \/ WaitAllThrows(u)
      PROVE  AddedIndices(u)' = AddedIndices(u)
    BY <1>4, <1>a DEF AddedIndices, WaitTask, RemoveErroringTask, WaitAllReturns, WaitAllThrows, End
<1>5. ASSUME ~UserStep(u) PROVE UNCHANGED <<next[u], upc[u]>>
    <2>1. ASSUME NEW v \in Users, UserStep(v) PROVE UNCHANGED <<next[u], upc[u]>>
        <3>1. v # u
            BY <1>5, <2>1
        <3> HIDE DEF UserStep
        <3> QED BY <2>1, <3>1, <1>a DEF UserStep, ScheduleTask, WaitTask, CheckTask,
               RemoveErroringTask, WaitAllReturns, WaitAllThrows, End
    <2> QED BY <2>1 DEF Next, WorkerStep, GetTaskAndRegister, GetNoTask, RunSucceeds, RunThrows,
           SetException, DeRegister, FinalizeThrows, Exit, Stop, vars, userVars
<1>6. ScheduleTask(u) \/ AddedIndices(u)' = AddedIndices(u)
    BY <1>2, <1>3, <1>4, <1>5 DEF UserStep
<1> QED BY <1>1, <1>6 DEF CurrentTask, Added
\* Tasks of different users, or at different places of a plan, are different.
LEMMA PlansAreDisjoint ==
    ASSUME TypeOK, NEW u \in Users, NEW v \in Users
    PROVE  /\ CurrentTask(v) \in Added(u) => u = v /\ upc[v] # "schedule"
           /\ CurrentTask(u) = CurrentTask(v) => u = v
           /\ Added(u) \subseteq Tasks
<1>a. \A x \in Users : next[x] \in DOMAIN Plan[x] /\ next[x] \in Nat
    BY DEF TypeOK
<1>b. \A i \in DOMAIN Plan[u] : Plan[u][i] \in Tasks
    BY PlanProperties, ElementOfSeq
<1> QED BY <1>a, <1>b, TaskSchedulerAssumption DEF CurrentTask, Added, AddedIndices

\* Every step keeps that the tasks in the queue and with the workers were added by a user.
LEMMA QueueInvStep == TypeOK /\ WorkersInv /\ QueueInv /\ [Next]_vars => QueueInv'
<1> SUFFICES ASSUME TypeOK, WorkersInv, QueueInv, [Next]_vars PROVE QueueInv'
    OBVIOUS
<1>1. \A u \in Users : Added(u) \subseteq Added(u)'
    BY AddedStep
<1>2. \A u \in Users : ScheduleTask(u) => CurrentTask(u) \in Added(u)'
    BY AddedStep
<1>3. ASSUME NEW i \in DOMAIN taskQueue' PROVE \E u \in Users : taskQueue'[i] \in Added(u)'
    <2>1. CASE \E j \in DOMAIN taskQueue : taskQueue'[i] = taskQueue[j]
        BY <1>1, <2>1 DEF QueueInv
    <2>2. CASE \E u \in Users : ScheduleTask(u) /\ taskQueue'[i] = CurrentTask(u)
        BY <1>2, <2>2
    <2> QED BY <2>1, <2>2, QueueStep
<1>4. ASSUME NEW w \in Workers, task'[w] # NoTask PROVE \E u \in Users : task'[w] \in Added(u)'
    <2>1. task'[w] = task[w] \/ \E i \in DOMAIN taskQueue : task'[w] = taskQueue[i]
        <3>1. ASSUME NEW v \in Workers, GetTaskAndRegister(v)
              PROVE  task'[w] = task[w] \/ \E i \in DOMAIN taskQueue : task'[w] = taskQueue[i]
            BY <3>1 DEF GetTaskAndRegister, TypeOK
        <3>2. ASSUME NEW v \in Workers, DeRegister(v) PROVE task'[w] = task[w]
            BY <1>4, <3>2 DEF DeRegister, TypeOK
        <3> QED BY <3>1, <3>2 DEF Next, WorkerStep, UserStep, GetNoTask, RunSucceeds, RunThrows,
               SetException, FinalizeThrows, Exit, ScheduleTask, WaitTask, CheckTask,
               RemoveErroringTask, WaitAllReturns, WaitAllThrows, Stop, vars, workerVars
    <2>2. CASE task'[w] = task[w]
        BY <1>1, <1>4, <2>2 DEF QueueInv
    <2>3. CASE \E i \in DOMAIN taskQueue : task'[w] = taskQueue[i]
        BY <1>1, <2>3 DEF QueueInv
    <2> QED BY <2>1, <2>2, <2>3
<1> QED BY <1>3, <1>4 DEF QueueInv
\* A step that is not the user's own leaves it where it is.
LEMMA OtherSteps ==
    ASSUME TypeOK, [Next]_vars, NEW u \in Users, ~UserStep(u)
    PROVE  UNCHANGED <<next[u], upc[u], result[u]>>
<1>a. next \in [Users -> Nat] /\ DOMAIN upc = Users /\ DOMAIN result = Users
    BY DEF TypeOK
<1>1. ASSUME NEW v \in Users, UserStep(v) PROVE UNCHANGED <<next[u], upc[u], result[u]>>
    <2>1. v # u
        BY <1>1
    <2> QED BY <1>1, <2>1, <1>a DEF UserStep, ScheduleTask, WaitTask, CheckTask,
           RemoveErroringTask, WaitAllReturns, WaitAllThrows, End
<1> QED BY <1>1 DEF Next, WorkerStep, GetTaskAndRegister, GetNoTask, RunSucceeds, RunThrows,
           SetException, DeRegister, FinalizeThrows, Exit, Stop, vars, userVars

\* Every step keeps where a query is in its plan and what it has seen of its current task.
LEMMA QueriesStep ==
    ASSUME TypeOK, WorkersInv, CountsInv, FinalizationInv, QueriesInv, [Next]_vars
    PROVE  QueriesInv'
<1> SUFFICES ASSUME NEW u \in Queries
             PROVE  /\ upc'[u] # "wait_all"
                    /\ \A i \in 1..(next'[u] - 1) : Passed(Plan[u][i])'
                    /\ upc'[u] \in {"check", "remove", "done"} =>
                           CurrentTask(u)' \in finalizeThrew' \/ IsCompleted(CurrentTask(u))'
                    /\ upc'[u] = "remove" => exceptionsPtr'[CurrentTask(u)']
                    /\ upc'[u] = "done" <=> result'[u] # "none"
                    /\ result'[u] = "returned" => IsLastTask(u)' /\ Passed(CurrentTask(u))'
                    /\ result'[u] = "threw" =>
                           /\ exceptionsPtr'[CurrentTask(u)']
                           /\ \A i \in DOMAIN taskQueue' : taskQueue'[i] # CurrentTask(u)'
    BY DEF QueriesInv
<1> DEFINE Now ==
        /\ upc[u] # "wait_all"
        /\ \A i \in 1..(next[u] - 1) : Passed(Plan[u][i])
        /\ upc[u] \in {"check", "remove", "done"} =>
               CurrentTask(u) \in finalizeThrew \/ IsCompleted(CurrentTask(u))
        /\ upc[u] = "remove" => exceptionsPtr[CurrentTask(u)]
        /\ upc[u] = "done" <=> result[u] # "none"
        /\ result[u] = "returned" => IsLastTask(u) /\ Passed(CurrentTask(u))
        /\ result[u] = "threw" =>
               /\ exceptionsPtr[CurrentTask(u)]
               /\ \A i \in DOMAIN taskQueue : taskQueue[i] # CurrentTask(u)
<1>a. Now /\ u \in Users /\ u \notin Copies
    BY TaskSchedulerAssumption DEF QueriesInv, Users
<1>b. /\ next \in [Users -> Nat] /\ upc \in [Users -> {"schedule", "wait", "check", "remove", "wait_all", "done"}]
      /\ result \in [Users -> {"none", "returned", "threw"}] /\ next[u] \in 1..Len(Plan[u])
    BY <1>a, PlanProperties DEF TypeOK
<1>c. /\ CurrentTask(u) \in Tasks
      /\ \A i \in 1..Len(Plan[u]) : Plan[u][i] \in Tasks
    BY <1>a, <1>b, PlanProperties, ElementOfSeq
<1>1. CASE UserStep(u)
    <2>1. CASE ScheduleTask(u)
        <3>1. UNCHANGED <<next, result, taskVars>> /\ upc[u] = "schedule" /\ upc'[u] = "wait"
            BY <1>a, <1>b, <2>1 DEF ScheduleTask
        <3>2. \A t : (Passed(t)' <=> Passed(t))
            BY <3>1 DEF Passed, Succeeded, taskVars
        <3> QED BY <1>a, <1>b, <3>1, <3>2
    <2>2. CASE WaitTask(u)
        <3>1. /\ UNCHANGED <<next, result, taskVars>> /\ upc[u] = "wait" /\ upc'[u] = "check"
              /\ IsCompleted(CurrentTask(u))
            BY <1>a, <1>b, <2>2 DEF WaitTask
        <3>2. /\ \A t : (Passed(t)' <=> Passed(t)) /\ (IsCompleted(t)' <=> IsCompleted(t))
              /\ CurrentTask(u)' = CurrentTask(u)
            BY <3>1 DEF Passed, Succeeded, IsCompleted, CurrentTask, taskVars
        <3>3. IsCompleted(CurrentTask(u))'
            BY <3>1 DEF IsCompleted, CurrentTask, taskVars
        <3> QED BY <1>a, <1>b, <3>1, <3>2, <3>3
    <2>3. CASE CheckTask(u)
        <3>1. /\ UNCHANGED <<taskQueue, taskVars>> /\ upc[u] = "check" /\ result[u] = "none"
              /\ CurrentTask(u) \in finalizeThrew \/ IsCompleted(CurrentTask(u))
            BY <1>a, <1>b, <2>3 DEF CheckTask
        <3>2. \A t : (Passed(t)' <=> Passed(t))
            BY <3>1 DEF Passed, Succeeded, IsCompleted, taskVars
        <3>3. ~exceptionsPtr[CurrentTask(u)] => Passed(CurrentTask(u))
            BY <1>c, <3>1 DEF Passed, Succeeded, FinalizationInv, IsCompletedSuccessfully
        <3>4. CASE exceptionsPtr[CurrentTask(u)]
            <4>1. UNCHANGED <<next, result>> /\ upc'[u] = "remove"
                BY <1>a, <1>b, <2>3, <3>4 DEF CheckTask
            <4>2. CurrentTask(u)' = CurrentTask(u) /\ (IsCompleted(CurrentTask(u))' <=> IsCompleted(CurrentTask(u)))
                BY <3>1, <4>1 DEF CurrentTask, IsCompleted, taskVars
            <4> QED BY <1>a, <3>1, <3>2, <3>4, <4>1, <4>2 DEF taskVars
        <3>5. CASE ~exceptionsPtr[CurrentTask(u)] /\ ~IsLastTask(u)
            <4>1. UNCHANGED result /\ upc'[u] = "schedule" /\ next'[u] = next[u] + 1
                BY <1>a, <1>b, <2>3, <3>5 DEF CheckTask
            <4>2. \A i \in 1..(next'[u] - 1) : Passed(Plan[u][i])
                BY <1>a, <1>b, <3>3, <3>5, <4>1 DEF CurrentTask
            <4>3. \A i \in 1..(next'[u] - 1) : Passed(Plan[u][i])'
                BY <3>2, <4>2
            <4> QED BY <1>a, <3>1, <4>1, <4>3
        <3>6. CASE ~exceptionsPtr[CurrentTask(u)] /\ IsLastTask(u)
            <4>1. UNCHANGED next /\ upc'[u] = "done" /\ result'[u] = "returned"
                BY <1>a, <1>b, <2>3, <3>6 DEF CheckTask, End
            <4>2. /\ CurrentTask(u)' = CurrentTask(u) /\ (IsLastTask(u)' <=> IsLastTask(u))
                  /\ IsCompleted(CurrentTask(u))' <=> IsCompleted(CurrentTask(u))
                  /\ Passed(CurrentTask(u))' <=> Passed(CurrentTask(u))
                BY <3>1, <4>1 DEF CurrentTask, IsLastTask, IsCompleted, Passed, Succeeded, taskVars
            <4> QED BY <1>a, <3>1, <3>2, <3>3, <3>6, <4>1, <4>2 DEF taskVars
        <3> QED BY <3>4, <3>5, <3>6
    <2>4. CASE RemoveErroringTask(u)
        <3>1. /\ UNCHANGED <<next, taskVars>> /\ upc[u] = "remove" /\ upc'[u] = "done"
              /\ result'[u] = "threw" /\ taskQueue' = Without(taskQueue, {CurrentTask(u)})
            BY <1>a, <1>b, <2>4 DEF RemoveErroringTask, End
        <3>2. /\ \A t : (Passed(t)' <=> Passed(t))
              /\ CurrentTask(u)' = CurrentTask(u)
              /\ IsCompleted(CurrentTask(u))' <=> IsCompleted(CurrentTask(u))
            BY <3>1 DEF Passed, Succeeded, IsCompleted, CurrentTask, taskVars
        <3>3. taskQueue \in Seq(Tasks)
            BY DEF TypeOK
        <3>4. \A i \in DOMAIN Without(taskQueue, {CurrentTask(u)}) :
                  \E j \in DOMAIN taskQueue :
                      /\ Without(taskQueue, {CurrentTask(u)})[i] = taskQueue[j]
                      /\ taskQueue[j] \notin {CurrentTask(u)}
            BY <3>3, WithoutProperties, Zenon
        <3>5. \A i \in DOMAIN taskQueue' : taskQueue'[i] # CurrentTask(u)
            BY <3>1, <3>4
        <3> QED BY <1>a, <3>1, <3>2, <3>5 DEF taskVars
    <2> QED BY <1>1, <1>a, <2>1, <2>2, <2>3, <2>4 DEF UserStep, WaitAllReturns, WaitAllThrows
<1>2. CASE ~UserStep(u)
    <2>1. /\ UNCHANGED <<next[u], upc[u], result[u]>>
          /\ CurrentTask(u)' = CurrentTask(u) /\ (IsLastTask(u)' <=> IsLastTask(u))
        BY <1>2, <1>a, OtherSteps DEF CurrentTask, IsLastTask
    <2>2. ASSUME NEW t \in Tasks
          PROVE  /\ exceptionsPtr[t] => exceptionsPtr'[t]
                 /\ t \in finalizeThrew \/ IsCompleted(t) => t \in finalizeThrew' \/ IsCompleted(t)'
                 /\ Passed(t) => Passed(t)'
        BY <2>2, Stability
    <2>3. /\ exceptionsPtr[CurrentTask(u)] => exceptionsPtr'[CurrentTask(u)']
          /\ CurrentTask(u) \in finalizeThrew \/ IsCompleted(CurrentTask(u)) =>
                 CurrentTask(u)' \in finalizeThrew' \/ IsCompleted(CurrentTask(u))'
          /\ Passed(CurrentTask(u)) => Passed(CurrentTask(u))'
        <3>1. \A t : t = CurrentTask(u) => /\ Passed(t)' <=> Passed(CurrentTask(u))'
                                           /\ IsCompleted(t)' <=> IsCompleted(CurrentTask(u))'
            BY <2>1 DEF Passed, Succeeded, IsCompleted
        <3> QED BY <1>c, <2>1, <2>2, <3>1
    <2>4. \A i \in 1..(next'[u] - 1) : Passed(Plan[u][i])'
        <3> SUFFICES ASSUME NEW i \in 1..(next[u] - 1) PROVE Passed(Plan[u][i])'
            BY <2>1
        <3>1. Plan[u][i] \in Tasks /\ Passed(Plan[u][i])
            BY <1>a, <1>b, <1>c
        <3> QED BY <2>2, <3>1
    <2>5. ASSUME result[u] = "threw", NEW i \in DOMAIN taskQueue'
          PROVE  taskQueue'[i] # CurrentTask(u)
        <3>1. CASE \E j \in DOMAIN taskQueue : taskQueue'[i] = taskQueue[j]
            BY <1>a, <2>5, <3>1
        <3>2. CASE \E v \in Users : ScheduleTask(v) /\ taskQueue'[i] = CurrentTask(v)
            <4>1. PICK v \in Users : ScheduleTask(v) /\ taskQueue'[i] = CurrentTask(v)
                BY <3>2
            <4>2. v # u
                BY <1>2, <4>1 DEF UserStep
            <4> QED BY <1>a, <4>1, <4>2, PlansAreDisjoint
        <3> QED BY <3>1, <3>2, QueueStep
    <2> QED BY <1>a, <2>1, <2>3, <2>4, <2>5
<1> QED BY <1>1, <1>2
\* A task of a COPY leaves the queue when it is completed successfully; no other user removes
\* it, since queries remove their own tasks and there is no other COPY.
LEMMA CopiesStep ==
    ASSUME TypeOK, WorkersInv, CountsInv, FinalizationInv, QueriesInv, CopiesInv, [Next]_vars
    PROVE  CopiesInv'
<1> SUFFICES ASSUME NEW u \in Copies
             PROVE  /\ upc'[u] \in {"schedule", "wait_all", "done"}
                    /\ upc'[u] = "done" <=> result'[u] # "none"
                    /\ upc'[u] # "schedule" => IsLastTask(u)'
                    /\ result'[u] # "threw" =>
                           \A t \in Added(u)' :
                               Passed(t)' \/ \E i \in DOMAIN taskQueue' : taskQueue'[i] = t
                    /\ result'[u] = "returned" => \A t \in Added(u)' : Passed(t)'
    BY DEF CopiesInv
<1>a. /\ u \in Users /\ u \notin Queries
      /\ upc[u] \in {"schedule", "wait_all", "done"}
      /\ upc[u] = "done" <=> result[u] # "none"
      /\ upc[u] # "schedule" => IsLastTask(u)
      /\ result[u] # "threw" =>
             \A t \in Added(u) : Passed(t) \/ \E i \in DOMAIN taskQueue : taskQueue[i] = t
      /\ result[u] = "returned" => \A t \in Added(u) : Passed(t)
    BY TaskSchedulerAssumption DEF CopiesInv, Users
<1>b. /\ next \in [Users -> Nat] /\ upc \in [Users -> {"schedule", "wait", "check", "remove", "wait_all", "done"}]
      /\ result \in [Users -> {"none", "returned", "threw"}]
    BY DEF TypeOK
<1>1. /\ upc'[u] \in {"schedule", "wait_all", "done"}
      /\ upc'[u] = "done" <=> result'[u] # "none"
      /\ upc'[u] # "schedule" => IsLastTask(u)'
    <2>1. CASE ScheduleTask(u)
        BY <1>a, <1>b, <2>1 DEF ScheduleTask, IsLastTask
    <2>2. CASE WaitAllReturns(u) \/ WaitAllThrows(u)
        BY <1>a, <1>b, <2>2 DEF WaitAllReturns, WaitAllThrows, End, IsLastTask
    <2>3. CASE ~UserStep(u)
        BY <1>a, <2>3, OtherSteps DEF IsLastTask
    <2> QED BY <1>a, <2>1, <2>2, <2>3 DEF UserStep, WaitTask, CheckTask, RemoveErroringTask
<1>2. ASSUME result'[u] # "threw", NEW t \in Added(u)'
      PROVE  Passed(t)' \/ \E i \in DOMAIN taskQueue' : taskQueue'[i] = t
    <2>1. result[u] # "threw"
        <3>1. UserStep(u) => upc[u] # "done"
            BY DEF UserStep, ScheduleTask, WaitTask, CheckTask, RemoveErroringTask,
                   WaitAllReturns, WaitAllThrows
        <3> QED BY <1>2, <1>a, <3>1, OtherSteps
    <2>2. CASE t \notin Added(u)
        <3>1. ScheduleTask(u) /\ t = CurrentTask(u)
            BY <1>2, <1>a, <2>2, AddedStep
        <3>2. taskQueue' = Append(taskQueue, t) /\ taskQueue \in Seq(Tasks) /\ t \in Tasks
            BY <1>a, <3>1, PlanProperties DEF ScheduleTask, TypeOK
        <3>3. Len(taskQueue) + 1 \in DOMAIN taskQueue' /\ taskQueue'[Len(taskQueue) + 1] = t
            BY <3>2
        <3> QED BY <3>3
    <2>3. CASE t \in Added(u) /\ Passed(t)
        <3>1. t \in Tasks
            BY <1>a, <2>3, PlansAreDisjoint
        <3> QED BY <2>3, <3>1, Stability
    <2>4. CASE t \in Added(u) /\ ~Passed(t)
        <3>1. t \in Tasks
            BY <1>a, <2>4, PlansAreDisjoint
        <3>2. PICK j \in DOMAIN taskQueue : taskQueue[j] = t
            BY <1>a, <2>1, <2>4
        <3>3. ~IsCompletedSuccessfully(t)
            BY <2>4, <3>1 DEF FinalizationInv, Passed, Succeeded, IsCompletedSuccessfully
        <3>4. ASSUME NEW v \in Users, RemoveErroringTask(v), t = CurrentTask(v) PROVE FALSE
            <4>1. v = u
                BY <1>a, <2>4, <3>4, PlansAreDisjoint
            <4> QED BY <1>a, <3>4, <4>1 DEF RemoveErroringTask
        <3>5. ASSUME NEW v \in Users, WaitAllThrows(v) PROVE FALSE
            <4>1. v \in Copies
                BY <3>5 DEF WaitAllThrows, QueriesInv, Users
            <4>2. v = u
                BY <4>1, OneCopyAtATime
            <4> QED BY <1>2, <1>a, <1>b, <3>5, <4>2 DEF WaitAllThrows, End
        <3> QED BY <3>2, <3>3, <3>4, <3>5, QueueStep
    <2> QED BY <2>2, <2>3, <2>4
<1>3. ASSUME result'[u] = "returned", NEW t \in Added(u)' PROVE Passed(t)'
    <2>1. t \in Added(u)
        <3>1. ~ScheduleTask(u)
            BY <1>3, <1>a DEF ScheduleTask
        <3> QED BY <1>3, <1>a, <3>1, AddedStep
    <2>2. Passed(t)
        <3>1. CASE result[u] = "returned"
            BY <1>a, <2>1, <3>1
        <3>2. CASE result[u] # "returned"
            <4>1. WaitAllReturns(u)
                <5>1. UserStep(u)
                    BY <1>3, <1>a, <3>2, OtherSteps
                <5>2. ~ScheduleTask(u) /\ ~WaitAllThrows(u)
                    BY <1>3, <1>a, <1>b, <3>2 DEF ScheduleTask, WaitAllThrows, End
                <5> QED BY <1>a, <5>1, <5>2 DEF UserStep, WaitTask, CheckTask, RemoveErroringTask
            <4>2. upc[u] = "wait_all" /\ taskQueue = <<>>
                BY <4>1 DEF WaitAllReturns
            <4> QED BY <1>a, <2>1, <4>2
        <3> QED BY <3>1, <3>2
    <2>3. t \in Tasks
        BY <1>a, <2>1, PlansAreDisjoint
    <2> QED BY <2>2, <2>3, Stability
<1> QED BY <1>1, <1>2, <1>3

-----------------------------------------------------------------------------
(* The inductive invariant                                                  *)

\* The scheduler starts with an empty queue and idle workers.
LEMMA InitIInv == Init => IInv
<1> SUFFICES ASSUME Init PROVE IInv
    OBVIOUS
<1> USE DEF Init
<1>1. TypeOK
    <2>1. \A u \in Users : 1 \in DOMAIN Plan[u]
        BY PlanProperties
    <2>2. taskQueue \in Seq(Tasks)
        BY EmptySeq
    <2> QED BY <2>1, <2>2 DEF TypeOK
<1>2. \A t \in Tasks : Active(t) = {}
    BY TaskSchedulerAssumption DEF Active
<1>3. WorkersInv /\ CountsInv /\ FinalizationInv
    <2>1. \A t \in Tasks : Cardinality(Active(t)) = 0
        BY <1>2, FS_EmptySet
    <2> QED BY <2>1 DEF WorkersInv, CountsInv, FinalizationInv, IsCompletedSuccessfully, IsCompleted
<1>4. QueueInv
    BY DEF QueueInv
<1>5. QueriesInv
    BY DEF QueriesInv, Users
<1>6. CopiesInv
    BY PlanProperties DEF CopiesInv, Users, Added, AddedIndices
<1> QED BY <1>1, <1>3, <1>4, <1>5, <1>6 DEF IInv

\* The invariant is inductive.
LEMMA NextIInv == IInv /\ [Next]_vars => IInv'
BY TypeStep, WorkersStep, CountsStep, QueueInvStep, QueriesStep, CopiesStep DEF IInv

\* The invariant holds in every behaviour.
LEMMA InvariantIInv == Spec => []IInv
BY InitIInv, NextIInv, PTL DEF Spec

-----------------------------------------------------------------------------
(* Theorems                                                                 *)

\* The queue, counts, exceptions, workers and users of the scheduler have their types, for
\* any finite set of workers and any plans.
THEOREM TypeCorrect == Spec => []TypeOK
<1>1. IInv => TypeOK
    BY DEF IInv
<1> QED BY <1>1, InvariantIInv, PTL

\* However workers register, finish and throw, deRegisterThreadAndFinalizeTaskIfNecessary
\* calls finalizeIfNecessary at most once per task, and no worker runs the task then or later.
THEOREM FinalizeOnceAndLast == Spec => []FinalizeIsLast
<1>1. IInv => FinalizeIsLast
    <2> SUFFICES ASSUME IInv, NEW t \in Tasks
                 PROVE  /\ finalized[t] <= 1
                        /\ finalized[t] = 1 => \A w \in Workers : task[w] = t => pc[w] # "run"
        BY DEF FinalizeIsLast
    <2>1. finalized[t] \in {0, 1}
        BY DEF IInv, FinalizationInv
    <2>2. ASSUME finalized[t] = 1, NEW w \in Workers, task[w] = t PROVE pc[w] # "run"
        <3>1. CASE t \in finalizeThrew
            BY <2>2, <3>1 DEF IInv, CountsInv, Active
        <3>2. CASE t \notin finalizeThrew
            <4>1. numThreadsFinished[t] = numThreadsRegistered[t] /\ numThreadsFinished[t] \in Nat
                BY <2>2, <3>2 DEF IInv, TypeOK, FinalizationInv, IsCompletedSuccessfully, IsCompleted
            <4>2. numThreadsRegistered[t] = numThreadsFinished[t] + Cardinality(Holding(task, t))
                BY <3>2 DEF IInv, CountsInv, Active, Holding
            <4>3. Cardinality(Holding(task, t)) \in Nat /\ Cardinality(Holding(task, t)) > 0
                BY <2>2, Holders DEF IInv, TypeOK
            <4> QED BY <4>1, <4>2, <4>3
        <3> QED BY <3>1, <3>2
    <2> QED BY <2>1, <2>2
<1> QED BY <1>1, InvariantIInv, PTL

\* scheduleTaskAndWaitOrError tells a query the truth: it returns only after every task of
\* the plan was finalized without an exception, and throws only for a task of the query.
THEOREM QueriesOutcome == Spec => []QueriesGetTheirOutcome
<1>1. IInv => QueriesGetTheirOutcome
    <2> SUFFICES ASSUME IInv, NEW u \in Queries
                 PROVE  /\ result[u] = "returned" =>
                               next[u] = Len(Plan[u]) /\ \A t \in Scheduled(u) : Succeeded(t)
                        /\ result[u] = "threw" => exceptionsPtr[CurrentTask(u)]
        BY DEF QueriesGetTheirOutcome
    <2>1. next[u] \in Nat /\ u \in Users
        BY DEF IInv, TypeOK, Users
    <2>2. ASSUME result[u] = "returned", NEW i \in 1..next[u] PROVE Passed(Plan[u][i])
        BY <2>1, <2>2 DEF IInv, QueriesInv, CurrentTask
    <2> QED BY <2>2 DEF IInv, QueriesInv, IsLastTask, Scheduled, Passed
<1> QED BY <1>1, InvariantIInv, PTL

\* waitAllTasksToCompleteOrError returns normally to a COPY only after all of its tasks were
\* finalized without an exception.
THEOREM CopiesOutcome == Spec => []CopiesAreComplete
<1>1. IInv => CopiesAreComplete
    <2> SUFFICES ASSUME IInv, NEW u \in Copies, result[u] = "returned", NEW t \in Scheduled(u)
                 PROVE  Succeeded(t)
        BY DEF CopiesAreComplete
    <2>1. PICK i \in 1..next[u] : t = Plan[u][i]
        BY DEF Scheduled
    <2>2. u \in Users /\ upc[u] = "done" /\ next[u] \in 1..Len(Plan[u]) /\ DOMAIN Plan[u] = 1..Len(Plan[u])
          /\ Len(Plan[u]) \in Nat
        BY PlanProperties DEF IInv, CopiesInv, TypeOK, Users
    <2>3. t \in Added(u)
        BY <2>1, <2>2 DEF Added, AddedIndices
    <2> QED BY <2>3 DEF IInv, CopiesInv, Passed, Scheduled
<1> QED BY <1>1, InvariantIInv, PTL

\* When scheduleTaskAndWaitOrError has returned or thrown, no worker works on a task of the
\* query, nor can one register to a task of it later.
THEOREM NoWorkerIsLeftBehind == Spec => []QueriesLeaveNoWorker
<1>1. IInv => QueriesLeaveNoWorker
    <2> SUFFICES ASSUME IInv, NEW u \in Queries, result[u] # "none"
                 PROVE  /\ \A w \in Workers : task[w] \notin Scheduled(u)
                        /\ \A i \in DOMAIN taskQueue : taskQueue[i] \in Scheduled(u) =>
                               ~CanRegister(taskQueue[i]) /\ ~exceptionsPtr[taskQueue[i]]
        BY DEF QueriesLeaveNoWorker
    <2>1. /\ u \in Users /\ next[u] \in 1..Len(Plan[u]) /\ next[u] \in Nat
          /\ upc[u] = "done" /\ result[u] \in {"returned", "threw"}
        BY PlanProperties DEF IInv, TypeOK, Users, QueriesInv
    <2>2. ASSUME NEW t \in Scheduled(u)
          PROVE  /\ t \in Tasks /\ t \notin finalizeThrew /\ IsCompleted(t)
                 /\ t # CurrentTask(u) \/ result[u] = "returned" => ~exceptionsPtr[t]
        <3>1. PICK i \in 1..next[u] : t = Plan[u][i]
            BY <2>2 DEF Scheduled
        <3>2. t \in Tasks /\ t \notin finalizeThrew
            BY <2>1, <2>2, <3>1, PlanProperties, ElementOfSeq DEF Scheduled
        <3>3. Passed(t) => IsCompleted(t) /\ ~exceptionsPtr[t]
            BY <3>2 DEF IInv, FinalizationInv, Passed, Succeeded, IsCompletedSuccessfully
        <3>4. CASE i = next[u]
            BY <2>1, <3>1, <3>2, <3>3, <3>4 DEF IInv, QueriesInv, CurrentTask
        <3>5. CASE i # next[u]
            <4>1. i \in 1..(next[u] - 1)
                BY <2>1, <3>5
            <4> QED BY <3>1, <3>2, <3>3, <4>1 DEF IInv, QueriesInv
        <3> QED BY <3>4, <3>5
    <2>3. ASSUME NEW w \in Workers, task[w] \in Scheduled(u) PROVE FALSE
        <3> DEFINE t == task[w]
        <3>1. t \in Tasks /\ t \notin finalizeThrew /\ IsCompleted(t)
            BY <2>2, <2>3
        <3>2. numThreadsRegistered[t] = numThreadsFinished[t] + Cardinality(Holding(task, t))
            BY <3>1 DEF IInv, CountsInv, Active, Holding
        <3>3. Cardinality(Holding(task, t)) \in Nat /\ Cardinality(Holding(task, t)) > 0
            BY Holders DEF IInv, TypeOK
        <3>4. numThreadsFinished[t] \in Nat
            BY <3>1 DEF IInv, TypeOK
        <3> QED BY <3>1, <3>2, <3>3, <3>4 DEF IsCompleted
    <2>4. ASSUME NEW i \in DOMAIN taskQueue, taskQueue[i] \in Scheduled(u)
          PROVE  ~CanRegister(taskQueue[i]) /\ ~exceptionsPtr[taskQueue[i]]
        <3>1. ~exceptionsPtr[taskQueue[i]]
            BY <2>1, <2>2, <2>4 DEF IInv, QueriesInv
        <3>2. ~CanRegister(taskQueue[i])
            BY <2>2, <2>4 DEF CanRegister, IsCompleted, IInv, TypeOK
        <3> QED BY <3>1, <3>2
    <2> QED BY <2>3, <2>4
<1> QED BY <1>1, InvariantIInv, PTL

\* A task of a query never runs before, or beside, a task it depends on.
THEOREM DependenciesComeFirst == Spec => []DependenciesFirst
<1>1. IInv => DependenciesFirst
    <2> SUFFICES ASSUME IInv, NEW w \in Workers, NEW u \in Queries,
                        NEW i \in DOMAIN Plan[u], NEW j \in DOMAIN Plan[u],
                        i < j, task[w] = Plan[u][j]
                 PROVE  Passed(Plan[u][i])
        BY DEF DependenciesFirst, Passed
    <2>1. u \in Users /\ DOMAIN Plan[u] = 1..Len(Plan[u]) /\ Len(Plan[u]) \in Nat /\ next[u] \in Nat
        BY PlanProperties DEF IInv, TypeOK, Users
    <2>2. task[w] # NoTask
        BY <2>1, PlanProperties, ElementOfSeq, TaskSchedulerAssumption
    <2>3. PICK v \in Users : task[w] \in Added(v)
        BY <2>2 DEF IInv, QueueInv
    <2>4. v = u /\ j \in AddedIndices(u)
        BY <2>1, <2>3, TaskSchedulerAssumption DEF Added, AddedIndices
    <2>5. i \in 1..(next[u] - 1)
        BY <2>1, <2>4 DEF AddedIndices
    <2> QED BY <2>5 DEF IInv, QueriesInv
<1> QED BY <1>1, InvariantIInv, PTL
=============================================================================
