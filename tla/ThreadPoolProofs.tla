-------------------------- MODULE ThreadPoolProofs --------------------------
(***************************************************************************)
(* For every number of workers, clients and tasks: mutual exclusion on     *)
(* m_queueLock, the balance of semaphore and queue, its consequence that a *)
(* woken worker finds a task; every task is run once and deleted once, and *)
(* the pool implements TaskQueue.                                          *)
(*                                                                         *)
(* PermitsMatchQueue is inductive only together with QueueMutex (a pop and *)
(* a push cannot overlap) and with LocalsOK (what postTask pushes and what *)
(* mainThread runs is a task).  RunsOnce needs to know where each task is: *)
(* OnceInv says that a task which was posted and not deleted is in exactly *)
(* one place, a posting thread, the queue or a worker.                     *)
(***************************************************************************)
EXTENDS ThreadPool, FiniteSetTheorems, TLAPS

\* The local variables hold a task wherever the code dereferences or pushes them.
LocalsOK ==
    /\ \A t \in Threads : pc[t] \in PostPC => arg[t] \in Tasks
    /\ \A w \in Workers : pc[w] \in {"run", "delete"} \cup PostPC => task[w] \in Tasks

IInv == TypeOK /\ QueueMutex /\ LocalsOK /\ PermitsMatchQueue

LEMMA ThreadsFinite == IsFiniteSet(Threads)
BY ThreadsAssumption, FS_Union DEF Threads

\* The two sets the balance counts are finite.
LEMMA CountsFinite ==
    /\ IsFiniteSet(Awake) /\ Cardinality(Awake) \in Nat
    /\ IsFiniteSet(Unsignalled) /\ Cardinality(Unsignalled) \in Nat
<1>1. Awake \subseteq Workers /\ Unsignalled \subseteq Threads
  BY DEF Awake, Unsignalled
<1> QED
  BY <1>1, ThreadsAssumption, ThreadsFinite, FS_Subset, FS_CardinalityType

\* A worker at "take" finds a task, since it is itself a unit the queue accounts for.
LEMMA BalanceGivesTask == TypeOK /\ PermitsMatchQueue => WokenFindsTask
<1> SUFFICES ASSUME TypeOK, PermitsMatchQueue, NEW w \in Workers, pc[w] = "take"
             PROVE  m_taskQueue # <<>>
  BY DEF WokenFindsTask
<1>1. w \in Awake
  BY DEF Awake
<1>2. Cardinality(Awake) # 0
  BY <1>1, CountsFinite, FS_EmptySet
<1>3. Len(m_taskQueue) # 0
  BY <1>2, CountsFinite DEF PermitsMatchQueue, TypeOK
<1> QED
  BY <1>3

-----------------------------------------------------------------------------
LEMMA InitIInv == Init => IInv
<1> SUFFICES ASSUME Init PROVE IInv
  OBVIOUS
<1>1. TypeOK
  BY ThreadsAssumption DEF Init, TypeOK, Threads, WorkerPC, PostPC
<1>2. QueueMutex
  BY ThreadsAssumption DEF Init, QueueMutex, InSection, Threads
<1>3. LocalsOK
  BY DEF Init, LocalsOK, PostPC, Threads
<1>4. Awake = {} /\ Unsignalled = {}
  BY DEF Init, Awake, Unsignalled, Threads
<1>5. PermitsMatchQueue
  BY <1>4, FS_EmptySet DEF Init, PermitsMatchQueue
<1> QED
  BY <1>1, <1>2, <1>3, <1>5 DEF IInv

-----------------------------------------------------------------------------
(* Types, mutual exclusion and local variables are preserved by every action. *)

LEMMA NextTypeOK == IInv /\ [Next]_vars => TypeOK'
<1> SUFFICES ASSUME IInv, [Next]_vars PROVE TypeOK'
  OBVIOUS
<1> USE ThreadsAssumption, TasksAssumption
    DEF IInv, TypeOK, LocalsOK, Goto, poolVars, taskVars, Threads, WorkerPC, PostPC
<1>1. ASSUME NEW w \in Workers, createThread(w) PROVE TypeOK'
  BY <1>1 DEF createThread
<1>2. ASSUME NEW w \in Workers, waitTask(w) PROVE TypeOK'
  BY <1>2 DEF waitTask
<1>3. ASSUME NEW w \in Workers, waitTaskError(w) PROVE TypeOK'
  BY <1>3 DEF waitTaskError
<1>4. ASSUME NEW w \in Workers, AfterError(w) PROVE TypeOK'
  BY <1>4 DEF AfterError
<1>5. ASSUME NEW w \in Workers, LockQueue(w) PROVE TypeOK'
  BY <1>5 DEF LockQueue
<1>6. ASSUME NEW w \in Workers, TakeTask(w) PROVE TypeOK'
  <2>1. m_taskQueue # <<>>
    BY <1>6, BalanceGivesTask DEF TakeTask, WokenFindsTask
  <2>2. Front(m_taskQueue) \in Tasks /\ Pop(m_taskQueue) \in Seq(Tasks)
    BY <2>1 DEF Front, Pop
  <2> QED
    BY <1>6, <2>2 DEF TakeTask
<1>7. ASSUME NEW w \in Workers, UnlockQueue(w) PROVE TypeOK'
  BY <1>7 DEF UnlockQueue
<1>8. ASSUME NEW w \in Workers, RunTask(w) PROVE TypeOK'
  BY <1>8 DEF RunTask
<1>9. ASSUME NEW w \in Workers, DeleteTask(w) PROVE TypeOK'
  BY <1>9 DEF DeleteTask
<1>10. ASSUME NEW t \in Threads, PostLock(t) PROVE TypeOK'
  BY <1>10 DEF PostLock, Caller
<1>11. ASSUME NEW t \in Threads, PostPush(t) PROVE TypeOK'
  BY <1>11 DEF PostPush, Caller
<1>12. ASSUME NEW t \in Threads, PostUnlock(t) PROVE TypeOK'
  BY <1>12 DEF PostUnlock, Caller
<1>13. ASSUME NEW t \in Threads, PostSem(t) PROVE TypeOK'
  BY <1>13 DEF PostSem, Caller
<1>14. ASSUME NEW t \in Threads, NEW k \in Tasks, postTask(t, k) PROVE TypeOK'
  BY <1>14 DEF postTask, Caller
<1>15. CASE UNCHANGED vars
  BY <1>15 DEF vars
<1> QED
  BY <1>1, <1>2, <1>3, <1>4, <1>5, <1>6, <1>7, <1>8, <1>9, <1>10, <1>11, <1>12, <1>13, <1>14, <1>15 DEF Next, Worker, Post

LEMMA NextQueueMutex == IInv /\ [Next]_vars => QueueMutex'
<1> SUFFICES ASSUME IInv, [Next]_vars PROVE QueueMutex'
  OBVIOUS
<1> USE ThreadsAssumption, TasksAssumption
    DEF IInv, TypeOK, QueueMutex, InSection, Goto, poolVars, taskVars, Threads, PostPC
<1>1. ASSUME NEW w \in Workers, createThread(w) PROVE QueueMutex'
  BY <1>1 DEF createThread
<1>2. ASSUME NEW w \in Workers, waitTask(w) PROVE QueueMutex'
  BY <1>2 DEF waitTask
<1>3. ASSUME NEW w \in Workers, waitTaskError(w) PROVE QueueMutex'
  BY <1>3 DEF waitTaskError
<1>4. ASSUME NEW w \in Workers, AfterError(w) PROVE QueueMutex'
  BY <1>4 DEF AfterError
<1>5. ASSUME NEW w \in Workers, LockQueue(w) PROVE QueueMutex'
  BY <1>5 DEF LockQueue
<1>6. ASSUME NEW w \in Workers, TakeTask(w) PROVE QueueMutex'
  BY <1>6 DEF TakeTask
<1>7. ASSUME NEW w \in Workers, UnlockQueue(w) PROVE QueueMutex'
  BY <1>7 DEF UnlockQueue
<1>8. ASSUME NEW w \in Workers, RunTask(w) PROVE QueueMutex'
  BY <1>8 DEF RunTask
<1>9. ASSUME NEW w \in Workers, DeleteTask(w) PROVE QueueMutex'
  BY <1>9 DEF DeleteTask
<1>10. ASSUME NEW t \in Threads, PostLock(t) PROVE QueueMutex'
  BY <1>10 DEF PostLock, Caller
<1>11. ASSUME NEW t \in Threads, PostPush(t) PROVE QueueMutex'
  BY <1>11 DEF PostPush, Caller
<1>12. ASSUME NEW t \in Threads, PostUnlock(t) PROVE QueueMutex'
  BY <1>12 DEF PostUnlock, Caller
<1>13. ASSUME NEW t \in Threads, PostSem(t) PROVE QueueMutex'
  BY <1>13 DEF PostSem, Caller
<1>14. ASSUME NEW t \in Threads, NEW k \in Tasks, postTask(t, k) PROVE QueueMutex'
  BY <1>14 DEF postTask, Caller
<1>15. CASE UNCHANGED vars
  BY <1>15 DEF vars
<1> QED
  BY <1>1, <1>2, <1>3, <1>4, <1>5, <1>6, <1>7, <1>8, <1>9, <1>10, <1>11, <1>12, <1>13, <1>14, <1>15 DEF Next, Worker, Post

LEMMA NextLocalsOK == IInv /\ [Next]_vars => LocalsOK'
<1> SUFFICES ASSUME IInv, [Next]_vars PROVE LocalsOK'
  OBVIOUS
<1> USE ThreadsAssumption, TasksAssumption
    DEF IInv, TypeOK, QueueMutex, InSection, LocalsOK, Goto, poolVars, taskVars, Threads, PostPC
<1>1. ASSUME NEW w \in Workers, createThread(w) PROVE LocalsOK'
  BY <1>1 DEF createThread
<1>2. ASSUME NEW w \in Workers, waitTask(w) PROVE LocalsOK'
  BY <1>2 DEF waitTask
<1>3. ASSUME NEW w \in Workers, waitTaskError(w) PROVE LocalsOK'
  BY <1>3 DEF waitTaskError
<1>4. ASSUME NEW w \in Workers, AfterError(w) PROVE LocalsOK'
  BY <1>4 DEF AfterError
<1>5. ASSUME NEW w \in Workers, LockQueue(w) PROVE LocalsOK'
  BY <1>5 DEF LockQueue
<1>6. ASSUME NEW w \in Workers, TakeTask(w) PROVE LocalsOK'
  BY <1>6 DEF TakeTask
<1>7. ASSUME NEW w \in Workers, UnlockQueue(w) PROVE LocalsOK'
  BY <1>7 DEF UnlockQueue
<1>8. ASSUME NEW w \in Workers, RunTask(w) PROVE LocalsOK'
  BY <1>8 DEF RunTask
<1>9. ASSUME NEW w \in Workers, DeleteTask(w) PROVE LocalsOK'
  BY <1>9 DEF DeleteTask
<1>10. ASSUME NEW t \in Threads, PostLock(t) PROVE LocalsOK'
  BY <1>10 DEF PostLock, Caller
<1>11. ASSUME NEW t \in Threads, PostPush(t) PROVE LocalsOK'
  BY <1>11 DEF PostPush, Caller
<1>12. ASSUME NEW t \in Threads, PostUnlock(t) PROVE LocalsOK'
  BY <1>12 DEF PostUnlock, Caller
<1>13. ASSUME NEW t \in Threads, PostSem(t) PROVE LocalsOK'
  BY <1>13 DEF PostSem, Caller
<1>14. ASSUME NEW t \in Threads, NEW k \in Tasks, postTask(t, k) PROVE LocalsOK'
  BY <1>14 DEF postTask, Caller
<1>15. CASE UNCHANGED vars
  BY <1>15 DEF vars
<1> QED
  BY <1>1, <1>2, <1>3, <1>4, <1>5, <1>6, <1>7, <1>8, <1>9, <1>10, <1>11, <1>12, <1>13, <1>14, <1>15 DEF Next, Worker, Post

-----------------------------------------------------------------------------
(* The balance: each action moves one unit from one of its terms to another. *)

LEMMA NextPermitsMatchQueue == IInv /\ [Next]_vars => PermitsMatchQueue'
<1> SUFFICES ASSUME IInv, [Next]_vars PROVE PermitsMatchQueue'
  OBVIOUS
<1>0. /\ m_signalSem \in Nat /\ Len(m_taskQueue) \in Nat
      /\ Cardinality(Awake) \in Nat /\ Cardinality(Unsignalled) \in Nat
      /\ m_signalSem + Cardinality(Awake) + Cardinality(Unsignalled) = Len(m_taskQueue)
  BY CountsFinite DEF IInv, TypeOK, PermitsMatchQueue
<1> USE ThreadsAssumption, TasksAssumption, CountsFinite
    DEF IInv, TypeOK, Goto, poolVars, taskVars, Threads
<1>1. ASSUME NEW w \in Workers, waitTask(w) PROVE PermitsMatchQueue'
  <2>1. w \notin Awake /\ Awake' = Awake \cup {w} /\ Unsignalled' = Unsignalled
    BY <1>1 DEF waitTask, Awake, Unsignalled
  <2>2. Cardinality(Awake') = Cardinality(Awake) + 1
    BY <2>1, FS_AddElement
  <2>3. m_signalSem' = m_signalSem - 1 /\ m_taskQueue' = m_taskQueue
    BY <1>1 DEF waitTask
  <2> HIDE ThreadsAssumption, TasksAssumption, CountsFinite
      DEF IInv, TypeOK, Goto, poolVars, taskVars, Threads
  <2> QED
    BY <1>0, <2>1, <2>2, <2>3 DEF PermitsMatchQueue
<1>2. ASSUME NEW w \in Workers, LockQueue(w) PROVE PermitsMatchQueue'
  <2>1. Awake' = Awake /\ Unsignalled' = Unsignalled
    BY <1>2 DEF LockQueue, Awake, Unsignalled
  <2>2. m_signalSem' = m_signalSem /\ m_taskQueue' = m_taskQueue
    BY <1>2 DEF LockQueue
  <2> HIDE ThreadsAssumption, TasksAssumption, CountsFinite
      DEF IInv, TypeOK, Goto, poolVars, taskVars, Threads
  <2> QED
    BY <1>0, <2>1, <2>2 DEF PermitsMatchQueue
<1>3. ASSUME NEW w \in Workers, TakeTask(w) PROVE PermitsMatchQueue'
  <2>1. w \in Awake /\ Awake' = Awake \ {w} /\ Unsignalled' = Unsignalled
    BY <1>3 DEF TakeTask, Awake, Unsignalled
  <2>2. Cardinality(Awake') = Cardinality(Awake) - 1
    BY <2>1, FS_RemoveElement
  <2>3. m_taskQueue # <<>>
    BY <1>3, BalanceGivesTask DEF TakeTask, WokenFindsTask
  <2>4. Len(m_taskQueue') = Len(m_taskQueue) - 1
    BY <1>3, <2>3 DEF TakeTask, Pop
  <2>5. m_signalSem' = m_signalSem
    BY <1>3 DEF TakeTask
  <2> HIDE ThreadsAssumption, TasksAssumption, CountsFinite
      DEF IInv, TypeOK, Goto, poolVars, taskVars, Threads
  <2> QED
    BY <1>0, <2>1, <2>2, <2>4, <2>5 DEF PermitsMatchQueue
<1>4. ASSUME NEW t \in Threads, PostPush(t) PROVE PermitsMatchQueue'
  <2>1. t \notin Unsignalled /\ Unsignalled' = Unsignalled \cup {t} /\ Awake' = Awake
    BY <1>4 DEF PostPush, Awake, Unsignalled
  <2>2. Cardinality(Unsignalled') = Cardinality(Unsignalled) + 1
    BY <2>1, FS_AddElement
  <2>3. arg[t] \in Tasks
    BY <1>4 DEF PostPush, LocalsOK, PostPC
  <2>4. Len(m_taskQueue') = Len(m_taskQueue) + 1
    BY <1>4, <2>3 DEF PostPush
  <2>5. m_signalSem' = m_signalSem
    BY <1>4 DEF PostPush
  <2> HIDE ThreadsAssumption, TasksAssumption, CountsFinite
      DEF IInv, TypeOK, Goto, poolVars, taskVars, Threads
  <2> QED
    BY <1>0, <2>1, <2>2, <2>4, <2>5 DEF PermitsMatchQueue
<1>5. ASSUME NEW t \in Threads, PostSem(t) PROVE PermitsMatchQueue'
  <2>1. t \in Unsignalled /\ Unsignalled' = Unsignalled \ {t} /\ Awake' = Awake
    BY <1>5 DEF PostSem, Awake, Unsignalled, Caller
  <2>2. Cardinality(Unsignalled') = Cardinality(Unsignalled) - 1
    BY <2>1, FS_RemoveElement
  <2>3. m_signalSem' = m_signalSem + 1 /\ m_taskQueue' = m_taskQueue
    BY <1>5 DEF PostSem
  <2> HIDE ThreadsAssumption, TasksAssumption, CountsFinite
      DEF IInv, TypeOK, Goto, poolVars, taskVars, Threads
  <2> QED
    BY <1>0, <2>1, <2>2, <2>3 DEF PermitsMatchQueue
<1>6. ASSUME UNCHANGED <<m_taskQueue, m_signalSem>>, Awake' = Awake, Unsignalled' = Unsignalled
      PROVE  PermitsMatchQueue'
  BY <1>6 DEF PermitsMatchQueue
<1>7. ASSUME NEW w \in Workers, createThread(w) PROVE PermitsMatchQueue'
  BY <1>7, <1>6 DEF createThread, Awake, Unsignalled
<1>8. ASSUME NEW w \in Workers, waitTaskError(w) PROVE PermitsMatchQueue'
  BY <1>8, <1>6 DEF waitTaskError, Awake, Unsignalled
<1>9. ASSUME NEW w \in Workers, AfterError(w) PROVE PermitsMatchQueue'
  BY <1>9, <1>6 DEF AfterError, Awake, Unsignalled
<1>10. ASSUME NEW w \in Workers, UnlockQueue(w) PROVE PermitsMatchQueue'
  BY <1>10, <1>6 DEF UnlockQueue, Awake, Unsignalled
<1>11. ASSUME NEW w \in Workers, RunTask(w) PROVE PermitsMatchQueue'
  BY <1>11, <1>6 DEF RunTask, Awake, Unsignalled
<1>12. ASSUME NEW w \in Workers, DeleteTask(w) PROVE PermitsMatchQueue'
  BY <1>12, <1>6 DEF DeleteTask, Awake, Unsignalled
<1>13. ASSUME NEW t \in Threads, PostLock(t) PROVE PermitsMatchQueue'
  BY <1>13, <1>6 DEF PostLock, Awake, Unsignalled
<1>14. ASSUME NEW t \in Threads, PostUnlock(t) PROVE PermitsMatchQueue'
  BY <1>14, <1>6 DEF PostUnlock, Awake, Unsignalled
<1>15. ASSUME NEW t \in Threads, NEW k \in Tasks, postTask(t, k) PROVE PermitsMatchQueue'
  BY <1>15, <1>6 DEF postTask, Caller, Awake, Unsignalled
<1>16. CASE UNCHANGED vars
  BY <1>16, <1>6 DEF vars, Awake, Unsignalled
<1> QED
  BY <1>1, <1>2, <1>3, <1>4, <1>5, <1>7, <1>8, <1>9, <1>10, <1>11, <1>12, <1>13, <1>14, <1>15, <1>16 DEF Next, Worker, Post

-----------------------------------------------------------------------------
\* The inductive invariant holds in every state of the pool.
THEOREM Invariance == Spec => []IInv
<1>1. IInv /\ [Next]_vars => IInv'
  BY NextTypeOK, NextQueueMutex, NextLocalsOK, NextPermitsMatchQueue DEF IInv
<1> QED
  BY InitIInv, <1>1, PTL DEF Spec

\* Every variable of the pool keeps its type; in particular the semaphore
\* never goes below zero and only tasks are queued.
THEOREM TypeCorrect == Spec => []TypeOK
BY Invariance, PTL DEF IInv

\* At most one thread is between lock and unlock of m_queueLock.
THEOREM Mutex == Spec => []QueueMutex
BY Invariance, PTL DEF IInv

\* postTask, waitTask and mainThread keep the semaphore and the queue in
\* balance: no wakeup is lost and none is spurious, whatever the interleaving.
THEOREM NoLostWakeup == Spec => []PermitsMatchQueue
BY Invariance, PTL DEF IInv

\* mainThread's test m_taskQueue.size()>0 never fails after a successful wait.
THEOREM WokenWorkerFindsTask == Spec => []WokenFindsTask
<1>1. IInv => WokenFindsTask
  BY BalanceGivesTask DEF IInv
<1> QED
  BY Invariance, <1>1, PTL

-----------------------------------------------------------------------------
(* Every task has one place at a time, and is run and deleted once.           *)

Posting(t) == pc[t] \in {"lock", "push"}

\* mainThread has a task in hand from the pop to the delete
InHand == \A w \in Workers : task[w] # NULL <=> pc[w] \in {"unlock", "run", "delete"} \cup PostPC

\* no two places refer to one task
Disjoint ==
    /\ \A t, u \in Threads : Posting(t) /\ Posting(u) /\ arg[t] = arg[u] => t = u
    /\ \A i, j \in 1 .. Len(m_taskQueue) : m_taskQueue[i] = m_taskQueue[j] => i = j
    /\ \A w, v \in Workers : task[w] # NULL /\ task[w] = task[v] => w = v
    /\ \A t \in Threads : Posting(t) =>
           /\ \A i \in 1 .. Len(m_taskQueue) : m_taskQueue[i] # arg[t]
           /\ \A w \in Workers : task[w] # arg[t]
    /\ \A w \in Workers, i \in 1 .. Len(m_taskQueue) : m_taskQueue[i] # task[w]

\* what a place refers to was handed over, and has not run unless a worker is
\* about to delete it
Fresh(k) == k \in handed /\ ran[k] = 0 /\ freed[k] = 0
Live ==
    /\ \A t \in Threads : Posting(t) => Fresh(arg[t])
    /\ \A i \in 1 .. Len(m_taskQueue) : Fresh(m_taskQueue[i])
    /\ \A w \in Workers : task[w] # NULL =>
           IF pc[w] = "delete" THEN task[w] \in handed /\ ran[task[w]] = 1 /\ freed[task[w]] = 0
           ELSE Fresh(task[w])

\* a task that was handed over and not deleted has a place
Placed(k) ==
    \/ \E t \in Threads : Posting(t) /\ arg[t] = k
    \/ \E i \in 1 .. Len(m_taskQueue) : m_taskQueue[i] = k
    \/ \E w \in Workers : task[w] = k
NoneLost == \A k \in Tasks : k \in handed /\ freed[k] = 0 => Placed(k)

\* run once and deleted once, after it ran, and only once handed over
Counted == \A k \in Tasks : /\ freed[k] <= ran[k] /\ ran[k] <= 1
                            /\ k \notin handed => ran[k] = 0

OnceInv == InHand /\ Disjoint /\ Live /\ Counted /\ NoneLost

LEMMA InitOnce == Init => OnceInv
BY ThreadsAssumption, TasksAssumption
   DEF Init, OnceInv, InHand, Disjoint, Live, Counted, NoneLost, Posting, Fresh, Placed, PostPC, Threads

LEMMA NextInHand == IInv /\ OnceInv /\ [Next]_vars => InHand'
<1> SUFFICES ASSUME IInv, OnceInv, [Next]_vars PROVE InHand'
  OBVIOUS
<1> USE ThreadsAssumption, TasksAssumption
    DEF IInv, TypeOK, LocalsOK, OnceInv, Goto, poolVars, taskVars, Threads, PostPC, InHand
<1>1. ASSUME NEW w \in Workers, createThread(w) PROVE InHand'
  BY <1>1 DEF createThread
<1>2. ASSUME NEW w \in Workers, waitTask(w) PROVE InHand'
  BY <1>2 DEF waitTask
<1>3. ASSUME NEW w \in Workers, waitTaskError(w) PROVE InHand'
  BY <1>3 DEF waitTaskError
<1>4. ASSUME NEW w \in Workers, AfterError(w) PROVE InHand'
  BY <1>4 DEF AfterError
<1>5. ASSUME NEW w \in Workers, LockQueue(w) PROVE InHand'
  BY <1>5 DEF LockQueue
<1>6. ASSUME NEW w \in Workers, TakeTask(w) PROVE InHand'
  <2>1. m_taskQueue # <<>>
    BY <1>6, BalanceGivesTask DEF TakeTask, WokenFindsTask
  <2>2. task' = [task EXCEPT ![w] = Head(m_taskQueue)] /\ m_taskQueue' = Tail(m_taskQueue)
    BY <1>6, <2>1 DEF TakeTask, Front, Pop
  <2> QED
    BY <1>6, <2>1, <2>2 DEF TakeTask
<1>7. ASSUME NEW w \in Workers, UnlockQueue(w) PROVE InHand'
  BY <1>7 DEF UnlockQueue
<1>8. ASSUME NEW w \in Workers, RunTask(w) PROVE InHand'
  BY <1>8 DEF RunTask
<1>9. ASSUME NEW w \in Workers, DeleteTask(w) PROVE InHand'
  BY <1>9 DEF DeleteTask
<1>10. ASSUME NEW t \in Threads, PostLock(t) PROVE InHand'
  BY <1>10 DEF PostLock
<1>11. ASSUME NEW t \in Threads, PostPush(t) PROVE InHand'
  BY <1>11 DEF PostPush
<1>12. ASSUME NEW t \in Threads, PostUnlock(t) PROVE InHand'
  BY <1>12 DEF PostUnlock
<1>13. ASSUME NEW t \in Threads, PostSem(t) PROVE InHand'
  BY <1>13 DEF PostSem, Caller
<1>14. ASSUME NEW t \in Threads, NEW k \in Tasks, postTask(t, k) PROVE InHand'
  BY <1>14 DEF postTask, Caller
<1>15. CASE UNCHANGED vars
  BY <1>15 DEF vars
<1> QED
  BY <1>1, <1>2, <1>3, <1>4, <1>5, <1>6, <1>7, <1>8, <1>9, <1>10, <1>11, <1>12, <1>13, <1>14, <1>15 DEF Next, Worker, Post

LEMMA NextDisjoint == IInv /\ OnceInv /\ [Next]_vars => Disjoint'
<1> SUFFICES ASSUME IInv, OnceInv, [Next]_vars PROVE Disjoint'
  OBVIOUS
<1> USE ThreadsAssumption, TasksAssumption
    DEF IInv, TypeOK, LocalsOK, OnceInv, Goto, poolVars, taskVars, Threads, PostPC, InHand, Disjoint, Live, Posting, Fresh
<1>1. ASSUME NEW w \in Workers, createThread(w) PROVE Disjoint'
  BY <1>1 DEF createThread
<1>2. ASSUME NEW w \in Workers, waitTask(w) PROVE Disjoint'
  BY <1>2 DEF waitTask
<1>3. ASSUME NEW w \in Workers, waitTaskError(w) PROVE Disjoint'
  BY <1>3 DEF waitTaskError
<1>4. ASSUME NEW w \in Workers, AfterError(w) PROVE Disjoint'
  BY <1>4 DEF AfterError
<1>5. ASSUME NEW w \in Workers, LockQueue(w) PROVE Disjoint'
  BY <1>5 DEF LockQueue
<1>6. ASSUME NEW w \in Workers, TakeTask(w) PROVE Disjoint'
  <2>1. m_taskQueue # <<>>
    BY <1>6, BalanceGivesTask DEF TakeTask, WokenFindsTask
  <2>2. task' = [task EXCEPT ![w] = Head(m_taskQueue)] /\ m_taskQueue' = Tail(m_taskQueue)
    BY <1>6, <2>1 DEF TakeTask, Front, Pop
  <2> QED
    BY <1>6, <2>1, <2>2 DEF TakeTask
<1>7. ASSUME NEW w \in Workers, UnlockQueue(w) PROVE Disjoint'
  BY <1>7 DEF UnlockQueue
<1>8. ASSUME NEW w \in Workers, RunTask(w) PROVE Disjoint'
  BY <1>8 DEF RunTask
<1>9. ASSUME NEW w \in Workers, DeleteTask(w) PROVE Disjoint'
  BY <1>9 DEF DeleteTask
<1>10. ASSUME NEW t \in Threads, PostLock(t) PROVE Disjoint'
  BY <1>10 DEF PostLock
<1>11. ASSUME NEW t \in Threads, PostPush(t) PROVE Disjoint'
  BY <1>11 DEF PostPush
<1>12. ASSUME NEW t \in Threads, PostUnlock(t) PROVE Disjoint'
  BY <1>12 DEF PostUnlock
<1>13. ASSUME NEW t \in Threads, PostSem(t) PROVE Disjoint'
  BY <1>13 DEF PostSem, Caller
<1>14. ASSUME NEW t \in Threads, NEW k \in Tasks, postTask(t, k) PROVE Disjoint'
  <2>1. /\ k \notin handed /\ arg' = [arg EXCEPT ![t] = k] /\ UNCHANGED <<m_taskQueue, task>>
        /\ pc' = [pc EXCEPT ![t] = "lock"]
    BY <1>14 DEF postTask
  <2>2. /\ \A u \in Threads : Posting(u) => arg[u] # k
        /\ \A i \in 1 .. Len(m_taskQueue) : m_taskQueue[i] # k
        /\ \A w \in Workers : task[w] # k
    <3>1. ASSUME NEW u \in Threads, Posting(u) PROVE arg[u] # k
      BY <2>1, <3>1
    <3>2. ASSUME NEW i \in 1 .. Len(m_taskQueue) PROVE m_taskQueue[i] # k
      BY <2>1, <3>2
    <3>3. ASSUME NEW w \in Workers PROVE task[w] # k
      <4>1. task[w] # NULL => task[w] \in handed
        BY <3>3
      <4> QED
        BY <2>1, <4>1
    <3> QED
      BY <3>1, <3>2, <3>3
  <2>3. \A u \in Threads : /\ u # t => (Posting(u)' <=> Posting(u)) /\ arg'[u] = arg[u]
                           /\ u = t => arg'[u] = k
    BY <2>1
  <2> HIDE ThreadsAssumption, TasksAssumption
      DEF IInv, TypeOK, LocalsOK, OnceInv, Goto, poolVars, taskVars, Threads, PostPC, InHand, Live, Posting, Fresh
  <2>4. Disjoint
    BY DEF OnceInv
  <2> QED
    BY <2>1, <2>2, <2>3, <2>4
<1>15. CASE UNCHANGED vars
  BY <1>15 DEF vars
<1> QED
  BY <1>1, <1>2, <1>3, <1>4, <1>5, <1>6, <1>7, <1>8, <1>9, <1>10, <1>11, <1>12, <1>13, <1>14, <1>15 DEF Next, Worker, Post

LEMMA NextLive == IInv /\ OnceInv /\ [Next]_vars => Live'
<1> SUFFICES ASSUME IInv, OnceInv, [Next]_vars PROVE Live'
  OBVIOUS
<1> USE ThreadsAssumption, TasksAssumption
    DEF IInv, TypeOK, LocalsOK, OnceInv, Goto, poolVars, taskVars, Threads, PostPC, InHand, Disjoint, Live, Posting, Fresh
<1>1. ASSUME NEW w \in Workers, createThread(w) PROVE Live'
  BY <1>1 DEF createThread
<1>2. ASSUME NEW w \in Workers, waitTask(w) PROVE Live'
  BY <1>2 DEF waitTask
<1>3. ASSUME NEW w \in Workers, waitTaskError(w) PROVE Live'
  BY <1>3 DEF waitTaskError
<1>4. ASSUME NEW w \in Workers, AfterError(w) PROVE Live'
  BY <1>4 DEF AfterError
<1>5. ASSUME NEW w \in Workers, LockQueue(w) PROVE Live'
  BY <1>5 DEF LockQueue
<1>6. ASSUME NEW w \in Workers, TakeTask(w) PROVE Live'
  <2>1. m_taskQueue # <<>>
    BY <1>6, BalanceGivesTask DEF TakeTask, WokenFindsTask
  <2>2. task' = [task EXCEPT ![w] = Head(m_taskQueue)] /\ m_taskQueue' = Tail(m_taskQueue)
    BY <1>6, <2>1 DEF TakeTask, Front, Pop
  <2> QED
    BY <1>6, <2>1, <2>2 DEF TakeTask
<1>7. ASSUME NEW w \in Workers, UnlockQueue(w) PROVE Live'
  BY <1>7 DEF UnlockQueue
<1>8. ASSUME NEW w \in Workers, RunTask(w) PROVE Live'
  BY <1>8 DEF RunTask
<1>9. ASSUME NEW w \in Workers, DeleteTask(w) PROVE Live'
  BY <1>9 DEF DeleteTask
<1>10. ASSUME NEW t \in Threads, PostLock(t) PROVE Live'
  BY <1>10 DEF PostLock
<1>11. ASSUME NEW t \in Threads, PostPush(t) PROVE Live'
  BY <1>11 DEF PostPush
<1>12. ASSUME NEW t \in Threads, PostUnlock(t) PROVE Live'
  BY <1>12 DEF PostUnlock
<1>13. ASSUME NEW t \in Threads, PostSem(t) PROVE Live'
  BY <1>13 DEF PostSem, Caller
<1>14. ASSUME NEW t \in Threads, NEW k \in Tasks, postTask(t, k) PROVE Live'
  BY <1>14 DEF postTask, Caller, Counted
<1>15. CASE UNCHANGED vars
  BY <1>15 DEF vars
<1> QED
  BY <1>1, <1>2, <1>3, <1>4, <1>5, <1>6, <1>7, <1>8, <1>9, <1>10, <1>11, <1>12, <1>13, <1>14, <1>15 DEF Next, Worker, Post

LEMMA NextCounted == IInv /\ OnceInv /\ [Next]_vars => Counted'
<1> SUFFICES ASSUME IInv, OnceInv, [Next]_vars PROVE Counted'
  OBVIOUS
<1> USE ThreadsAssumption, TasksAssumption
    DEF IInv, TypeOK, LocalsOK, OnceInv, Goto, poolVars, taskVars, Threads, PostPC, InHand, Disjoint, Live, Counted, Posting, Fresh
<1>1. ASSUME NEW w \in Workers, createThread(w) PROVE Counted'
  BY <1>1 DEF createThread
<1>2. ASSUME NEW w \in Workers, waitTask(w) PROVE Counted'
  BY <1>2 DEF waitTask
<1>3. ASSUME NEW w \in Workers, waitTaskError(w) PROVE Counted'
  BY <1>3 DEF waitTaskError
<1>4. ASSUME NEW w \in Workers, AfterError(w) PROVE Counted'
  BY <1>4 DEF AfterError
<1>5. ASSUME NEW w \in Workers, LockQueue(w) PROVE Counted'
  BY <1>5 DEF LockQueue
<1>6. ASSUME NEW w \in Workers, TakeTask(w) PROVE Counted'
  <2>1. m_taskQueue # <<>>
    BY <1>6, BalanceGivesTask DEF TakeTask, WokenFindsTask
  <2>2. task' = [task EXCEPT ![w] = Head(m_taskQueue)] /\ m_taskQueue' = Tail(m_taskQueue)
    BY <1>6, <2>1 DEF TakeTask, Front, Pop
  <2> QED
    BY <1>6, <2>1, <2>2 DEF TakeTask
<1>7. ASSUME NEW w \in Workers, UnlockQueue(w) PROVE Counted'
  BY <1>7 DEF UnlockQueue
<1>8. ASSUME NEW w \in Workers, RunTask(w) PROVE Counted'
  BY <1>8 DEF RunTask
<1>9. ASSUME NEW w \in Workers, DeleteTask(w) PROVE Counted'
  BY <1>9 DEF DeleteTask
<1>10. ASSUME NEW t \in Threads, PostLock(t) PROVE Counted'
  BY <1>10 DEF PostLock
<1>11. ASSUME NEW t \in Threads, PostPush(t) PROVE Counted'
  BY <1>11 DEF PostPush
<1>12. ASSUME NEW t \in Threads, PostUnlock(t) PROVE Counted'
  BY <1>12 DEF PostUnlock
<1>13. ASSUME NEW t \in Threads, PostSem(t) PROVE Counted'
  BY <1>13 DEF PostSem, Caller
<1>14. ASSUME NEW t \in Threads, NEW k \in Tasks, postTask(t, k) PROVE Counted'
  BY <1>14 DEF postTask, Caller
<1>15. CASE UNCHANGED vars
  BY <1>15 DEF vars
<1> QED
  BY <1>1, <1>2, <1>3, <1>4, <1>5, <1>6, <1>7, <1>8, <1>9, <1>10, <1>11, <1>12, <1>13, <1>14, <1>15 DEF Next, Worker, Post

LEMMA NextNoneLost == IInv /\ OnceInv /\ [Next]_vars => NoneLost'
<1> SUFFICES ASSUME IInv, OnceInv, [Next]_vars,
                    NEW k \in Tasks, k \in handed', freed'[k] = 0
             PROVE  Placed(k)'
  BY DEF NoneLost
<1> USE ThreadsAssumption, TasksAssumption
    DEF IInv, TypeOK, LocalsOK, OnceInv, InHand, Goto, poolVars, taskVars, Threads, PostPC
\* a step that hands over nothing, moves no task and is not inside postTask's first half
<1>1. ASSUME UNCHANGED <<m_taskQueue, task, arg, handed, freed>>,
             \A t \in Threads : Posting(t) => Posting(t)'
      PROVE  Placed(k)'
  <2>1. Placed(k)
    BY <1>1 DEF NoneLost
  <2> QED
    BY <1>1, <2>1 DEF Placed
<1>2. ASSUME NEW w \in Workers, \/ createThread(w) \/ waitTask(w) \/ waitTaskError(w)
                                \/ AfterError(w) \/ LockQueue(w) \/ UnlockQueue(w)
      PROVE  Placed(k)'
  BY <1>1, <1>2 DEF createThread, waitTask, waitTaskError, AfterError, LockQueue, UnlockQueue, Posting
<1>3. ASSUME NEW w \in Workers, RunTask(w) PROVE Placed(k)'
  BY <1>1, <1>3 DEF RunTask, Posting
<1>4. ASSUME NEW t \in Threads, PostLock(t) \/ PostUnlock(t) PROVE Placed(k)'
  BY <1>1, <1>4 DEF PostLock, PostUnlock, Posting
<1>5. ASSUME NEW w \in Workers, TakeTask(w) PROVE Placed(k)'
  <2>1. m_taskQueue # <<>>
    BY <1>5, BalanceGivesTask DEF TakeTask, WokenFindsTask
  <2>2. task' = [task EXCEPT ![w] = Head(m_taskQueue)] /\ m_taskQueue' = Tail(m_taskQueue)
    BY <1>5, <2>1 DEF TakeTask, Front, Pop
  <2>3. task[w] = NULL
    BY <1>5 DEF TakeTask
  <2>4. Placed(k)
    BY <1>5 DEF TakeTask, NoneLost
  <2>5. CASE \E t \in Threads : Posting(t) /\ arg[t] = k
    BY <1>5, <2>5 DEF TakeTask, Posting, Placed
  <2>6. ASSUME NEW i \in 1 .. Len(m_taskQueue), m_taskQueue[i] = k PROVE Placed(k)'
    <3>1. CASE i = 1
      BY <2>1, <2>2, <2>6, <3>1 DEF Placed
    <3>2. CASE i # 1
      <4>1. i - 1 \in 1 .. Len(m_taskQueue') /\ m_taskQueue'[i - 1] = k
        BY <2>1, <2>2, <2>6, <3>2
      <4> QED
        BY <4>1 DEF Placed
    <3> QED
      BY <3>1, <3>2
  <2>7. ASSUME NEW v \in Workers, task[v] = k PROVE Placed(k)'
    <3>1. v # w
      BY <2>3, <2>7
    <3> QED
      BY <2>2, <2>7, <3>1 DEF Placed
  <2> QED
    BY <2>4, <2>5, <2>6, <2>7 DEF Placed
<1>6. ASSUME NEW w \in Workers, DeleteTask(w) PROVE Placed(k)'
  <2>1. task[w] \in Tasks /\ freed' = [freed EXCEPT ![task[w]] = @ + 1]
    BY <1>6 DEF DeleteTask
  <2>2. freed[task[w]] = 0
    BY <1>6, <2>1 DEF DeleteTask, Live
  <2>3. k # task[w] /\ freed[k] = 0 /\ k \in handed
    BY <1>6, <2>1, <2>2 DEF DeleteTask
  <2>4. Placed(k)
    BY <2>3 DEF NoneLost
  <2>5. UNCHANGED <<m_taskQueue, arg>> /\ \A t \in Threads : Posting(t) => Posting(t)'
    BY <1>6 DEF DeleteTask, Posting
  <2>6. \A v \in Workers : task[v] = k => task'[v] = k
    BY <1>6, <2>3 DEF DeleteTask
  <2> QED
    BY <2>4, <2>5, <2>6 DEF Placed
<1>7. ASSUME NEW t \in Threads, PostPush(t) PROVE Placed(k)'
  <2>1. Placed(k) /\ arg[t] \in Tasks /\ m_taskQueue' = Append(m_taskQueue, arg[t])
    BY <1>7 DEF PostPush, NoneLost
  <2>2. UNCHANGED <<task, arg>> /\ \A u \in Threads : u # t /\ Posting(u) => Posting(u)'
    BY <1>7 DEF PostPush, Posting
  <2>3. Len(m_taskQueue') = Len(m_taskQueue) + 1 /\ m_taskQueue'[Len(m_taskQueue) + 1] = arg[t]
    BY <2>1
  <2>4. \A i \in 1 .. Len(m_taskQueue) : i \in 1 .. Len(m_taskQueue') /\ m_taskQueue'[i] = m_taskQueue[i]
    BY <2>1
  <2>5. CASE arg[t] = k
    <3>1. Len(m_taskQueue) + 1 \in 1 .. Len(m_taskQueue')
      BY <2>3
    <3> QED
      BY <2>3, <2>5, <3>1 DEF Placed
  <2>6. CASE arg[t] # k
    BY <2>1, <2>2, <2>4, <2>6 DEF Placed
  <2> QED
    BY <2>5, <2>6
<1>8. ASSUME NEW t \in Threads, PostSem(t) PROVE Placed(k)'
  <2>1. Placed(k)
    BY <1>8 DEF PostSem, NoneLost
  <2>2. /\ UNCHANGED <<m_taskQueue, task>>
        /\ \A u \in Threads : Posting(u) => Posting(u)' /\ arg'[u] = arg[u]
    BY <1>8 DEF PostSem, Posting
  <2> QED
    BY <2>1, <2>2 DEF Placed
<1>9. ASSUME NEW t \in Threads, NEW j \in Tasks, postTask(t, j) PROVE Placed(k)'
  <2>1. Posting(t)' /\ arg'[t] = j
    BY <1>9 DEF postTask, Posting
  <2>2. CASE k = j
    BY <2>1, <2>2 DEF Placed
  <2>3. CASE k # j
    <3>1. Placed(k)
      BY <1>9, <2>3 DEF postTask, NoneLost
    <3>2. /\ UNCHANGED <<m_taskQueue, task>>
          /\ \A u \in Threads : Posting(u) => Posting(u)' /\ arg'[u] = arg[u]
      BY <1>9 DEF postTask, Posting, Caller
    <3> QED
      BY <3>1, <3>2 DEF Placed
  <2> QED
    BY <2>2, <2>3
<1>10. CASE UNCHANGED vars
  BY <1>1, <1>10 DEF vars, Posting
<1> QED
  BY <1>2, <1>3, <1>4, <1>5, <1>6, <1>7, <1>8, <1>9, <1>10 DEF Next, Worker, Post

-----------------------------------------------------------------------------
\* Whatever the interleaving of clients and workers, a task is in one hand at a time.
THEOREM OnceInvariance == Spec => [](IInv /\ OnceInv)
<1>1. IInv /\ OnceInv /\ [Next]_vars => OnceInv'
  BY NextInHand, NextDisjoint, NextLive, NextCounted, NextNoneLost DEF OnceInv
<1> QED
  BY Invariance, InitOnce, <1>1, PTL DEF Spec

\* What a place is: a posting thread, a position of the queue or a worker.
LEMMA PlaceKinds ==
    ASSUME NEW k \in Tasks, NEW p
    PROVE  p \in Places(k) <=>
               \/ \E t \in Threads : Posting(t) /\ arg[t] = k /\ p = <<"post", t>>
               \/ \E i \in DOMAIN m_taskQueue : m_taskQueue[i] = k /\ p = <<"queue", i>>
               \/ \E w \in Workers : task[w] = k /\ p = <<"worker", w>>
BY DEF Places, InPost, InQueue, InWorker, Posting

\* A task that waits or runs is in exactly one place.
LEMMA OnePlace ==
    ASSUME IInv, OnceInv, NEW k \in Tasks, k \in handed, freed[k] = 0
    PROVE  \E p : Places(k) = {p}
<1> USE TasksAssumption DEF IInv, OnceInv, Disjoint
<1>0. DOMAIN m_taskQueue = 1 .. Len(m_taskQueue) /\ Placed(k) /\ k # NULL
  BY DEF TypeOK, NoneLost
<1>1. ASSUME NEW t \in Threads, Posting(t), arg[t] = k PROVE Places(k) = {<<"post", t>>}
  BY <1>0, <1>1, PlaceKinds
<1>2. ASSUME NEW i \in 1 .. Len(m_taskQueue), m_taskQueue[i] = k PROVE Places(k) = {<<"queue", i>>}
  BY <1>0, <1>2, PlaceKinds
<1>3. ASSUME NEW w \in Workers, task[w] = k PROVE Places(k) = {<<"worker", w>>}
  BY <1>0, <1>3, PlaceKinds
<1> QED
  BY <1>0, <1>1, <1>2, <1>3 DEF Placed

\* A task nobody handed over, or that was deleted, is in none.
LEMMA NoPlace ==
    ASSUME IInv, OnceInv, NEW k \in Tasks, ~(k \in handed /\ freed[k] = 0)
    PROVE  Places(k) = {}
<1>1. DOMAIN m_taskQueue = 1 .. Len(m_taskQueue) /\ k # NULL
  BY TasksAssumption DEF IInv, TypeOK
<1> QED
  BY <1>1, PlaceKinds DEF OnceInv, Live, Fresh

\* Whatever posters and workers do, mainThread runs and deletes each task once,
\* and at every moment one place refers to a task that waits or runs.
THEOREM EachTaskOnce == Spec => []RunsOnce
<1>1. ASSUME IInv, OnceInv PROVE RunsOnce
  <2> SUFFICES ASSUME NEW k \in Tasks
               PROVE  /\ freed[k] <= ran[k] /\ ran[k] <= 1
                      /\ Cardinality(Places(k)) = IF k \in handed /\ freed[k] = 0 THEN 1 ELSE 0
    BY DEF RunsOnce
  <2>1. freed[k] <= ran[k] /\ ran[k] <= 1
    BY <1>1 DEF OnceInv, Counted
  <2>2. CASE k \in handed /\ freed[k] = 0
    BY <1>1, <2>1, <2>2, OnePlace, FS_Singleton
  <2>3. CASE ~(k \in handed /\ freed[k] = 0)
    BY <1>1, <2>1, <2>3, NoPlace, FS_EmptySet
  <2> QED
    BY <2>2, <2>3, <2>1
<1> QED
  BY OnceInvariance, <1>1, PTL

-----------------------------------------------------------------------------
(* The pool implements TaskQueue: a push is Put, a pop is Get, a delete is     *)
(* Finish, and no other step is seen.                                         *)

Running == {task[w] : w \in Workers} \ {NULL}
Finished == {k \in Tasks : freed[k] > 0}

\* A step that touches neither queue nor task nor freed is not seen.
LEMMA Unseen == ASSUME UNCHANGED <<m_taskQueue, task, freed>> PROVE UNCHANGED TQ!qvars
BY DEF TQ!qvars

LEMMA PushIsPut ==
    ASSUME IInv, OnceInv, NEW t \in Threads, PostPush(t)
    PROVE  TQ!Put(arg[t]) /\ arg[t] \in Tasks
<1>1. arg[t] \in Tasks /\ Posting(t) /\ m_taskQueue' = Append(m_taskQueue, arg[t])
      /\ UNCHANGED <<task, freed>>
  BY DEF PostPush, Goto, Posting, IInv, LocalsOK, PostPC, taskVars
<1>2. arg[t] \notin TQ!Queued
  BY <1>1 DEF OnceInv, Disjoint, TQ!Queued, IInv, TypeOK
<1>3. arg[t] \notin Running /\ arg[t] \notin Finished
  BY <1>1 DEF OnceInv, Disjoint, Live, Fresh, Running, Finished
<1> QED
  BY <1>1, <1>2, <1>3 DEF TQ!Put, Running, Finished

LEMMA PopIsGet ==
    ASSUME IInv, OnceInv, NEW w \in Workers, TakeTask(w)
    PROVE  TQ!Get
<1>1. m_taskQueue # <<>>
  BY BalanceGivesTask DEF TakeTask, Goto, WokenFindsTask, IInv
<1>2. /\ task' = [task EXCEPT ![w] = Head(m_taskQueue)] /\ m_taskQueue' = Tail(m_taskQueue)
      /\ freed' = freed
  BY <1>1 DEF TakeTask, Front, Pop, taskVars
<1>3. Head(m_taskQueue) # NULL /\ task \in [Workers -> Tasks \cup {NULL}]
  BY <1>1, TasksAssumption DEF IInv, TypeOK
<1>4. task[w] = NULL
  BY DEF TakeTask, Goto, OnceInv, InHand, PostPC
<1>5. Running' = Running \cup {Head(m_taskQueue)}
  BY <1>2, <1>3, <1>4 DEF Running
<1> QED
  BY <1>1, <1>2, <1>5 DEF TQ!Get, Running

LEMMA DeleteIsFinish ==
    ASSUME IInv, OnceInv, NEW w \in Workers, DeleteTask(w)
    PROVE  TQ!Finish(task[w]) /\ task[w] \in Tasks
<1>1. /\ task[w] \in Tasks /\ task[w] # NULL /\ m_taskQueue' = m_taskQueue
      /\ task \in [Workers -> Tasks \cup {NULL}] /\ task' = [task EXCEPT ![w] = NULL]
      /\ freed \in [Tasks -> Nat] /\ freed' = [freed EXCEPT ![task[w]] = @ + 1]
  BY TasksAssumption DEF DeleteTask, Goto, IInv, TypeOK, LocalsOK, poolVars
<1>2. \A v \in Workers : task[v] = task[w] => v = w
  BY <1>1 DEF OnceInv, Disjoint
<1>3. Running' = Running \ {task[w]} /\ task[w] \in Running
  BY <1>1, <1>2 DEF Running
<1>4. Finished' = Finished \cup {task[w]}
  BY <1>1 DEF Finished
<1> QED
  BY <1>1, <1>3, <1>4 DEF TQ!Finish, Running, Finished

\* The pool is a FIFO queue from which each task is taken, run and deleted once.
THEOREM Refinement == Spec => ImplementsTaskQueue
<1>1. Init => TQ!QInit
  BY DEF Init, TQ!QInit
<1>2. ASSUME IInv, OnceInv, [Next]_vars PROVE [TQ!QNext]_(TQ!qvars)
  <2> USE <1>2 DEF Goto, poolVars, taskVars
  <2>1. ASSUME NEW w \in Workers, \/ createThread(w) \/ waitTask(w) \/ waitTaskError(w)
                                  \/ AfterError(w) \/ LockQueue(w) \/ UnlockQueue(w) \/ RunTask(w)
        PROVE  UNCHANGED TQ!qvars
    BY <2>1, Unseen
       DEF createThread, waitTask, waitTaskError, AfterError, LockQueue, UnlockQueue, RunTask
  <2>2. ASSUME NEW w \in Workers, TakeTask(w) PROVE TQ!QNext
    BY <2>2, PopIsGet DEF TQ!QNext
  <2>3. ASSUME NEW w \in Workers, DeleteTask(w) PROVE TQ!QNext
    <3>1. TQ!Finish(task[w]) /\ task[w] \in Tasks
      BY <2>3, DeleteIsFinish
    <3> QED
      BY <3>1 DEF TQ!QNext, TQ!Finish
  <2>4. ASSUME NEW t \in Threads, PostPush(t) PROVE TQ!QNext
    BY <2>4, PushIsPut DEF TQ!QNext
  <2>5. ASSUME NEW t \in Threads, PostLock(t) \/ PostUnlock(t) \/ PostSem(t)
        PROVE  UNCHANGED TQ!qvars
    BY <2>5, Unseen DEF PostLock, PostUnlock, PostSem
  <2>6. ASSUME NEW t \in Threads, NEW k \in Tasks, postTask(t, k) PROVE UNCHANGED TQ!qvars
    BY <2>6, Unseen DEF postTask
  <2>7. CASE UNCHANGED vars
    BY <2>7, Unseen DEF vars
  <2> QED
    BY <2>1, <2>2, <2>3, <2>4, <2>5, <2>6, <2>7 DEF Next, Worker, Post
<1> QED
  BY OnceInvariance, <1>1, <1>2, PTL DEF Spec, ImplementsTaskQueue, TQ!QSpec
=============================================================================
