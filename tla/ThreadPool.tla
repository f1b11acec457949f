----------------------------- MODULE ThreadPool -----------------------------
(***************************************************************************)
(* ThreadPool.cpp (the same file in SipSubService and SipSupService): a    *)
(* queue of tasks under m_queueLock, a semaphore m_signalSem that counts   *)
(* them, worker threads in mainThread, and any thread in postTask, the     *)
(* workers included, since a task may post another task while it runs.     *)
(*                                                                         *)
(* The users of the pool are the environment: a thread may call postTask   *)
(* with any task it has not handed over before (the pool deletes the task, *)
(* so handing it over twice is the caller's error).  postTask(NULL) does   *)
(* nothing and is not a step.                                              *)
(***************************************************************************)
EXTENDS Integers, Sequences, FiniteSets

CONSTANTS Workers,    \* the threads createThreadPool tries to create
          Clients,    \* the other threads that call postTask
          Tasks,      \* ThreadTask objects
          NULL

Threads == Workers \cup Clients

ASSUME ThreadsAssumption ==
    /\ IsFiniteSet(Workers) /\ IsFiniteSet(Clients)
    /\ Workers \cap Clients = {}
    /\ NULL \notin Threads

ASSUME TasksAssumption == NULL \notin Tasks

VARIABLES
    m_taskQueue,      \* static queue<ThreadTask*>
    m_queueLock,      \* the holder of the mutex, or NULL
    m_signalSem,      \* the value of the semaphore
    pc,               \* the next statement of each thread
    task,             \* mainThread's local variable, per worker
    arg,              \* postTask's argument, per thread
    handed,           \* the tasks some caller has passed to postTask
    ran,              \* how often run() returned, per task
    freed             \* how often delete was called, per task

vars == <<m_taskQueue, m_queueLock, m_signalSem, pc, task, arg, handed, ran, freed>>

WorkerPC == {"none", "failed", "wait", "error", "woken", "take", "unlock",
             "run", "delete"}
PostPC == {"lock", "push", "release", "post"}

Init ==
    /\ m_taskQueue = <<>>
    /\ m_queueLock = NULL
    /\ m_signalSem = 0
    /\ pc = [t \in Threads |-> IF t \in Workers THEN "none" ELSE "idle"]
    /\ task = [w \in Workers |-> NULL]
    /\ arg = [t \in Threads |-> NULL]
    /\ handed = {}
    /\ ran = [k \in Tasks |-> 0]
    /\ freed = [k \in Tasks |-> 0]

Goto(t, from, to) == pc[t] = from /\ pc' = [pc EXCEPT ![t] = to]

poolVars == <<m_taskQueue, m_queueLock, m_signalSem>>
taskVars == <<handed, ran, freed>>

-----------------------------------------------------------------------------
(* createThreadPool: one iteration per worker; a failed creation is only logged *)

createThread(w) ==
    /\ \E to \in {"wait", "failed"} : Goto(w, "none", to)
    /\ UNCHANGED <<poolVars, task, arg, taskVars>>

-----------------------------------------------------------------------------
(* mainThread *)

\* mutant: the wait does not block at 0
waitTaskNoBlock(w) ==
    /\ Goto(w, "wait", "woken")
    /\ m_signalSem' = m_signalSem - 1
    /\ UNCHANGED <<m_taskQueue, m_queueLock, task, arg, taskVars>>

\* waitTask returns 0: sem_wait took one unit
waitTask(w) ==
    /\ Goto(w, "wait", "woken")
    /\ m_signalSem > 0
    /\ m_signalSem' = m_signalSem - 1
    /\ UNCHANGED <<m_taskQueue, m_queueLock, task, arg, taskVars>>

\* waitTask returns -1: sem_wait was interrupted and took nothing
waitTaskError(w) ==
    /\ Goto(w, "wait", "error")
    /\ UNCHANGED <<poolVars, task, arg, taskVars>>

\* mutant: mainThread without "if (ret==0)"
AfterErrorUnchecked(w) == Goto(w, "error", "woken") /\ UNCHANGED <<poolVars, task, arg, taskVars>>

\* ret # 0: around the loop
AfterError(w) ==
    /\ Goto(w, "error", "wait")
    /\ UNCHANGED <<poolVars, task, arg, taskVars>>

LockQueue(w) ==
    /\ Goto(w, "woken", "take")
    /\ m_queueLock = NULL
    /\ m_queueLock' = w
    /\ UNCHANGED <<m_taskQueue, m_signalSem, task, arg, taskVars>>

Newest(q) == IF q = <<>> THEN NULL ELSE q[Len(q)]   \* mutant: the queue used as a stack

Front(q) == IF q = <<>> THEN NULL ELSE Head(q)
PopNothing(q) == q                                  \* mutant: pop() forgotten
Pop(q) == IF q = <<>> THEN q ELSE Tail(q)

TakeTask(w) ==
    /\ Goto(w, "take", "unlock")
    /\ task' = [task EXCEPT ![w] = Front(m_taskQueue)]
    /\ m_taskQueue' = Pop(m_taskQueue)
    /\ UNCHANGED <<m_queueLock, m_signalSem, arg, taskVars>>

\* mutant: the worker keeps the lock while the task runs
UnlockLate(w) ==
    /\ Goto(w, "unlock", IF task[w] # NULL THEN "run" ELSE "wait")
    /\ UNCHANGED <<poolVars, task, arg, taskVars>>

UnlockQueue(w) ==
    /\ Goto(w, "unlock", IF task[w] # NULL THEN "run" ELSE "wait")
    /\ m_queueLock' = NULL
    /\ UNCHANGED <<m_taskQueue, m_signalSem, task, arg, taskVars>>

\* task->run() returns; while it runs the task may call postTask, below
RunTask(w) ==
    /\ Goto(w, "run", "delete")
    /\ ran' = [ran EXCEPT ![task[w]] = @ + 1]
    /\ UNCHANGED <<poolVars, task, arg, handed, freed>>

\* delete task, and NULL again in the next iteration
DeleteTask(w) ==
    /\ Goto(w, "delete", "wait")
    /\ freed' = [freed EXCEPT ![task[w]] = @ + 1]
    /\ task' = [task EXCEPT ![w] = NULL]
    /\ UNCHANGED <<poolVars, arg, handed, ran>>

-----------------------------------------------------------------------------
(* postTask *)

\* where postTask returns to: a client, or the run() of a worker's task
Caller(t) == IF t \in Workers THEN "run" ELSE "idle"

postTask(t, k) ==
    /\ Goto(t, Caller(t), "lock")
    /\ k \notin handed
    /\ handed' = handed \cup {k}
    /\ arg' = [arg EXCEPT ![t] = k]
    /\ UNCHANGED <<poolVars, task, ran, freed>>

PostLock(t) ==
    /\ Goto(t, "lock", "push")
    /\ m_queueLock = NULL
    /\ m_queueLock' = t
    /\ UNCHANGED <<m_taskQueue, m_signalSem, task, arg, taskVars>>

PostPush(t) ==
    /\ Goto(t, "push", "release")
    /\ m_taskQueue' = Append(m_taskQueue, arg[t])
    /\ UNCHANGED <<m_queueLock, m_signalSem, task, arg, taskVars>>

PostUnlock(t) ==
    /\ Goto(t, "release", "post")
    /\ m_queueLock' = NULL
    /\ UNCHANGED <<m_taskQueue, m_signalSem, task, arg, taskVars>>

\* mutant: the semaphore signalled only for the first task of an empty queue
PostSemFirst(t) ==
    /\ Goto(t, "post", Caller(t))
    /\ m_signalSem' = IF Len(m_taskQueue) <= 1 THEN m_signalSem + 1 ELSE m_signalSem
    /\ arg' = [arg EXCEPT ![t] = NULL]
    /\ UNCHANGED <<m_taskQueue, m_queueLock, task, taskVars>>

PostSem(t) ==
    /\ Goto(t, "post", Caller(t))
    /\ m_signalSem' = m_signalSem + 1
    /\ arg' = [arg EXCEPT ![t] = NULL]
    /\ UNCHANGED <<m_taskQueue, m_queueLock, task, taskVars>>

-----------------------------------------------------------------------------
Worker(w) ==
    \/ waitTask(w) \/ waitTaskError(w) \/ AfterError(w)
    \/ LockQueue(w) \/ TakeTask(w) \/ UnlockQueue(w)
    \/ RunTask(w) \/ DeleteTask(w)

Post(t) == PostLock(t) \/ PostPush(t) \/ PostUnlock(t) \/ PostSem(t)

Next ==
    \/ \E w \in Workers : createThread(w) \/ Worker(w)
    \/ \E t \in Threads : Post(t) \/ \E k \in Tasks : postTask(t, k)

Spec == Init /\ [][Next]_vars

(***************************************************************************)
(* Threads that can run do run, and run() returns.  A signal may interrupt *)
(* sem_wait, but not every time: strong fairness on the successful wait.   *)
(***************************************************************************)
Fairness ==
    /\ \A w \in Workers :
          /\ SF_vars(waitTask(w))
          /\ WF_vars(AfterError(w)) /\ WF_vars(LockQueue(w)) /\ WF_vars(TakeTask(w))
          /\ WF_vars(UnlockQueue(w)) /\ WF_vars(RunTask(w)) /\ WF_vars(DeleteTask(w))
    /\ \A t \in Threads : WF_vars(Post(t))

FairSpec == Spec /\ Fairness

-----------------------------------------------------------------------------
(* Properties *)

TypeOK ==
    /\ m_taskQueue \in Seq(Tasks)
    /\ m_queueLock \in Threads \cup {NULL}
    /\ m_signalSem \in Nat
    /\ pc \in [Threads -> WorkerPC \cup PostPC \cup {"idle"}]
    /\ \A w \in Workers : pc[w] # "idle"
    /\ \A c \in Clients : pc[c] \in PostPC \cup {"idle"}
    /\ task \in [Workers -> Tasks \cup {NULL}]
    /\ arg \in [Threads -> Tasks \cup {NULL}]
    /\ handed \subseteq Tasks
    /\ ran \in [Tasks -> Nat]
    /\ freed \in [Tasks -> Nat]

\* The holder of m_queueLock is exactly the thread between lock and unlock.
InSection(t) == pc[t] \in {"take", "unlock", "push", "release"}
QueueMutex == \A t \in Threads : InSection(t) <=> m_queueLock = t

\* Workers that took a unit of the semaphore and have not popped yet, and
\* threads that pushed a task and have not signalled it yet.
Awake == {w \in Workers : pc[w] \in {"woken", "take"}}
Unsignalled == {t \in Threads : pc[t] \in {"release", "post"}}

\* No lost wakeup and no spurious one: every queued task is matched by one
\* unit of m_signalSem, by a worker already on its way, or by a poster about
\* to signal (postTask signals after it released the lock).
PermitsMatchQueue ==
    m_signalSem + Cardinality(Awake) + Cardinality(Unsignalled) = Len(m_taskQueue)

\* A worker that was woken always finds a task under the lock: the test
\* m_taskQueue.size()>0 in mainThread never fails.
WokenFindsTask == \A w \in Workers : pc[w] = "take" => m_taskQueue # <<>>

\* Every task handed over is run at most once and deleted at most once, after
\* it ran; until then exactly one place refers to it: a poster that has not
\* pushed it yet, one position of the queue, or one worker.
InPost(k) == {t \in Threads : arg[t] = k /\ pc[t] \in {"lock", "push"}}
InQueue(k) == {i \in DOMAIN m_taskQueue : m_taskQueue[i] = k}
InWorker(k) == {w \in Workers : task[w] = k}
Places(k) == ({"post"} \X InPost(k)) \cup ({"queue"} \X InQueue(k)) \cup ({"worker"} \X InWorker(k))

RunsOnce ==
    \A k \in Tasks :
        /\ freed[k] <= ran[k] /\ ran[k] <= 1
        /\ Cardinality(Places(k)) = IF k \in handed /\ freed[k] = 0 THEN 1 ELSE 0

\* The pool implements the abstract queue: FIFO order, nothing lost, nothing
\* taken twice.
TQ == INSTANCE TaskQueue WITH
          waiting <- m_taskQueue,
          running <- {task[w] : w \in Workers} \ {NULL},
          finished <- {k \in Tasks : freed[k] > 0}
ImplementsTaskQueue == TQ!QSpec

\* A task handed over is run and deleted, if at least one worker could be
\* created: no interleaving of posters, workers and interrupted waits loses it.
EveryTaskRuns ==
    \A k \in Tasks :
        (k \in handed /\ \E w \in Workers : pc[w] \notin {"none", "failed"})
            ~> freed[k] = 1
=============================================================================
