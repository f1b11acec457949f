----------------------------- MODULE TaskQueue -----------------------------
(***************************************************************************)
(* What ThreadPool promises its users, without threads, lock or semaphore: *)
(* a task handed over is queued once, tasks leave the queue in the order   *)
(* in which they entered it, and a task that left the queue is run and     *)
(* then destroyed, once.  ThreadPool.tla implements this module.           *)
(***************************************************************************)
EXTENDS Sequences

CONSTANT Tasks

VARIABLES waiting,    \* tasks in the order in which they were queued
          running,    \* tasks taken by a worker and not destroyed yet
          finished    \* tasks destroyed

qvars == <<waiting, running, finished>>

Queued == {waiting[i] : i \in DOMAIN waiting}

QInit == waiting = <<>> /\ running = {} /\ finished = {}

\* A task enters the queue: it was never seen before.
Put(k) ==
    /\ k \notin Queued \cup running \cup finished
    /\ waiting' = Append(waiting, k)
    /\ UNCHANGED <<running, finished>>

\* The oldest task leaves the queue.
Get ==
    /\ waiting # <<>>
    /\ running' = running \cup {Head(waiting)}
    /\ waiting' = Tail(waiting)
    /\ UNCHANGED finished

\* A task is destroyed after it has run.
Finish(k) ==
    /\ k \in running
    /\ running' = running \ {k}
    /\ finished' = finished \cup {k}
    /\ UNCHANGED waiting

QNext == Get \/ \E k \in Tasks : Put(k) \/ Finish(k)

QSpec == QInit /\ [][QNext]_qvars
=============================================================================
