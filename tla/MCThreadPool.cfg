\* three workers, two clients, three tasks: workers race for a task, posters
\* overlap, and tasks are posted both by clients and by running tasks
CONSTANTS
    Workers = {w1, w2, w3}
    Clients = {c1, c2}
    Tasks = {k1, k2, k3}
    NULL = NULL
SPECIFICATION FairSpec
INVARIANTS TypeOK QueueMutex PermitsMatchQueue WokenFindsTask RunsOnce
PROPERTIES ImplementsTaskQueue EveryTaskRuns
CHECK_DEADLOCK FALSE
