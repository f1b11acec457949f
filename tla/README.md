# A TLA+ model of GB28181-Server

The repository holds two C++ services built on PJSIP that speak the registration
part of GB28181. `SipSubService` is the lower platform: it sends REGISTER to the
upper platforms in its configuration. `SipSupService` is the upper platform: it
answers REGISTER from the lower platforms in its configuration. Both share the
same thread pool, timer, thread wrapper, configuration reader and start-up code
(the files are identical or differ in names only). There are no tests; `notes/`
is the documentation. `src/3rd` holds the third-party code the services are linked
with. Of that, the parts of PJSIP every REGISTER of SipSubService runs through are
modelled too: the registration client, the client transaction and the timer heap.

In this directory `SUP` means `src/SipSupService`, `SUB` means `src/SipSubService`.

## Inventory

| Component | State | Operations | Interacts with |
|---|---|---|---|
| Thread pool, `ThreadPool.cpp` | `m_taskQueue`, `m_queueLock`, `m_signalSem` (static: one queue for all pools) | `createThreadPool`, `mainThread`, `waitTask`, `postTask` | any thread may post; nothing in the programs does yet |
| SUP dispatch, `SipCore.cpp` | one `threadParam` per request | `onRxRequest` (event thread), `dealTaskThread` (one detached thread per request) | PJSIP calls it; it calls `SipRegister::run` |
| SUP registration, `SipRegister.cpp` | local to a request | `run`, `RegisterRequestMessage`, `dealWithRegister` | list of lower platforms, PJSIP's response functions |
| SUP list, `GlobalCtl.cpp` | `subDomainInfoList`, `globalLock` | `checkIsExist`, `setExpires`, `init` | read and written by all request threads |
| SUB registration, `SipRegister.cpp` | `registered` per upper platform, one PJSIP `regc` per attempt | `registerServiceStart`, `RegisterProc`, `gbRegister` (timer thread), `client_cb` (event thread) | timer, PJSIP's registration client |
| Timer, `TaskTimer.cpp` | `m_timerStop`, `lastTm` | `start`, `stop`, `timer` | calls back `RegisterProc`; reads the wall clock |
| Configuration, `ConfReader.cpp`, `SipLocalConfig.cpp` | values read so far | `parse_file`, `readStr`, `readInt`, `ReadConf` | the file; `GlobalCtl::init` copies the nodes |
| Start-up, `main.cpp`, `GlobalCtl::init`, `SipCore::InitSip`, `pollingEvent` | progress of main, the event thread | one step per call | everything above |
| PJSIP registration client, `sip_reg.c` | one `pjsip_regc`: `has_tsx`, `busy_ctr`, `_delete_flag`, the Expires asked for and granted, the refresh timer | create, init, register, send, destroy (timer thread); `regc_tsx_callback`, `regc_refresh_timer_cb` (event thread) | SUB registration above, the transaction below |
| PJSIP client transaction, `sip_transaction.c` | state, status code, two timers, transport flags | send, receive, timers, completion of a send, disconnect | registration client, transport, timer heap |
| PJLIB timer heap, `timer.c` | heap, `timer_ids`, free list | schedule, cancel, poll | every timer of PJSIP |
| `SipTaskBase` | none | `parseFromId`; `parseXmlData` has no caller | called by SUP registration |
| `SipMessage`, `ECThread`, `Common.h` | none that lasts | header text, pthread wrappers, scoped lock, logging | - |

What is hard here: five kinds of threads (main, event, timer, one per request,
and the pool's workers) over unprotected or briefly protected state; PJSIP calls
that fail half way; UDP requests that are duplicated and reordered; a wall clock
that is set; a configuration parser whose comparison is a prefix test; callbacks
that run inside the call that causes them, timers that race answers, and an upper
platform that forgets its list when it is restarted. The
`hazards` of `PROJECT.json` list these at their lines, with the properties that
cover them.

## Modules

| Module | Models | Notes |
|---|---|---|
| `TaskQueue` | what the pool promises: a FIFO queue from which each task is taken, run and finished once | abstract, no source lines |
| `ThreadPool` | `ThreadPool.cpp` | one action per statement that touches shared state; refines `TaskQueue` |
| `ThreadPoolProofs` | - | proofs about `ThreadPool` |
| `SupService` | SUP `onRxRequest`, `dealTaskThread`, `dealWithRegister`, `parseFromId`, `checkIsExist`, `setExpires` | one thread per delivered request |
| `Registrar` | what SUP promises its devices | abstract, no source lines; `SupService` refines it |
| `SupServiceProofs` | - | proofs about `SupService` |
| `SubService` | SUB `RegisterProc`, `gbRegister`, `client_cb`, over registration clients taken by their contract | timer thread and event thread |
| `RegcContract` | what a registration client promises `gbRegister` and `client_cb` | abstract, no source lines |
| `RegClient` | `sip_reg.c` as SUB uses it | two threads with their call stacks; refines `RegcContract` |
| `RequestContract` | what `pjsip_endpt_send_request` promises its caller | abstract, no source lines |
| `ClientTransaction` | the non-INVITE client transaction of `sip_transaction.c` and `mod_stateful_util` | no specification of its own: composed by `Registration` |
| `Registration` | SUB's client and its transactions, the network, SUP's threads and restart | extends `ClientTransaction`; refines `RequestContract` |
| `TimerHeap` | `timer.c` | slots, ids and free list as in the source |
| `TaskTimer` | `TaskTimer.cpp` | clock that can be set, unsigned difference |
| `LocalConfig` | `ConfReader.cpp`, SUP `SipLocalConfig::ReadConf` | prefix comparison, uninitialised buffer; no specification of its own: composed by `Startup` |
| `Startup` | both `main`s, `GlobalCtl::init`, `InitSip`, `pollingEvent` | extends `LocalConfig`; main beside the event thread |
| `SubServiceProofs`, `RegClientProofs`, `RegistrationProofs`, `TimerHeapProofs`, `TaskTimerProofs` | - | proofs about the module of that name |
| `StartupProofs` | - | proofs about `LocalConfig` and `Startup` |
| `MC*` | - | values for the constants of the module of that name; `MCTimerHeap` also bounds a behaviour and picks one of entries that are alike |

How state and actions correspond:

* **ThreadPool.** `pc[t]` is the statement a thread has reached. A worker goes
  `wait -> woken -> take -> unlock -> run -> delete -> wait` (or `error` when
  `sem_wait` is interrupted); a poster `lock -> push -> release -> post`. A worker
  in `run` may itself post. `handed`, `ran` and `freed` record what happened to a
  task object; a caller hands a task over once, because the pool deletes it.
* **SupService.** A `Params` element is a `threadParam`, so its number bounds the
  deliveries; a retransmission is one more delivery. `checkIsExist` and
  `setExpires` hold `globalLock` for their whole body and are one step each, but
  two separate steps, as in the code. An id is a sequence of characters of width
  `Width` (20 in the code), and `parseFromId` cuts that many characters out of the
  printed header at `Offset` (11). A display name begins behind `Lead` (6) characters
  and shifts the id by its length, so that a slice may hold parts of both. A null
  pointer that is read sets `crashed`. `sent`, `writer` and `answered` are ghosts.
* **SubService.** `at` and `step` are the position of the timer thread;
  `regc[n][k]` the state of a registration client, which behaves as `RegcContract`
  says: every REGISTER that was sent has an outcome, a 2xx is refreshed (unless it
  grants 0 seconds), anything else leaves the client idle. A client nobody refers
  to any more is idle for ever, and its name is used again: the memory the code
  loses there is not counted (see Not modelled). `globalLock` is taken
  by `RegisterProc` only.
* **RegClient.** `stack[t]` holds the functions of `sip_reg.c` a thread is in, so
  that a callback inside a send, and a send inside a callback (423), are what they
  are in the code. A section under the lock that calls nothing is one step; what
  happens without the lock (`busy_ctr`, the reset of `has_tsx` after a failed send,
  the call of `client_cb`) is a step of its own. Exactly SUB's use is modelled: it
  destroys a client only after a failed call, `client_cb` neither sends nor
  destroys, and there are no credentials, so a challenge always fails.
* **ClientTransaction.** A handler runs under the group lock and maps one record
  `tsx` to the next, with the source's function names. Two interleavings the lock
  does not prevent are kept apart: the sender is between the first send and the
  start of timer F (`sender`), and the event thread has seen a posted transport
  error and waits for the lock (`errev`). `refs` is the reference count of the group
  lock, at 0 the memory goes: the transaction holds one until it is destroyed, the
  timer heap one for each timer until its callback has returned, and a send one until
  it is finished. A DESTROYED transaction whose repetition the transport still has is
  therefore an ordinary state, and `transport_callback` runs on it. The reference the
  holder of the lock has for as long as it holds it is left out; it could only keep the
  memory longer. `sent`, `told`, `calls` and `lost` are ghosts. The destination is a numeric address, so a failed send has no second
  server to go to.
* **Registration.** One registration client at a time (several are `SubService`'s
  matter). `requests` and `responses` are sets: what is in them may be delivered
  any number of times, in any order, or never; over TCP once. A REGISTER is told
  apart by its branch, and two branches are enough as long as the network
  delivers nothing older than the transaction before the current one. `Restart`
  loses SUP's threads and intervals, at any time and any number of times.
* **TimerHeap.** Slots and ids start at 0, as in the source. `reheap_up` and
  `reheap_down` differ in the slot that follows each slot (`next`): `Passed` is the
  loop, the slots the moved node passes, and `Move` the copies along them. Any entry
  that is not scheduled may be scheduled next, and gets the id that was freed last,
  whoever had it; a full heap refuses it (`Room`). `pj_timer_heap_poll` releases the
  lock around each callback, so it is a sequence of single steps.
* **TaskTimer.** Time passes in the units the thread sleeps. `quiet` is real time,
  `clock` is what `gettimeofday` says, and `SetClock` separates the two.
* **LocalConfig.** A file is a sequence of lines, a name a sequence of letters and
  digits. `Spelling` gives the program's names, cut where two of them part; that none
  of them begins another is an assumption, which holds for the eleven keys and two
  sections of the source. The number of a node is in base `Base` (10). As in
  `parse_file`, a name in the file matches every name it begins: `sip_i=` is found for
  `sip_id` and for `sip_ip`, `[local]` opens `localserver` and `[]` every section.
  SUB reads `expires` where SUP reads `auth`; otherwise the two `ReadConf` are the same.
* **Startup.** `ReadConf` is main's first statement, its steps those of `LocalConfig`;
  `GlobalCtl::init` copies the nodes it read. `done` counts the calls of `InitSip` (with the two of
  `init_transport_layer` in place) that succeeded. The tenth starts the event
  thread, which runs while `main` is still inside `InitSip`.

## Runs

| Run | Checks | Instance |
|---|---|---|
| `pool` | `TypeOK`, `QueueMutex`, `PermitsMatchQueue`, `WokenFindsTask`, `RunsOnce`, `ImplementsTaskQueue`, `EveryTaskRuns` | 3 workers, 2 clients, 3 tasks: workers race for tasks, two posters overlap, running tasks post, any of the workers may be missing |
| `sup` | `Sound` (`TypeOK`, `HeapAccounted`), `AnswerMatchesList`, `AnsweredInOrder`, `ImplementsRegistrar` | 2 deliveries, overlapping or one after the other, of 8 requests (listed, unlisted, too long, too short, with a display name that puts another's id into the slice, without Expires, not a REGISTER), a list with a duplicated id; all four are proved for any number |
| `sub` | `TypeOK`, `NoRegcAbandoned`, `OneLateRegister`, `KeepsTrying`, `EventuallyRegistered` | 3 platforms, the second with an `expires` PJSIP refuses, 2 registration clients of each in use at once; answers 200, 202, 404, 408 |
| `timer` | `Sound` (`TypeOK`, `OneCallAfterStop`), `NeverSilenced`, `SpacedOut` | period 2, callbacks up to 3 (longer than the period), clock up to 14, set twice between callbacks |
| `startup` | `Sound` (`TypeOK`, `ServedWhenComplete`, `FailedInitServesNobody`), `KeysFaithful` (with `NumbersPresent`), `NodesFaithful` | both services, every call failing or not; a file with 3 nodes in base 3, so that the third has two digits, and every file with one line missing, emptied, exchanged with another, doubled elsewhere with another value, or with a name cut short (a section's to nothing) |
| `regc` | `Sound` (`TypeOK`, `NoUseAfterFree`, `FailedAttemptFreed`), `BusyBalanced`, `OneTransaction`, `SilentOnlyIfTold`, `RefreshInTime`, `EveryRegisterTold`, `ImplementsContract` | 11 answers: intervals 0, shorter than the safety margin, usual and longer, in Contact, in Expires or missing; 423 with and without Min-Expires; a challenge, a refusal, a timeout, a broken transport |
| `registration` | `Sound` (`TypeOK`, `AssertionsHold`, `NoUseAfterFree`, `NoLeak`, `NoDestroyLater`), `SendsBounded`, `AnswerIsForThis`, `AlwaysDriven`, `ImplementsRequest`, `ListRefilled` | T1, T2, T4, timer F as 1, 2, 1, 3: the interval is doubled once and capped once, and the last repetition is due together with timer F |
| `timerheap` | `Sound` (`TypeOK`, `HeapOrdered`, `IdsMatchSlots`, `FreelistSound`), `ActsAsQueue` | initial size 2 and 6 entries, so that the heap doubles and a removal in the middle must move a node up (five are too few for that); two times, three removals, so that an id passes to another entry and back. The bound on removals is in `MCTimerHeap`; both properties are proved without it |

`Sound`, where a module has it, is the conjunction of the parts named behind it.

Deadlock is checked in `sub`, where the timer thread never stops. In the others the
system may come to rest: all tasks run, all deliveries ended, the timer stopped,
start-up over, a client idle after its last failure; `timerheap` ends with its bound.

What the passing runs show, beyond the names: postTask may signal after it has
released the lock, because units, woken workers and late posters always add up
to the queue; `mainThread`'s test for an empty queue is never needed; the two
separate lock sections of `dealWithRegister` are harmless, since the list's
membership never changes; two REGISTERs of one sender can be recorded against
their order only while they overlap; the unlocked `registered` flag costs one
superfluous REGISTER per platform at most; the unsigned subtraction in `timer` is
what keeps it alive when the clock is set back. In PJSIP: the unlocked reset of
`has_tsx` is harmless, because nobody sends while a send is being decided, so that
EBUSY is never returned and REGISTERs of one client never overlap; the deferred
deletion of a client is never needed by SUB; the "destroy later" branches of the
transaction are never taken, since the reference of a send that is under way keeps
the memory by itself; the timer heap never refuses an entry, because it grows two
slots before it is full; an answer to the REGISTER before never ends the
current one; after a restart of SUP the next refresh fills its list again, or
`client_cb` is told of a failure.

### Disagreements between the repository and its code

Each of these runs checks one statement of the notes, of a comment or of a
message, and TLC shows a behaviour of the code that contradicts it.

| Run | Property | What the code does |
|---|---|---|
| `sup_crash` | `RegisterNeverCrashes` | `expires->ivalue` with no Expires header |
| `sup_leak` | `NoPathLeaks` | `dealTaskThread` returns without freeing the `threadParam` of a request that is not a REGISTER (`notes/pjsip/pjsip初始化_SipCore.md:384`: no path leaks) |
| `sub_lost` | `RetriedWhenLost` | `registered` is never cleared: after a failed refresh the platform is never tried again |
| `conf_nodes` | `EveryNodeFaithful` | `sip_subnode_id1` answers for `sip_subnode_id10`: nodes 10 to 19 are copies of node 1, 20 to 29 of node 2, and so on |

Modelled as well, without a run of their own:

* `GlobalCtl::init` drops the result of `InitSip` (`GlobalCtl.cpp:54`), so that main
  goes on without a SIP stack, where `main.cpp:85` means to stop with "init error".
* `SIP_FORBIDDEN` is 404 (`SipDef.h:12`), where
  `notes/pjsip/GB28181注册_REGISTER_SipRegister.md:275` and `:284` say 403.
* A clone that failed in `onRxRequest` (SUP `SipCore.cpp:38`) is a null pointer in
  the thread of the request (`RunWithoutData`).
* `InitSip` returns true, and no event thread runs, when its pool is NULL
  (`SipCore.cpp:192`): the one failure that does not reach `status`.
* The event thread ends on the first polling error (`handle_events_fails`), where
  the comment at `SipCore.cpp:189` speaks of 7 x 24 hours.
* A name cut short in the configuration file answers for every name it begins (`Cut`
  in `MCStartup`; `KeysFaithful` and `NodesFaithful` are about the other files).
* A text missing in the configuration is whatever the stack held (`readStr`), so
  the tests for an empty text in `ReadConf` need not catch it.
* A 2xx that grants 0 seconds arms no refresh timer, although `client_cb` sees a
  200 (`SilentOnlyIfTold` makes the exception).
* When a 423 names the interval that was granted last, `set_expires` drops the
  Expires header, and the comparison meant to end the repetition
  (`sip_reg.c:1269`) is not made: such a registrar is asked again for ever.
* A refresh whose send fails inside the call reports twice: 503 from the callback,
  then 400 from the timer function.
* A disconnect that is posted between the first send and the start of timer F, on
  the timer thread, is overwritten by timer F: the transaction ends with 408 after
  32 seconds instead of at once.
* A transport error posted when the transaction is TERMINATED takes the place of
  the timer that was to destroy it, and is ignored: the transaction is left behind
  (`lost`, the exception in `AlwaysDriven`). A first send that is refused before
  anything was tried leaves one in NULL. The user has been told in both cases.
* A flag (resched, send) set while a repetition is pending in the transport is not acted on
  by `transport_callback`; timer F ends the transaction all the same.

### Fairness

* Pool: weak fairness of every worker and poster step (threads are scheduled and
  `run()` returns), strong fairness of the successful `sem_wait`: a signal may
  interrupt it, but not each time. The mutex is held for a few statements only.
  No fairness of `createThread` or of calls to `postTask`.
* SUB: weak fairness of the timer thread as a whole and of PJSIP's events per
  client (a transaction always ends, at the latest with 408); each call may fail
  for ever. `Reachable(n)`, strong fairness of the successful outcome of each call
  for platform n, is a hypothesis of `EventuallyRegistered` and, so that the
  counterexample is not a network that is down, of `RetriedWhenLost`.
* Registration client: weak fairness of both threads, of the refresh timer and of
  the end of a transaction (which `RequestContract` promises). Nothing is assumed of
  the answers: a registrar may send 423 for ever, and `EveryRegisterTold` says that
  the code ends that repetition by itself, except where the Expires header it needs
  for the comparison was dropped each time (`HeaderDropped`).
* Registration: weak fairness of SUB's threads, of the transaction's timers and of
  the transport's completion of a send. Nothing of the network and nothing of SUP;
  `ListRefilled` has the hypothesis that SUP is not restarted for ever.

## Proofs

The theorems hold for every value of the constants that meets the `ASSUME`s of
the modules, which TLC evaluates on the instances of the runs:

* any finite sets of workers and clients, any tasks; any list, any requests and
  any number of deliveries; any list of upper platforms; any number of nodes;
* any answers with a final code and intervals that are numbers or missing, any
  configured interval above 0 or none, any positive values of the library's three
  times (`RegClient`);
* any positive timers with `T1 <= T2` and `T4 <= TimerF` (`ClientTransaction`; in
  the code 500 ms, 4 s, 5 s and 32 s). `T4 <= TimerF` is only needed for the type of
  the time left;
* a clock that, with one period added, fits the unsigned difference (`TaskTimer`);
* any number of entries, scheduled in any order, any size the heap is created with, any
  times (`TimerHeap`);
* any file, with any names between brackets (none at all, too) and before `=`, and any
  spelling in which none of the program's names begins another (`LocalConfig`).

Each proof module states an inductive invariant `IInv`; `Invariance` is
`Spec => []IInv`, and the listed theorems follow from it.

**ThreadPoolProofs.** `IInv` is `TypeOK`, `QueueMutex`, `LocalsOK` and
`PermitsMatchQueue`. `PermitsMatchQueue` counts threads: a step moves one thread
into or out of `Awake` or `Unsignalled`, or changes the semaphore or the queue by
one, so each action changes both sides by the same amount (the cardinality lemmas
add or remove one element). It needs `LocalsOK`, which says that a thread in
`postTask` has a task as its argument and a worker that runs, deletes or posts has
a task in hand. `TypeCorrect`, `Mutex` and `NoLostWakeup` are its parts;
`WokenWorkerFindsTask` follows because a worker in `take` is in `Awake`, so that
the queue is not empty.

`RunsOnce` counts places that refer to a task. `OnceInv` adds that no two places
(posting threads, queue positions, workers) refer to one task, that what they
refer to has not run unless its worker is at the `delete`, and that a task that was
handed over and not deleted has a place. `EachTaskOnce` follows from it, and so does
`Refinement`: a push is a `Put`, a pop a `Get`, the delete a `Finish`, anything else
leaves the abstract queue alone.

**SupServiceProofs.** `IInv` is `TypeOK`, `PathOK`, `HeapAccounted`
and `OrderOK`. `PathOK` ties each thread's position to what it
has: its request, its response buffer, its status code and the lookup that gave
it. `OrderOK` says that an entry's last writer is past `setExpires`, that a thread
past `setExpires` with a 200 has its entry written, and that this entry's last
writer was not answered before the thread's request arrived; without the last two
neither `AnswerMatchesList` nor `AnsweredInOrder` is inductive, since both speak
of answered requests only. `AnswersMatchList` also needs the lemma `ParsePlain`:
for a sender without display name and of the right width, `parseFromId` returns
exactly the user. `Linearizable` shows that the threads implement `Registrar`, where
an id has one value and a REGISTER one moment at which it takes effect: `setExpires`
is that moment for a known sender, `checkIsExist` for an unknown one, and the steps
around them leave the registry alone. An id stands for the first entry with it
(`FindFinds`), so that a duplicate in the list is not seen. Theorems:
`MemoryAccounted`, `AnswersMatchList`, `OrderKept`, `Linearizable`.

**SubServiceProofs.** `IInv` is `TypeOK`, `CurOK`, `NoRegcAbandoned` and `LateOK`.
`OneLateRegister` speaks of a count only. It is kept because `RegisterProc` passes
its test of `registered` only while the flag is not set, and a late client exists
only when it is (`LateOK`). `CurOK` says when `gbRegister`'s local variable is a
client. Theorems: `TypeCorrect`, `NothingAbandoned`, `AtMostOneLate`.

**RegClientProofs.** `IInv` is `TypeOK`, `Shape`, `Control`, `Token`, `Reported`,
`Counted` and `RefreshInTime`. `Shape` lists the stacks that can occur: at most two
functions on the timer thread, three on the event thread, a callback inside a send
only with 503. `Control` says that the timer thread is alone with the client until
its REGISTER is out, and who holds the lock. `Token` is the heart: the next thing to
happen is the business of a transaction, of the timer or of a function on a
stack, and of one of them only. `OneRegisterAtATime` and `NeverUsedFreed` follow
from these, `NeverSilentUntold` with `Reported` (what `client_cb` was told last, and
that it was told something), `CounterBalanced` with `Counted`
(which counts by position in the stack, since the number of frames in a set of
unknown shape is not something the provers can sum). `KeepsContract` shows that
each step is one of `RegcContract` or leaves its phase alone.

**RegistrationProofs.** `IInv` joins `Typed`, `Sending`, `Timing`, `Silent`, `Codes`,
`Posted`, `Source`, `Returned`, `Schedule` and `Counted` to the three invariants to be
proved. The
assertions of `sip_transaction.c` hold because of what the handlers leave each
other: `Sending` ties the pending send to `attached`, the transport and the flags,
`Timing` names the timers that can run in a state. The one argument that leaves the
transaction is `Silent`: until the first send is finished nobody has heard of the
REGISTER, so no answer to it exists, so `send_msg_callback` never reschedules an
answered request. `Posted` says that a transport error the event thread has seen
without the lock still finds a transaction that has not ended. `Source` traces each
200 and each `SIP_FORBIDDEN` from the thread of SUP through the network to the code
of the transaction. `Counted` gives every reference to the group lock its holder, so
that the memory is freed exactly when there is none: the transaction until it is
destroyed, each timer, the send, and the callback of a posted error while it waits for
the lock. The functions of the source are first described field by
field (`UtilEffect` to `SendAgainEffect`), the handlers are proved from these
descriptions. `SendsBounded` compares the number of sends with a recursive function,
the times of RFC 3261's schedule (`SendTime`). `Schedule`, the invariant it needs,
says that every copy but the first was counted, that some time `e` has passed since
the first send which, with what timer F has left, is at most `TimerF` (`Since`), and
that no repetition was counted before its time in `SendTime`, nor will the next be. Theorems:
`HandlersSound`, `AnswersForThis`, `NeverStuck`, `SendsWithinRFC`, and
`KeepsRequestContract`, the part of `RequestContract` without its fairness.

**TimerHeapProofs.** `IInv` says that `ht` is a heap of exactly the scheduled entries
(`HeapOf`): each of them in one slot, its id leading there, no slot due before its
parent, the other ids a chain from `freelist` to one past the array, and room for one
more entry. The chain is a function on its positions that is said to exist;
`ChainPops`, `ChainPushes` and `ChainGrows` give the one after each operation. The
walk of `reheap_up` and `reheap_down` has no bound. `PassedUnfolds` and
`PassedIsLeast` show that the slots it passes are the least set that has the first
slot and is closed under `next`; `PassedIsPath` that they are a path with one end,
because the slot falls, or rises to the end of the array. What moving a node along a
path does is then shown once for both: no node is lost or doubled (`ShiftHolds`), the
ids follow (`IdsFollow`). `UpOrders` and `DownOrders` give the order: in a heap that
is in order but for one slot, the times are in order again after the walk. For
`remove_node` this needs both: the node goes down only if it is not due before the
parent of the slot, and up only if it is, and then the slot's old children are due
after that parent. Nothing ties an
entry to an id: `IdOK` only says that scheduled entries have different ids inside the
array. `HasRoom` reads from `HeapOf` that there is room whenever an entry is to be
scheduled, which is part of `HeapIsQueue`, since a refused call would change nothing.
Theorems: `HeapSound`, `HeapIsQueue`.

**TaskTimerProofs.** `IInv` is `TypeOK`, `Paced`, `InStep` and `Stopped`. The lemma
`DueMeans` evaluates the unsigned comparison of `timer`: not due exactly while the
clock is ahead of `lastTm` by less than a period. `Paced` bounds the time since the
last callback by its duration, one period for each time the clock was set back,
and the progress the clock shows. Theorems: `StopsAfterOne`, `KeepsCalling`,
`KeepsDistance`.

**StartupProofs.** `IInv` is `ReadInv`, `Sound` and `OrderOK`. `ReadInv`, about the
part of `LocalConfig`, is `ReadTypeOK`, `Progress`, `KeysOK` and `NodesOK`. The lemmas
`SectionExact`, `HitsOfWord` and `HitsOfNode` say when the comparison of beginnings
finds exactly the lines of a name: in a file whose names are spelled out
(`SpelledOut`), for every section and mandatory key, and for nodes with one digit
(`conf_nodes` shows that it fails for two). Two beginnings of one name begin each other
(`PrefixesCompare`), so a name of the file that begins a wanted one without being it
would be a name of the program that begins another. `Progress` says that the nodes
are read after the keys. `OrderOK` is the order of main's statements: the event thread
is started by the last call of `InitSip`, when the list is complete. Theorems:
`KeysReadFaithfully`, `NodesReadFaithfully`, `ServesOnlyComplete`.

Recursive functions (`SendTime`, `Passed`, the stack of `FreelistSound`) are proved
about without an induction rule, which the provers cannot instantiate. That the
function exists is shown by giving a solution of its equation, or by extending one
step by step; a property of all its values, by taking the least counterexample
(`Least`, from the well-foundedness of the naturals).

Every invariant and every action property of a passing run is stated by a theorem.
Only model-checked: all liveness and everything that needs `ENABLED`, hence also the
fairness of `ImplementsRequest`.

## Not modelled

* The text of SIP headers (`SipMessage`), logging, the scoped lock as an object,
  `ECThread` beyond success or failure of `createThread`.
* `parseXmlData`, `~SipCore`, `~ThreadPool`, the unused functions of `ECThread`:
  nothing calls them.
* Authentication, the expiry check and the `registered`/`lastRegTime` bookkeeping
  of SUP: commented out in the source.
* The characters of a line of the configuration file (spaces, comments, `atoi`) and
  the file's 10 KB limit.
* A failing allocation in `grow_heap` (`timer.c:260`), which the code does not test.
* PJSIP beyond the three parts named above: transports, parser, endpoint and event
  queue appear as outcomes of calls; server transactions, INVITE, dialogs, media,
  PJSUA and the language bindings make up most of `src/3rd` and are never called.
  Of `sip_reg.c` credentials, unregistration and contact updates are left out, as
  SUB uses none of them; a program that destroyed a client from a second thread
  would need a larger model.
* Memory that `SubService` loses with idle registration clients: a client is never
  destroyed once its REGISTER was sent (SUB `SipRegister.cpp:130`).
* Running out of threads: SUP starts one detached thread per request, without a
  limit (`SipCore.cpp:44`).
* Lifetimes of C++ objects that a detached thread still reads: `~TaskTimer`
  (`TaskTimer.cpp:15`; SUP's timer is never started, SUB's lives as long as the
  process) and the local `desc` that `pj_thread_register` keeps (`TaskTimer.cpp:59`).

## Plan

All modules above are written, every invariant, action property and refinement the
runs check is proved (without the fairness of `RequestContract`). What could follow:
SUP's authentication and expiry check, once they are no longer commented out in the
source, as actions of `SupService` and `Registrar`.
