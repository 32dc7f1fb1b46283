# A verification of pytealet

TLA+ models of the cooperative runtime in this repository, the TLC runs that
check them on small instances, and TLAPS proofs for every size. The models are
translated from the source, and `PROJECT.json` names for every definition the
lines it stands for. Paths below are relative to
`packages/tealetio/src/tealetio/` unless they say otherwise.

## 1. The system

pytealet has four layers.

| layer | where | what it does |
| --- | --- | --- |
| tealets | `src/_tealet/*.c`, `libtealet` | coroutines by stack slicing: run, switch, throw, the choice of who runs when one ends |
| runtime | `scheduler.py`, `tasks.py`, `locks.py`, `taskgroups.py`, `runner.py`, `asyncio.py` | tasks over tealets, the driver loop, timers, callbacks, synchronisation, structured concurrency |
| IO | `io_waiter.py`, `io_manager.py`, `proactor.py`, `delivery.py`, `io_buffers.py`, `readiness.py`, `selector.py`, `wakeup.py`, `streams/` | operations that complete in other threads, and what waits for them |
| ring | `packages/uring_api/src/_uring_api/*.c` | io_uring submission and completion, send_all, buffer groups |

`packages/tealet-greenlet` emulates greenlet over the first layer. Profilers,
diagnostics and examples stand beside the rest.

### How the parts interact

One OS thread owns a scheduler and exactly one tealet runs on it. A task gives
control away at a park (`yield_`, `sleep`, a wait on an `Event`), at a throw
(`cancel`, a timeout), at a transfer (`run`, `yield_to`, an eager spawn) or when
it ends. There is no central dispatcher: `_find_target()` picks the successor
out of the runnable queue, and the driver loop is a tealet in that queue like
the others. Everything that waits (locks, conditions, queues, channels, task
groups, IO waiters) waits on an `Event`, and an exception may be thrown into it
at every such point. Other threads reach the scheduler only by
`call_soon_threadsafe()` and `call_on_scheduler()`, which append to a deque and
then wake the driver.

### Inventory

| part | state | operations that change it | what makes it hard |
| --- | --- | --- | --- |
| runnable queue | `_queue` | add, pop, remove, reschedule, swap position | positions relative to either end, next to a moving queue |
| priorities | heap, owned locks | set priority, inherit, release | a priority changes while its entry is in the heap |
| scheduler | `_runnable`, `_ready_callbacks`, `_timers`, `_n_scheduled`, `_target_count`, `_stopping` | spawn, yield, sleep, transfers, throw, callbacks, timers, the batch, stop | direct switches, throws that displace waits, another thread posting at any time |
| task | state, `link`, `exc_target` | start, throw, cancel, exit | exit redirects control |
| Event, Timeout | `_waiters`, `_is_set`, timer handle | wait, set, clear, arm, leave | wake, throw and timeout of one task in one drain |
| Lock, Semaphore | `_locked` or `_value`, `_waiters` | acquire, release | a woken waiter has not got the lock yet |
| Condition | waiters, lock | wait, notify | the reacquire can be interrupted |
| Barrier | `_count`, `_generation`, waiters | arrive, leave | an arrival is undone |
| Queue | items, getters, putters, `_unfinished_tasks` | put, get, task_done, join, shutdown | wakeups that meet an interrupt |
| TaskGroup | `_tasks`, `_aborting`, `_exiting`, `_errors`, `_done` | spawn, start, end of a child, abort, join | eager children run inside spawn; aborts are queued |
| Channel | `balance`, waiters, `preference` | send, receive | hand-off switches to the peer in the middle of the call |
| wakeup managers, cross-thread events | tokens, flags, waiters | wakeup, wait, poll, notify | threads, read and clear in two steps |
| futures and combinators | result, callbacks, waiters | set, cancel, gather, wait, wait_for | callbacks that cancel |
| hosted scheduler | host task, wake futures | turn, await_, deferred host wakeups | wakes are queued, not applied |
| Runner | interrupt count, SIGINT handler, current scheduler | run, SIGINT, close | a signal between any two steps |
| IO waiter, chain | `_completion`, `_closed`, `_legs` | new_leg, follow, finish, wait, cancel | legs complete in other threads |
| delivery, receive buffer | `_delivered`, heap, `_ready`, `_current_operation` | deliver, resubmit, take, close | reordered completions, pool pressure |
| send buffer | pending, in flight, `_active`, EOF flags | write, drain, flush, write_eof, completion | reserve under a lock, submit outside it |
| receive pools | free list, checked-out ids, `_closed` | checkout, return, close | `in_use()` is asked outside the lock |
| readiness table | watches, generations, stored masks | register, arm, deliver, wait | late deliveries, edge and level users of one fd |
| selector proactor | slots, write queues, registrations | submit, complete, cancel | cancel against completion, callbacks under a re-entrant lock |
| uring proactor | prepared requests, poll legs, reorder buffers | prepare, submit, reap, stop, close | two service threads, a driver that parks |
| selector scheduler | slots of a descriptor, the break socket | wait, select, wake | stale and doubled callbacks |
| asyncio on tealets | marks, self-pipe, futures | register, select, complete | two loops, each the other's guest |
| connect | attempts, sockets, the winner | start, fail, connect, cancel | a race whose losers end late |
| stream server | accept loop, handlers | accept, deliver, close, wait_closed | deliveries after the close |
| TLS stream | two BIOs, the inner reader and flush | handshake, read, write, unwrap, close | two tealets share each direction |
| ring | in-flight references, fd slots, FIFO | prepare, dispatch, send_all legs, cancel | several threads under the ring section |
| tealet core | state, lineage, throw registry | run, switch, throw, duplicate, thread teardown | exceptions registered before a transfer that may fail |
| greenlets | parents, pins, garbage list | switch, throw, `__del__` | a call is resumed by somebody else than it switched to |

`PROJECT.json` lists every part with its status ("components") and the places
where each can go wrong ("hazards").

What correctness means here, in the order of importance we gave it: no task and
no wakeup is lost; the driver can always be reached; a wait ends for a reason;
mutual exclusion and counts are kept under interruption; structured blocks are
left when their children have ended and with the right exception; data handed
over arrives at most once and its sender knows; queued work is eventually done.

## 2. The modules

| module | models | state and actions |
| --- | --- | --- |
| `RunQueue` | `FifoRunnableQueue` (`scheduler.py` 161-213) | operators on sequences: `Add`, `PopNext`, `Discard`, `Reschedule`, `YieldTo`, with the code's clamping of positions |
| `Scheduler` | `BaseScheduler`, `BaseDrivingMixin`, `BasicScheduler`, `Task`, `Event`, `Timeout` | below |
| `Hosting` | `AsyncScheduler`, `AsyncRunner`, `await_()` | the driver as a coroutine of an asyncio loop; below |
| `Runner` | `BaseRunner`, `Runner` | what `run()` and `close()` do to the handler of SIGINT and to the current scheduler, a signal between any two steps |
| `Priority` | `PriorityRunnableQueue`, `PriorityTask`, `PriorityLock` | tasks that take locks, yield, are cancelled and change priority; the heap with the priority each entry was inserted with |
| `Futures` | `Future`, `Shield`, `gather`, `wait`, `wait_for`, `as_completed`, `run_in_executor` | one combinator (`kind`) over a plain future, a task and a call in an executor |
| `Locks` | `Lock`, `Semaphore`, `BoundedSemaphore` | `kind` is the class, chosen at the start; tasks acquire, are woken, run, are interrupted, release |
| `Condition` | `Condition` | extends `Locks` with wait, notify and the reacquire |
| `Barrier` | `Barrier` | arrive, resume, interrupted wait |
| `SyncQueue` | `Queue` | put and get with the wait loop, task_done, join, shutdown, interrupts |
| `TaskGroup` | `TaskGroup`, `_StartStatus` | below |
| `Channel` | `Channel`, `_PacketEvent` | send, receive, hand-off, aborted waits |
| `CrossThread` | `CrossThreadEvent`, `CrossThreadCondition` | producer threads publish under a `threading.Lock` and notify, tealets wait |
| `Wakeup` | `TokenHandoffWakeupManager` | wakeup, wait, timeout, interrupt, poll: one step per critical section |
| `WakeupFlag` | the protocol `WakeupManager` | the abstract latch `Wakeup` is shown to implement |
| `EventWakeup` | `EventWakeupManager` | a flag of threads and one of an asyncio loop, one step per access |
| `IOWaitChain` | `IOWaiter`, `IOWaitLeg`, `IOWaitChain`, `iowait_or_dispose` | a task that waits, is interrupted and cancels; legs that complete in a worker |
| `SelectorProactor` | `SelectorProactor`, `ThreadedSelectorProactor` | below |
| `UringProactor` | `UringProactor`, `ReorderBuffer`, poll_many handles | below |
| `Readiness` | `ReadinessTable`, `Poll`, `Epoll`, `select` | one descriptor, one subscription, two objects that use it, the deliveries on their way |
| `SelectorScheduler` | `SelectorMixin` and its two schedulers | tealets in the slots of a descriptor, the select of the driver, queued callbacks |
| `ForwardingSelector` | `ForwardingSelector`, `run_asyncio_in_tealet` | an asyncio loop that selects on a tealet scheduler |
| `ForwardingProactor` | `ForwardingProactor`, `TealetProactorEventLoop` | an asyncio loop whose futures are operations of a proactor |
| `RecvPoolCache` | `RecvBufferPoolCache`, `SyntheticRecvBufferPool` | streams as threads that take pools and give them back |
| `RecvBuffer` | `RecvIterBuffer`, `ReorderBuffer`, `PulseEvent`, `ReaderCore` | legs that deliver numbered chunks, the reader that takes them, the pool |
| `SendBuffer` | `SendBuffer`, `WriterCore` | write, drain, flush, write_eof, close, wait_closed; legs with and without a completion |
| `Connect` | `connect_tcp`, `open_connection`, `sock_create`, `sock_fastopen` | attempts as children of a group, each a chain of operations |
| `StreamServer` | `Server`, `StreamServer`, `accept_sockets`, `run_accept_loop` | the accept loop, deliveries on a thread, handlers, close and wait_closed |
| `SSLStream` | `SSLStream` | a tealet that reads and one that writes, two BIOs, the turns at the inner streams |
| `Tealet` | `src/_tealet/pytealet.c`, `pytealet_throw.c` | below |
| `Greenlet` | `packages/tealet-greenlet` | calls of `_switch_or_throw()` as frames on the stack of each greenlet; death, parents, `__del__` |
| `RunQueueProofs`, `SchedulerSwitchProofs`, `SchedulerDriverProofs`, `SchedulerProofs` | | lemmas and theorems |
| `MCScheduler`, `MCSync`, `MCTaskGroup`, `MCTealet`, `MCSelectorProactor`, `MCIO`, `MCStream` | | the instances TLC checks, section 3 |

**Scheduler.** `cur` is the running tealet, `pc` the place of the driver loop.
`runnable`, `waiters`, `ready`, `timers` are the lists of the code, `link` the
task's `link`, `inflight` its `exc_target`. `due` holds the timers
`_run_ready_timers()` has popped and not yet run, since one of them may switch
away. A step of a task is one operation up to the switch that ends it, because
nothing else runs on the owner thread in between; the driver loop is split at
every point at which a callback, a timer or a task may switch away, and around
the blocking wait, where the other thread (`Post`, then `Signal`) interleaves.
`Ops`, `CbOps` and `Mode` choose what an instance does: all three drivers
(`run`, `run_forever`, `run_until_complete`) are the same actions under a
different `ShouldTerminate`. The counter of transfers is only compared with the
batch's cap, so it saturates above it.

**Hosting.** The asyncio loop, the coroutine of the driver and the tealets share
one OS thread. The driver runs a batch and awaits `_wakeup`; while it is
suspended the loop runs done-callbacks, which wake tasks through
`_defer_host_wakeups`. A second thread posts a cancellation, and SIGINT arrives
between any two steps except inside the loop's own `select()`, where asyncio's
handling of it is external. A task that lets `KeyboardInterrupt` or
`SystemExit` out ends the loop (`fatal`). Mode "runner" is
`AsyncRunner.run(Target)` and then `aclose()`, mode "idle" is one `arun()`.

**The primitives over Event.** `Locks`, `Condition`, `Barrier`, `SyncQueue`,
`Channel`, `Futures`, `Priority` and `TaskGroup` do not repeat the scheduler. In
them a task that is runnable may run next: every order the scheduler can produce
(FIFO, priorities, `yield_to`, throws) is included. One action is what a task
does between two parks, with everything that stretch of code does. Where a
property holds only while something has not happened, the model remembers it in
a variable that nothing reads but the property (`barged`, `dropped`, `bared`,
`left`, `interrupted`, `past`, `lost`). What happens then is under
"Disagreements".

**TaskGroup.** Eager children run inside `spawn()`, throws run the target
before the thrower, and done callbacks run inside the child's exit, so control
is a stack: its top runs, and an action pushes, pops or replaces it. The abort
of the children is a loop with a switch in each turn, and `AbortChild`
is one turn of it.

**SelectorProactor.** Two threads, the program's and the worker's, share a
re-entrant lock, and callbacks run with it held and call back into the proactor.
Each thread therefore has a stack of frames, the innermost call first; a step is
the code up to the next callback, lock operation or loop test, and the frames it
pushes are what the function has still to do. `slot`, `queue` and `reg` are
`_FdEntry` and the selector's registration. `order` and `log` remember in which
order writes were called and reached the kernel. Left out: a callback that
raises (it ends the worker), `close()` from inside a callback, a stream whose
callback cancels it on its last result, and `OSError`s of the selector.

**UringProactor.** The scheduler's thread prepares requests and parks, service
threads reap completions and queue deliveries for it, and the scheduler orders
those of a stream. The ring (`uring_api` and the kernel) is external, with the
contract the proactor relies on: a prepared request starts when some thread
submits it, a stopped one posts an error, and a service thread that leaves
prepared requests behind submits them once the driver announced its wait. A
stream is multishot, single, or a poll emulated by a chain of single legs under
`_multi_leg_lock`.

**Readiness, SelectorScheduler, Forwarding.** A call runs on the scheduler's
thread until it parks, and is one step; the kernel raises and drops readiness
and posts deliveries at any time, also for a subscription that is gone. Masks
are sets of bits. `SelectorScheduler` has one callback in a slot: as with
asyncio, a program has one tealet wait for a direction of a descriptor. In
`Readiness` a `register()` on an object whose owner is inside a call is left
out. In `ForwardingProactor` the queue and the self-pipe of the loop are
external (asyncio).

**Tealet.** One thread: `current`, the state of each tealet, the registry of
pending exceptions (`pending`, `inflight` and the records behind the tokens) and
what Python code holds. An action is one call of the C API up to the switch,
with what the tealet that is switched to does on arrival: the trace hook, the
pending exception, the panic. Switches may fail, as `tealet_switch` may for
want of memory. `thread_kill()` is one pass with `TealetExit`. Greenlets are
checked over what `Tealet` promises of a throw and of a death.

**RecvBuffer and SendBuffer.** Both run on the scheduler, so a call up to a park
is a step; what other threads do is the delivery of chunks (`transit`, out of
order) and the error of a send without a completion. A leg of the send buffer is
reserved under the lock and submitted after it: `hand` is the call that is in
between, where that error can strike. A chunk and a written byte are numbers,
which is what order needs. The pool of the reader is its own or `shared` with
streams that lease what they like. `overtaken` remembers that a leg ended with
data and `close()` came before its last delivery, `stranded` that a small write
was held back while a tealet waited. An interrupt of a parked reader or writer
is left out.

**SSLStream.** The tealets switch only where one parks. OpenSSL, the inner
streams and the peer are external: a record is a kind and a number, OpenSSL asks
for ciphertext from a read or, while it renegotiates, from a write, and a memory
BIO never asks for a write. As `docs/SSL.md` requires, handshake and close are
called while the other tealet does not use the stream.

## 3. The runs

An `MC` module puts several instances into one specification: a variable that
the initial state sets and no step changes (`workload`, `object`, `program`,
`part`) says which instance a behaviour belongs to, the variables of the others
keep their first value, and each property is stated of the instances it is
about. Liveness is stated in columns: `Waits(k) ~> WaitOver(k)` is one leads-to
per k, and a behaviour, which is about one instance, gives it that instance's
meaning. Likewise the k-th fairness condition is the k-th of every instance.
Every passing run has, for every property, a mutant in `PROJECT.json`: a
plausible slip in one of the mapped definitions, under which TLC refutes the
property.

| run | instances | what it shows |
| --- | --- | --- |
| `scheduler` | 3 tasks under `run()` (events, sleeps, cancels, spawns, a thread that posts); 3 tasks with every explicit transfer and `yield_every` 1; 2 tasks under `run_until_complete()` with timeouts of waits or of sleeps, and cleanup; 2 tasks under `run_forever()` and `stop()` | links and lists agree, the driver is reachable, no task or wakeup is lost, batches are bounded, waits and sleeps end only for a cause |
| `scheduler_live` | 2 tasks, `run_forever()`, a thread that posts and stops, fairness; a scheduler hosted by asyncio, 2 tasks with 2 and 1 operations, 1 post, 1 SIGINT | callbacks and tasks run, `stop()` ends the loop; a hosted driver does not sleep over work, and `arun()` and `aclose()` end with no task left |
| `sync` | `Lock`, `Semaphore`, `BoundedSemaphore` and `Condition` with 3 tasks; `Barrier` of 3 with 4 tasks, 2 generations; `Queue` of 2 with 3 tasks, 4 puts; `Channel` with 2 tasks and a coroutine, 2 sends; the eight combinators over an executor call, a task and a plain future | exclusion and counts under interruption; no wakeup, item, place or packet is lost; a combinator answers what is true of its children; every wait ends |
| `group` | 3 queued children and 1 interrupt; 2 eager children, children that cancel the parent, 2 interrupts; 3 tasks with 2 priorities and 2 locks; 2 runners and 3 calls of `run()` | the block is left after the last child, with the errors and the interrupt it owes; the heap follows every change of a priority; SIGINT is reported, handler and scheduler are put back |
| `tealet` | 3 tealets, 3 throws; or 2 throws and queued exceptions with a trace hook; 2 greenlets and main, calls 3 deep | an exception is raised in its target, its death goes to the thrower; the registry holds exactly what is owed; an exited tealet stays so; parents, pins and garbage of greenlets agree |
| `proactor` | 1 descriptor: 3 sends and a shutdown, or three of reads, polls and a connect, 1 cancel; or the readiness table with a poll object beside an epoll object (edge or one-shot) or a `select()`, 3 subscriptions | one result for each operation, none lost; writes in order; the selector follows the table; the subscription covers who waits, answers are true, and who is due is woken |
| `io` | the token manager with 3 signallers and 4 tokens; the event manager with 2 and 4 calls; 2 tealets and 2 producer threads, 2 items; an IO chain of 3 legs, with its resource made first or before, 3 interrupts and 2 retries; the selector proactor with a selector that does not see what is added during `select()`; the uring proactor with 2 service threads, 3 shots and a request without completion; the selector scheduler with 2 tealets; both asyncio loops on tealets; 2 streams and 2 pools with a cache of 1 | the hand-off implements the latch and lets signallers go; nobody sleeps over another thread's work; a cancel reaches the leg that runs, nothing leaks or is closed twice; uring streams are in order and end; what is ready is served; a pool has one holder |
| `stream` | a reader of 3 chunks over a pool of 2; a writer used by 2 tealets, 4 writes, `min_write` 2 and two pairs of water marks; a server with 2 connections and 2 accept errors; a connect to 1, 2 or 3 addresses of two families, one at a time or raced; a TLS stream with 3 calls and 1 fault | chunks arrive once and in order over all legs; bytes leave once and in order, SHUT_WR and close behind them; a closed server is drained; one socket survives a race; whoever waits returns |

The bounds. Three tasks give every interaction a wait can have: the waiter, the
one that wakes it and the one that interferes. The barrier of three gets four
tasks, so that one can arrive early for the next generation. Two ticks
order two timers, and leave one to fire with another still armed. Two posts let
the second meet the wakeup flag the first has set. A queue of two is neither
empty nor full with one item. Three writes are one in flight and two behind it,
so that the drain of the queue can meet a new one. Three throws are one that is
in flight, one thrown by its target and one that meets a tealet already dead.
A pool of two runs out after two of the three chunks, and half of it is one.
Four writes are two legs that `min_write` starts, or one and two held back.
Three tasks with two locks make a chain of two owners, along which a priority
has to travel. Two service threads are enough to swap two completions, and the
third shot meets a gap of one. Two pools and a cache of one have one return
refused. Three addresses of two families are the least where interleaving the
families changes the order. Calls of greenlets three deep let
the middle one be resumed by a stranger. With one descriptor and three
generations of its subscription a delivery of an old one meets a newer.
Where a cfg declares a symmetry, tasks, children or tealets are told apart by no
definition and the run checks invariants and action properties only; liveness
is checked without.

### Disagreements

Four runs are expected to fail. Each states what a docstring or a document says
and shows a behaviour of the code that does otherwise; the findings in
`PROJECT.json` quote the sentence.

| run | what happens |
| --- | --- |
| `lock_barge` | a woken waiter takes the lock without looking whether somebody took it first; a semaphore does the same with its slots |
| `group_orphan` | an eager child that cancels its parent is not joined |
| `stream_close` | a leg has ended with data, its last delivery is on the way, and `close()` cancels what is over: the reader gets the data and then waits for ever |
| `runner_close` | a task that raised `KeyboardInterrupt` left the driver's tealet in the runnable queue; the first `cancel()` of the shutdown fails an assertion, and the other tasks are not drained |

The models show more of them, which the passing properties leave out by the
condition in the last column. Most of those over the scheduler, the locks and
the task group were also seen by running the real package.

| where | what happens | left out by |
| --- | --- | --- |
| `tasks.py:456` | a task that ends with a thrown exception resumes its thrower, which may be inside an unrelated `Event.swait()` by then: it returns with the event not set | `GoesTo` in `ParksEndForCause` |
| `scheduler.py:2347` | transfers made by callbacks count against the batch, which may then run no task | nothing is claimed of a batch's minimum |
| `locks.py:472` | a woken waiter that is interrupted keeps the wakeup, and the next one sleeps beside a free lock; a priority lock does the same | `dropped`; nothing is claimed of who gets a priority lock |
| `locks.py:694` | an interrupted reacquire leaves the block without the lock, whose exit releases somebody else's | `bared` |
| `locks.py:873` | after an interrupt two parties of a barrier get the same index | `left` |
| `locks.py:595` | a priority lock that is free but has a woken waiter is taken by whoever asks, and a task whose priority changes while it is parked keeps its old place among the waiters | `past.barged`, `past.changed` |
| `locks.py:798` | `notify(1)` of a cross-thread condition to a tealet that is then interrupted is not passed on | `lost` |
| `taskgroups.py:185` | an eager child that spawns into the group leaves `_done` set, and the join spins | `part = "queued"` |
| `taskgroups.py:294` | an abort queued before another one throws into children that are cleaning up | nothing is claimed of the number of throws |
| `runner.py:236` | SIGINT between the install of the handler and the `try` is wiped by the reset of the count, and a second one leaves with the handler installed; so does one that arrives before the restore | `past.gap` |
| `runner.py:75` | runners closed in another order than they were opened put back a scheduler that is closed | `past.mixed` |
| `wakeup.py:109` | after an interrupted wait, `poll()` claims the token and leaves its signallers asleep | `interrupted` |
| `proactor.py:331` | the stop of an emulated poll that meets the handler of a leg reserves an index nobody delivers: the user sees no end of the stream | `Emulated` in `HandoffsEnd` |
| `proactor.py:2432` | a shutdown or close that found no write in flight runs after the lock is released, beside a send of another thread; `proactor.py:1955` says "Close ``sock`` after any in-flight send on this fd" | nothing is claimed of the order of a shutdown and a later send |
| `readiness.py:546` | `modify()` to a bit that is stored already wakes no caller parked on the object | `report.changed` |
| `io_manager.py:524` | a pool closed by its user and not given back leaves its id among the checked-out ones, and a new pool may have that id; a ring unregistered between the two questions is not seen | `past.reused` |
| `asyncio.py:315` | a result that arrives after its future was cancelled is dropped, a received buffer with it | nothing is claimed of a cancelled future's result |
| `asyncio.py:389` | every completion writes a byte to a self-pipe that is itself received through the proactor, so the loop does not come to rest; its receive stays in the host proactor after `close()` | nothing is claimed of a loop that idles |
| `asyncio.py`, `ForwardingSelector` | a `register()` or `modify()` that fails half-way leaves a callback without a key, or a key without its callback | `past.broken` |
| `pytealet.c:3062` | a tealet that catches what was thrown at it and returns keeps the token, and the record keeps the exception alive | `RegistryExact` counts that record as owed |
| `pytealet.c:1736` | an exception queued for one tealet is raised in whichever runs next | `part = "throw"` |
| `io_buffers.py:458` | the last leg ends and notifies a tealet in `flush()`; before it runs, another writes less than `min_write`: it parks again and nobody sends | `stranded` |
| `streams/writer.py:139` | after a failed send `wait_closed()` raises out of `steal_pending()` and the socket stays open; `shutdown_stream_writer()` says errors propagate "after best-effort socket close" | `teardown = "done"` |
| `io_buffers.py:813` | a shutdown that raises when the last leg ends, or a chained submit that does, leaves the close that `wait_closed()` asked for undone | `sendError` in `StreamsEnd` |
| `streams/ssl.py:584` | `_flush_outgoing()` that waited for the other tealet's flush returns without sending what it had itself put into the BIO since; `docs/SSL.md` says a successful `write` "also flush[es] the outgoing BIO" | `past.skipped` |
| `streams/ssl.py` | a read that is cut short after OpenSSL took the plaintext loses it; a close that is cut short leaves the inner reader open | `past.lost`, `past.faults` |

### Fairness

`Scheduler`: the driver's OS thread goes on (weak fairness of its steps), a
running task parks or ends at some point (a cooperative scheduler gives nothing
to a task that never does), the other thread finishes the call it is in, and
time passes. Nothing is assumed of how often a task acts between two parks, nor
that anybody posts. `Hosting`: the one thread goes on, and asyncio completes the
futures tasks wait for. In `sync` a woken task runs, which `scheduler_live`
shows the scheduler to give, and a queued callback does; on top of that a lock's
holder releases it, and the tasks of a barrier go on arriving. Nothing is
assumed of callers of a queue that are not parked. In `io` the driver comes back
to its wait and a notified signaller runs; a thread that left work finishes its
call, a loop runs its callbacks; the threads of an IO chain go on, and an
operation that was cancelled ends; both threads of the proactor go on with the
calls they are in, and `select()` returns when there is something to return; of
the service threads of a ring one goes on. In `stream` the peer sends or ends,
deliveries reach the scheduler and the reader reads; a send completes and a
notified tealet gets its turn, whatever the others write meanwhile (strong
fairness, since a write may disable it for a moment, and the scheduler's queue
is FIFO); the tealets of a server and of a connect run, and operations of a
connect end or time out; under TLS the inner drain returns and the peer sends or
leaves. With a shared pool only a closed stream is claimed to end, because other
streams may keep every buffer (`packages/tealetio/docs/PYTHON_API.md` says so).

## 4. The proofs

`RunQueueProofs` proves what the queue operations do for every queue: the
members change by exactly the one element, order aside, and no element is ever
twice in the queue (`AddQueue`, `RescheduleQueue`, `YieldToQueue`, `PopQueue`).

`SchedulerProofs` (with its lemmas on the transfers of control in
`SchedulerSwitchProofs` and on the driver in `SchedulerDriverProofs`) proves for
any set of tasks, any driver, any `yield_every`, any positions and any bounds

| theorem | states |
| --- | --- |
| `TypeCorrect` | `TypeOK` |
| `LinksNeverDisagree` | `LinksAgree`: a task is on the list its link names, once, and on no other |
| `DriverReachable` | `MainReachable`: while a task runs the driver is in the runnable queue |
| `TasksNeverLost` | `NoTaskLost`: a started task that is not running is runnable, waiting or asleep with its timer |
| `WakeupsNeverLost` | `NoLostWakeup`: the driver does not block over runnable tasks, callbacks or a stop |

They rest on `Invariance`, that `IndInv` holds always. None of the five is
inductive by itself. That a woken task is on no list needs `LinksAgree`; that a
switch takes a sleeper's timer with it needs the uniqueness of timers
(`TimersUnique`); that a queued `cancel` finds a task that exists needs
`CallbacksNameTasks`; that the drain finds the callbacks it counted needs
`DrainBounded`; that a switch from the wrong place of the driver loop does not
happen needs `DriverSuspended`; and a thrower that redirects to itself is
excluded by `ThrowersDistinct`. The proof cuts `IndInv` into four parts: where
the tealets are (`Placed`), their timers (`Timed`), the driver (`Driven`) and
the remaining types (`Typed`). `FindTargetStep`, `SwitchPlaced`, `SwitchTimed`,
`ParkPlaced` and `ParkTimed` say once what a park and a direct switch do to
each, and there is one lemma for each action over them. The assumptions are
those of `Scheduler`: the driver is not a task, `None` is nothing else, `Mode`
is one of three, the bounds are natural numbers and positions are integers.

Only model-checked: `BatchesBounded`, the action properties, everything about the
other modules, the refinement of `WakeupFlag`, and all liveness (out of the reach
of the installed provers).

## 5. What is left out

Within the modelled parts: nested `Timeout`s of one task; the order of two
timers of one tick, which the models leave open; channels shared by two
schedulers; `shutdown_default_executor()`; `run()` of two runners at once; a
callback of the selector proactor that raises; interrupts of parked readers and
writers of a plain stream (`IOWaitChain` and `SSLStream` have them); `start_tls()`
on a pair that is in use; greenlets of more than one thread and their tracing.
The order of items in `PriorityQueue` and `LifoQueue`, the cutting of bytes into
lines, addresses and socket options are data.

Not modelled, and why:

- **The ring in C** (`packages/uring_api`): `UringProactor` has it as an external
  with the contract above. Its own hazards stay unchecked: the legs of
  `send_all` and the queue of conflicting operations on a descriptor
  (`uring_api_send_all.c:157`), the idle park, in-flight references, leases of
  buffer groups. They are a second system of about the size of the first, over
  the memory order of the kernel's rings.
- **Lineages and thread teardown** (`pytealet_lineage.c`): the life of C objects
  and interpreter threads, below what `Tealet` keeps.
- **Saved interpreter fields and frames**, **libtealet**: data of one CPython
  version, and stack slicing in assembler.
- **Stream diagnostics, profilers, kernel probes, typing helpers, benchmarks and
  examples**: counters, measurements and facades that nothing else depends on.
- **The facades of the IO manager** (`files.py`, `dns.py`, `sockets.py`,
  `poll_helpers.py`): each call forwards its arguments to one operation of the
  proactor and keeps no state; the operations differ in what they submit, and
  the protocol they share is in `IOWaitChain`, `SelectorProactor` and
  `UringProactor`.

Worth proving next: the bound of a batch, `ParksEndForCause`, `SlotsConserved`,
the queue's counts, `BalanceAgrees` and `AtMostOnce` of the channel, the
refinement of `WakeupFlag`, and the inductive invariant of the IO chain.
