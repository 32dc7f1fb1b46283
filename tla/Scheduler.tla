----------------------------- MODULE Scheduler -----------------------------
(***************************************************************************)
(* The cooperative scheduler of tealetio: BaseScheduler, its driver loop   *)
(* (BaseDrivingMixin) and BasicScheduler's wait, with the tasks it moves   *)
(* between "running", "runnable", "waiting" and "sleeping".                *)
(*                                                                         *)
(* One OS thread owns the scheduler.  Exactly one tealet runs on it at a   *)
(* time: cur.  Main is the tealet of the driver loop, and pc says where    *)
(* that loop is.  A task step is one operation of the running task, taken  *)
(* up to and including the switch that ends it.  A second OS thread posts  *)
(* callbacks; its two steps (queue, then wake) interleave with everything. *)
(*                                                                         *)
(* Time is counted in ticks.  Two timers of one tick may fire in either    *)
(* order: the code orders them by a finer clock and by a sequence number.  *)
(***************************************************************************)
EXTENDS Naturals, FiniteSets, RunQueue

CONSTANTS
  Tasks,       \* every task object the run may create
  Main,        \* the tealet that runs the driver loop
  None,        \* no task
  Ops,         \* the operations the tasks of this instance use
  CbOps,       \* what the callbacks of this instance do
  Mode,        \* the driver: "idle" run(), "forever" run_forever(), "until"
  Target,      \* the task run_until_complete() waits for
  YieldEvery,  \* the yield_every argument; 0 stands for None
  Positions,   \* positions passed to yield_to() and reschedule()
  MaxTime,     \* bound: the clock stops here, no timer is set later
  MaxReady,    \* bound: call_soon() is used while fewer are queued
  MaxPosts     \* bound: posts of the other thread

ASSUME MainAssumption == Main \notin Tasks
ASSUME NoneAssumption == None \notin Tasks \cup {Main}
ASSUME ModeAssumption == Mode \in {"idle", "forever", "until"}
ASSUME BoundsAssumption ==
  {YieldEvery, MaxTime, MaxReady, MaxPosts} \subseteq Nat
ASSUME PositionsAssumption == \A p \in Positions : p = AtEnd \/ p \in Int

VARIABLES
  cur,       \* tealet.current()
  runnable,  \* _runnable
  link,      \* task.link: "none", "runnable" (_RunnableLink), "event"
  state,     \* "new", "primed", "run", "done"
  inflight,  \* the thrower of the exception a task is unwinding, or None
  waiters,   \* Event._waiters
  isset,     \* Event._is_set
  ready,     \* _ready_callbacks
  timers,    \* _timers, without the cancelled handles
  due,       \* the popped timers _run_ready_timers still has to run
  now,       \* time()
  pc,        \* where the driver loop is
  ntodo,     \* callbacks left in this drain
  xfer,      \* _n_scheduled minus its value when the batch began
  cap,       \* _target_count minus the same value; 0 stands for None
  stopping,  \* _stopping
  wakeup,    \* BasicScheduler._wakeup
  poster,    \* the other thread: "idle", or "queued" before it wakes
  nposts     \* posts made so far

taskVars == <<cur, runnable, link, state, inflight, xfer>>
eventVars == <<waiters, isset>>
timerVars == <<timers, due>>
driverVars == <<pc, ntodo, cap, stopping>>
threadVars == <<poster, nposts>>
vars == <<taskVars, eventVars, timerVars, driverVars, threadVars,
          ready, now, wakeup>>

Tealets == Tasks \cup {Main}
Timers == [when : Nat, kind : {"wake", "timeout"}, task : Tasks]
Callbacks == [op : CbOps, task : Tasks \cup {None}]

On(op) == op \in Ops

\* The counter of transfers is only ever compared with cap, which is never
\* above this; it saturates here.
XferBound == Cardinality(Tasks) + YieldEvery + 1
Count(n) == IF n < XferBound THEN n + 1 ELSE n

CancelWake(hs, t) == {h \in hs : ~(h.kind = "wake" /\ h.task = t)}
CancelAll(hs, t) == {h \in hs : h.task # t}

(***************************************************************************)
(* Transfers.                                                              *)
(***************************************************************************)

\* A mutant: one transfer too many before the batch ends.
MutFindTarget(q, lk, st, limit) ==
  LET steal == limit # 0 /\ xfer > limit
      to == IF steal \/ q = <<>> THEN Main ELSE Head(q)
  IN  /\ cur' = to
      /\ runnable' = IF steal THEN Discard(q, Main)
                     ELSE IF q = <<>> THEN q ELSE PopNext(q)
      /\ link' = [lk EXCEPT ![to] = "none"]
      /\ state' = [st EXCEPT ![to] = "run"]
      /\ xfer' = IF steal THEN xfer ELSE Count(xfer)

\* _find_target() and the switch to what it finds, once the caller has
\* queued itself (q and lk are the runnable queue and the links it leaves,
\* st the task states).  A batch that has used up its transfers returns to
\* the runner; limit is 0 where that does not apply.  An empty queue means
\* the main tealet when a task exits; a task that parks with an empty queue
\* gets a DeadlockError and stays, which MainReachable shows cannot happen
\* under the driver.
FindTarget(q, lk, st, limit) ==
  LET steal == limit # 0 /\ xfer >= limit
      to == IF steal \/ q = <<>> THEN Main ELSE Head(q)
  IN  /\ cur' = to
      /\ runnable' = IF steal THEN Discard(q, Main)
                     ELSE IF q = <<>> THEN q ELSE PopNext(q)
      /\ link' = [lk EXCEPT ![to] = "none"]
      /\ state' = [st EXCEPT ![to] = "run"]
      /\ xfer' = IF steal THEN xfer ELSE Count(xfer)

\* A mutant: the target stays on the waiter list of the event.
MutSwitchTo(u, q, lk, st, rest) ==
  /\ cur' = u
  /\ runnable' = IF link[u] = "runnable" THEN Discard(q, u) ELSE q
  /\ link' = [lk EXCEPT ![u] = "none"]
  /\ state' = st
  /\ timers' = CancelWake(timers, u)
  /\ due' = CancelWake(rest, u)
  /\ UNCHANGED <<waiters, isset, xfer>>

\* A direct switch to u, which is taken out of whatever it waits for: the
\* link it is on, or its sleep, whose handle is cancelled as u unwinds.
\* q and lk hold the caller's new place, rest the timers still to run.
SwitchTo(u, q, lk, st, rest) ==
  /\ cur' = u
  /\ runnable' = IF link[u] = "runnable" THEN Discard(q, u) ELSE q
  /\ waiters' = IF link[u] = "event" THEN Discard(waiters, u) ELSE waiters
  /\ link' = [lk EXCEPT ![u] = "none"]
  /\ state' = st
  /\ timers' = CancelWake(timers, u)
  /\ due' = CancelWake(rest, u)
  /\ UNCHANGED <<isset, xfer>>

Switchable(u) == state[u] \in {"primed", "run"}

\* A mutant: the thrower is not queued.
MutThrow(c, u, rest) ==
  /\ SwitchTo(u, runnable, link, state, rest)
  /\ inflight' = [inflight EXCEPT ![u] = c]

\* _target_throw(): the thrower runs next, whatever the queue holds.
Throw(c, u, rest) ==
  /\ SwitchTo(u, Add(runnable, c, 0), [link EXCEPT ![c] = "runnable"], state,
              rest)
  /\ inflight' = [inflight EXCEPT ![u] = c]

\* Task.cancel()
Cancel(c, u) ==
  IF state[u] = "done" THEN UNCHANGED <<taskVars, eventVars, timerVars>>
  ELSE Throw(c, u, due)

\* Task.run(): a steal.  The caller is queued by _park_current().
RunTask(c, u) ==
  /\ SwitchTo(u, Add(runnable, c, IF c = Main THEN 0 ELSE AtEnd),
              [link EXCEPT ![c] = "runnable"], [state EXCEPT ![u] = "run"], due)
  /\ UNCHANGED inflight

\* _target_run_eager(): the new task runs at once, its creator next.
SpawnEager(c, u) ==
  /\ state[u] = "new"
  /\ cur' = u
  /\ runnable' = Add(runnable, c, 0)
  /\ link' = [link EXCEPT ![c] = "runnable"]
  /\ state' = [state EXCEPT ![u] = "run"]
  /\ UNCHANGED <<inflight, xfer, eventVars, timerVars>>

\* spawn() of a primed task, and _make_runnable().
SpawnPrimed(u) ==
  /\ state[u] = "new"
  /\ state' = [state EXCEPT ![u] = "primed"]
  /\ runnable' = Add(runnable, u, AtEnd)
  /\ link' = [link EXCEPT ![u] = "runnable"]
  /\ UNCHANGED <<cur, inflight, xfer, eventVars, timerVars>>

\* A mutant: the waiters are woken and the flag is not set.
MutEventSet ==
  /\ waiters' = <<>>
  /\ runnable' = runnable \o waiters
  /\ link' = [t \in Tealets |-> IF t \in Range(waiters) THEN "runnable"
                                ELSE link[t]]
  /\ UNCHANGED <<isset, cur, state, inflight, xfer, timerVars>>

\* Event.set() on a live turn: call_on_scheduler() runs the wake at once.
EventSet ==
  /\ isset' = TRUE
  /\ waiters' = <<>>
  /\ runnable' = runnable \o waiters
  /\ link' = [t \in Tealets |-> IF t \in Range(waiters) THEN "runnable"
                                ELSE link[t]]
  /\ UNCHANGED <<cur, state, inflight, xfer, timerVars>>

(***************************************************************************)
(* The driver loop: arun(), arun_forever(), arun_until_complete().         *)
(***************************************************************************)

Init ==
  /\ cur = Main
  /\ runnable = <<>>
  /\ link = [t \in Tealets |-> "none"]
  /\ state = [t \in Tealets |-> IF t = Main THEN "run" ELSE "new"]
  /\ inflight = [t \in Tasks |-> None]
  /\ waiters = <<>>
  /\ isset = FALSE
  /\ ready = <<>>
  /\ timers = {}
  /\ due = {}
  /\ now = 0
  /\ pc = "stopped"
  /\ ntodo = 0
  /\ xfer = 0
  /\ cap = 0
  /\ stopping = FALSE
  /\ wakeup = FALSE
  /\ poster = "idle"
  /\ nposts = 0

\* The loop condition of the three drivers.
ShouldTerminate ==
  CASE Mode = "idle" -> runnable = <<>> /\ timers = {} /\ ready = <<>>
    [] Mode = "forever" -> stopping
    [] Mode = "until" -> stopping \/ state[Target] = "done"

AtMain(where) == cur = Main /\ pc = where

\* A step of the driver's own bookkeeping.
tasksStay == UNCHANGED <<taskVars, eventVars, timerVars, threadVars, ready, now>>

\* Code outside the driver creates a task: spawn() while nothing runs.  The
\* wake is not on a live turn, so it also sets the wakeup flag.
SpawnOutside(u) ==
  /\ AtMain("stopped")
  /\ SpawnPrimed(u)
  /\ wakeup' = TRUE
  /\ UNCHANGED <<driverVars, threadVars, ready, now>>

\* Enter the driver.  run_forever() and run_until_complete() drop a stop()
\* that came before them.
StartDriver ==
  /\ AtMain("stopped")
  /\ Mode = "until" => state[Target] # "new"
  /\ pc' = "check"
  /\ stopping' = (Mode = "idle" /\ stopping)
  /\ UNCHANGED <<ntodo, cap, wakeup>>
  /\ tasksStay

LeaveDriver ==
  /\ pc' = "stopped"
  /\ stopping' = (Mode = "idle" /\ stopping)

\* A mutant: the drain counts one callback too few.
MutBeginBatch ==
  /\ AtMain("check")
  /\ IF ShouldTerminate
     THEN LeaveDriver /\ UNCHANGED <<ntodo, xfer>>
     ELSE /\ pc' = "callbacks"
          /\ ntodo' = Len(ready) - 1
          /\ xfer' = 0
          /\ UNCHANGED stopping
  /\ UNCHANGED <<cur, runnable, link, state, inflight, eventVars, timerVars,
                 threadVars, cap, ready, now, wakeup>>

\* The loop test, then _run_ready_batch() up to the snapshot of the queue
\* that _drain_ready_callbacks() takes.
BeginBatch ==
  /\ AtMain("check")
  /\ IF ShouldTerminate
     THEN LeaveDriver /\ UNCHANGED <<ntodo, xfer>>
     ELSE /\ pc' = "callbacks"
          /\ ntodo' = Len(ready)
          /\ xfer' = 0
          /\ UNCHANGED stopping
  /\ UNCHANGED <<cur, runnable, link, state, inflight, eventVars, timerVars,
                 threadVars, cap, ready, now, wakeup>>

\* What a callback does, run by the driver's own tealet.  A spawn finds no
\* task left when the bound on task objects is used up.
CallbackEffect(cb) ==
  \/ cb.op = "cancel" /\ Cancel(Main, cb.task)
  \/ cb.op = "run" /\ Switchable(cb.task) /\ RunTask(Main, cb.task)
  \/ cb.op = "eager" /\ \E u \in Tasks : SpawnEager(Main, u)
  \/ cb.op = "spawn" /\ \E u \in Tasks : SpawnPrimed(u)
  \/ cb.op = "set" /\ EventSet
  \/ /\ \/ cb.op = "stop"
        \/ cb.op = "run" /\ ~Switchable(cb.task)
        \/ cb.op \in {"eager", "spawn"} /\ \A u \in Tasks : state[u] # "new"
     /\ UNCHANGED <<taskVars, eventVars, timerVars>>

\* One turn of the loop of _drain_ready_callbacks().  When the callback
\* transfers to a task the loop goes on once the driver's tealet runs again.
RunCallback ==
  /\ AtMain("callbacks")
  /\ ntodo > 0
  /\ ntodo' = ntodo - 1
  /\ ready' = Tail(ready)
  /\ CallbackEffect(Head(ready))
  /\ stopping' = (stopping \/ Head(ready).op = "stop")
  /\ UNCHANGED <<pc, cap, threadVars, now, wakeup>>

\* _run_ready_timers() pops every timer that is due before it runs any.
PopDue ==
  /\ AtMain("callbacks")
  /\ ntodo = 0
  /\ pc' = "timers"
  /\ due' = {h \in timers : h.when <= now}
  /\ timers' = timers \ due'
  /\ UNCHANGED <<taskVars, eventVars, threadVars, ntodo, cap, stopping,
                 ready, now, wakeup>>

\* The callback of one due timer: wake() of a sleep, or Timeout._timeout().
RunTimer ==
  /\ AtMain("timers")
  /\ \E h \in due :
       /\ \A g \in due : h.when <= g.when
       /\ \/ /\ h.kind = "wake"
             /\ due' = due \ {h}
             /\ runnable' = Add(runnable, h.task, AtEnd)
             /\ link' = [link EXCEPT ![h.task] = "runnable"]
             /\ UNCHANGED <<cur, state, inflight, xfer, eventVars, timers>>
          \/ /\ h.kind = "timeout"
             /\ Throw(Main, h.task, due \ {h})
  /\ UNCHANGED <<driverVars, threadVars, ready, now, wakeup>>

\* The rest of _run_ready_batch(): with tasks to run, fix the number of
\* transfers of this batch and yield_().  The driver parks at the end of the
\* queue.  That park is not on a live turn, so _make_runnable() wakes.
EnterBatch ==
  /\ AtMain("timers")
  /\ due = {}
  /\ IF runnable = <<>>
     THEN /\ pc' = "after"
          /\ UNCHANGED <<taskVars, cap, wakeup>>
     ELSE LET limit == IF YieldEvery > 0 THEN YieldEvery ELSE Len(runnable)
          IN  /\ pc' = "batch"
              /\ cap' = limit
              /\ wakeup' = TRUE
              /\ FindTarget(Add(runnable, Main, AtEnd),
                            [link EXCEPT ![Main] = "runnable"], state, limit)
              /\ UNCHANGED inflight
  /\ UNCHANGED <<eventVars, timerVars, threadVars, ntodo, stopping, ready,
                 now>>

\* The driver's tealet is back: _run_ready_batch() returns.
FinishBatch ==
  /\ AtMain("batch")
  /\ pc' = "after"
  /\ cap' = 0
  /\ UNCHANGED <<ntodo, stopping, wakeup>>
  /\ tasksStay

\* The second test of the loop, then _idle_or_poll(): poll while there is
\* local work, otherwise block.
IdleOrPoll ==
  /\ AtMain("after")
  /\ IF ShouldTerminate THEN LeaveDriver
     ELSE /\ pc' = IF runnable # <<>> \/ ready # <<>> THEN "poll" ELSE "wait"
          /\ UNCHANGED stopping
  /\ UNCHANGED <<ntodo, cap, wakeup>>
  /\ tasksStay

\* _poll_io(): a wait of length zero.
PollIO ==
  /\ AtMain("poll")
  /\ pc' = IF wakeup THEN "clear" ELSE "check"
  /\ UNCHANGED <<ntodo, cap, stopping, wakeup>>
  /\ tasksStay

\* _wait_thread() returns when the flag is set or the first deadline, read
\* before the wait, has passed.
WaitReturn ==
  /\ AtMain("wait")
  /\ wakeup \/ \E h \in timers : h.when <= now
  /\ pc' = "clear"
  /\ UNCHANGED <<ntodo, cap, stopping, wakeup>>
  /\ tasksStay

\* A mutant: the driver waits again without looking at its queues.
MutClearWakeup ==
  /\ AtMain("clear")
  /\ pc' = "wait"
  /\ wakeup' = FALSE
  /\ UNCHANGED <<ntodo, cap, stopping>>
  /\ tasksStay

ClearWakeup ==
  /\ AtMain("clear")
  /\ pc' = "check"
  /\ wakeup' = FALSE
  /\ UNCHANGED <<ntodo, cap, stopping>>
  /\ tasksStay

(***************************************************************************)
(* What the running task does.  A task that unwinds an injected exception  *)
(* parks only in a finally or except block that waits: "cleanup".          *)
(***************************************************************************)

Running(t) == cur = t /\ state[t] = "run"
MayPark(t) == Running(t) /\ (inflight[t] = None \/ On("cleanup"))

\* A step of a task leaves the driver and the other thread where they are.
driverStays == UNCHANGED <<driverVars, threadVars, now, wakeup>>

\* yield_(), sleep(0)
Yield(t) ==
  /\ On("yield")
  /\ MayPark(t)
  /\ FindTarget(Add(runnable, t, AtEnd), [link EXCEPT ![t] = "runnable"],
                state, cap)
  /\ UNCHANGED <<inflight, eventVars, timerVars, ready>>
  /\ driverStays

\* _sleep_until() with a time still to come.
Sleep(t, when) ==
  /\ On("sleep")
  /\ MayPark(t)
  /\ when > now
  /\ timers' = timers \cup {[when |-> when, kind |-> "wake", task |-> t]}
  /\ FindTarget(runnable, link, state, cap)
  /\ UNCHANGED <<inflight, eventVars, due, ready>>
  /\ driverStays

\* Event.swait() on an event that is not set.
EventWait(t) ==
  /\ On("wait")
  /\ MayPark(t)
  /\ ~isset
  /\ waiters' = Append(waiters, t)
  /\ FindTarget(runnable, [link EXCEPT ![t] = "event"], state, cap)
  /\ UNCHANGED <<inflight, isset, timerVars, ready>>
  /\ driverStays

SetEvent(t) ==
  /\ On("set")
  /\ Running(t)
  /\ EventSet
  /\ UNCHANGED ready
  /\ driverStays

\* Event.clear()
ClearEvent(t) ==
  /\ On("clear")
  /\ Running(t)
  /\ isset' = FALSE
  /\ UNCHANGED <<taskVars, waiters, timerVars, ready>>
  /\ driverStays

CancelOther(t, u) ==
  /\ On("cancel")
  /\ MayPark(t)
  /\ u # t /\ Switchable(u)
  /\ Cancel(t, u)
  /\ UNCHANGED ready
  /\ driverStays

RunOther(t, u) ==
  /\ On("run")
  /\ MayPark(t)
  /\ u # t /\ Switchable(u)
  /\ RunTask(t, u)
  /\ UNCHANGED ready
  /\ driverStays

\* yield_to(): an explicit transfer, which the batch limit does not redirect.
YieldToTask(t, u, position) ==
  /\ On("yield_to")
  /\ MayPark(t)
  /\ u # t /\ u \in Range(runnable)
  /\ FindTarget(YieldTo(runnable, u, t, position),
                [link EXCEPT ![t] = "runnable"], state, 0)
  /\ UNCHANGED <<inflight, eventVars, timerVars, ready>>
  /\ driverStays

RescheduleTask(t, u, position) ==
  /\ On("reschedule")
  /\ Running(t)
  /\ u \in Range(runnable)
  /\ runnable' = Reschedule(runnable, u, position)
  /\ UNCHANGED <<cur, link, state, inflight, xfer, eventVars, timerVars,
                 ready>>
  /\ driverStays

SpawnTask(t, u) ==
  /\ \/ On("spawn") /\ Running(t) /\ SpawnPrimed(u)
     \/ On("eager") /\ MayPark(t) /\ SpawnEager(t, u)
  /\ UNCHANGED ready
  /\ driverStays

\* call_soon(): no wake, the driver is not waiting.
CallSoon(t, cb) ==
  /\ On("call_soon")
  /\ Running(t)
  /\ Len(ready) < MaxReady
  /\ ready' = Append(ready, cb)
  /\ UNCHANGED <<taskVars, eventVars, timerVars>>
  /\ driverStays

TimeoutOf(t) == {h \in timers \cup due : h.kind = "timeout" /\ h.task = t}

\* Timeout.__enter__() and reschedule(); a task is in at most one block.
ArmTimeout(t, when) ==
  /\ On("timeout")
  /\ Running(t)
  /\ when >= now
  /\ timers' = (timers \ TimeoutOf(t))
                 \cup {[when |-> when, kind |-> "timeout", task |-> t]}
  /\ due' = due \ TimeoutOf(t)
  /\ UNCHANGED <<taskVars, eventVars, ready>>
  /\ driverStays

\* Timeout.__exit__() on the way out of the block.
LeaveTimeout(t) ==
  /\ Running(t)
  /\ TimeoutOf(t) # {}
  /\ timers' = timers \ TimeoutOf(t)
  /\ due' = due \ TimeoutOf(t)
  /\ UNCHANGED <<taskVars, eventVars, ready>>
  /\ driverStays

\* stop() on a live turn.
StopDriver(t) ==
  /\ On("stop")
  /\ Running(t)
  /\ stopping' = TRUE
  /\ UNCHANGED <<taskVars, eventVars, timerVars, threadVars, pc, ntodo, cap,
                 ready, now, wakeup>>

\* An except block ends the unwinding.
Catch(t) ==
  /\ Running(t)
  /\ inflight[t] # None
  /\ inflight' = [inflight EXCEPT ![t] = None]
  /\ UNCHANGED <<cur, runnable, link, state, xfer, eventVars, timerVars,
                 ready>>
  /\ driverStays

\* A mutant: the timers of a task outlive it.
MutFinish(t) ==
  /\ cur = t
  /\ \/ state[t] = "run" /\ inflight[t] = None
     \/ inflight[t] # None /\ ~Switchable(inflight[t])
  /\ inflight' = [inflight EXCEPT ![t] = None]
  /\ FindTarget(runnable, link, [state EXCEPT ![t] = "done"], cap)
  /\ UNCHANGED <<eventVars, timerVars, ready>>
  /\ driverStays

\* resolve_target() of a task that returns, raises an exception of its own,
\* or ends with an injected one whose thrower has exited meanwhile.
Finish(t) ==
  /\ cur = t
  /\ \/ state[t] = "run" /\ inflight[t] = None
     \/ inflight[t] # None /\ ~Switchable(inflight[t])
  /\ inflight' = [inflight EXCEPT ![t] = None]
  /\ timers' = CancelAll(timers, t)
  /\ due' = CancelAll(due, t)
  /\ FindTarget(runnable, link, [state EXCEPT ![t] = "done"], cap)
  /\ UNCHANGED <<eventVars, ready>>
  /\ driverStays

\* resolve_target() of a task that ends with the exception thrown into it:
\* control goes to the thrower, wherever it is by now.  A primed task has no
\* other way to go, the exception is raised before its function runs.
FinishThrown(t) ==
  LET e == inflight[t]
  IN  /\ cur = t
      /\ e # None /\ Switchable(e)
      /\ inflight' = [inflight EXCEPT ![t] = None]
      /\ cur' = e
      /\ runnable' = IF link[e] = "runnable" THEN Discard(runnable, e)
                     ELSE runnable
      /\ waiters' = IF link[e] = "event" THEN Discard(waiters, e) ELSE waiters
      /\ link' = [link EXCEPT ![e] = "none"]
      /\ state' = [state EXCEPT ![t] = "done"]
      /\ timers' = CancelAll(CancelWake(timers, e), t)
      /\ due' = CancelAll(CancelWake(due, e), t)
      /\ UNCHANGED <<isset, xfer, ready>>
      /\ driverStays

(***************************************************************************)
(* The other thread, and the clock.                                        *)
(***************************************************************************)

\* call_soon_threadsafe(): the append, then in a second step the wake.
Post(cb) ==
  /\ poster = "idle"
  /\ nposts < MaxPosts
  /\ poster' = "queued"
  /\ nposts' = nposts + 1
  /\ ready' = Append(ready, cb)
  /\ UNCHANGED <<taskVars, eventVars, timerVars, driverVars, now, wakeup>>


\* stop() from the other thread.
PostStop ==
  /\ On("thread_stop")
  /\ poster = "idle"
  /\ nposts < MaxPosts
  /\ poster' = "queued"
  /\ nposts' = nposts + 1
  /\ stopping' = TRUE
  /\ UNCHANGED <<taskVars, eventVars, timerVars, pc, ntodo, cap, ready, now,
                 wakeup>>

\* A mutant: the other thread never sets the flag.
MutSignal ==
  /\ poster = "queued"
  /\ poster' = "idle"
  /\ UNCHANGED <<taskVars, eventVars, timerVars, driverVars, nposts, ready,
                 now, wakeup>>

\* _break_wait()
Signal ==
  /\ poster = "queued"
  /\ poster' = "idle"
  /\ wakeup' = TRUE
  /\ UNCHANGED <<taskVars, eventVars, timerVars, driverVars, nposts, ready,
                 now>>

Tick ==
  /\ now < MaxTime
  /\ now' = now + 1
  /\ UNCHANGED <<taskVars, eventVars, timerVars, driverVars, threadVars,
                 ready, wakeup>>

\* A callback refers to a task that exists.
Postable == {cb \in Callbacks :
               IF cb.op \in {"cancel", "run"}
               THEN cb.task \in Tasks /\ state[cb.task] # "new"
               ELSE cb.task = None}

DriverStep ==
  \/ StartDriver \/ BeginBatch \/ RunCallback \/ PopDue \/ RunTimer
  \/ EnterBatch \/ FinishBatch \/ IdleOrPoll \/ PollIO \/ WaitReturn
  \/ ClearWakeup

\* The steps with which a task gives control away.
TaskParks(t) ==
  \/ Yield(t) \/ EventWait(t) \/ Finish(t) \/ FinishThrown(t)
  \/ \E when \in 1 .. MaxTime : Sleep(t, when)
  \/ \E u \in Tasks : CancelOther(t, u) \/ RunOther(t, u)
  \/ \E u \in Tasks, p \in Positions : YieldToTask(t, u, p)

TaskActs(t) ==
  \/ SetEvent(t) \/ ClearEvent(t) \/ StopDriver(t) \/ Catch(t)
  \/ \E u \in Tasks : SpawnTask(t, u)
  \/ \E u \in Tasks, p \in Positions : RescheduleTask(t, u, p)
  \/ \E cb \in Postable : CallSoon(t, cb)
  \/ LeaveTimeout(t)
  \/ \E when \in 0 .. MaxTime : ArmTimeout(t, when)

ThreadStep == (\E cb \in Postable : Post(cb)) \/ PostStop \/ Signal

Next ==
  \/ DriverStep
  \/ \E u \in Tasks : SpawnOutside(u)
  \/ \E t \in Tasks : TaskParks(t) \/ TaskActs(t)
  \/ ThreadStep
  \/ Tick

Spec == Init /\ [][Next]_vars

(***************************************************************************)
(* Properties.                                                             *)
(***************************************************************************)

TypeOK ==
  /\ cur \in Tealets
  /\ runnable \in Seq(Tealets)
  /\ link \in [Tealets -> {"none", "runnable", "event"}]
  /\ state \in [Tealets -> {"new", "primed", "run", "done"}]
  /\ inflight \in [Tasks -> Tealets \cup {None}]
  /\ waiters \in Seq(Tealets)
  /\ isset \in BOOLEAN
  /\ ready \in Seq(Callbacks)
  /\ timers \subseteq Timers
  /\ due \subseteq Timers
  /\ now \in Nat
  /\ pc \in {"stopped", "check", "callbacks", "timers", "batch", "after",
             "poll", "wait", "clear"}
  /\ ntodo \in Nat
  /\ xfer \in Nat
  /\ cap \in Nat
  /\ stopping \in BOOLEAN
  /\ wakeup \in BOOLEAN
  /\ poster \in {"idle", "queued"}
  /\ nposts \in Nat

\* A task has at most one link, and the link tells the truth: a task is on
\* the runnable queue exactly when its link is the _RunnableLink, on the
\* event's waiter list exactly when its link is the event, and it is on
\* neither list twice (the asserts of _make_runnable and Event._link).
LinksAgree ==
  /\ IsInjective(runnable)
  /\ IsInjective(waiters)
  /\ \A t \in Tealets : /\ link[t] = "runnable" <=> t \in Range(runnable)
                        /\ link[t] = "event" <=> t \in Range(waiters)

\* The running tealet is on no list: switching to it, or waking it, again
\* is impossible.
CurrentUnlinked == link[cur] = "none"

\* While a task runs the driver's tealet is on the runnable queue, so
\* parking never raises DeadlockError and the last task to exit finds it.
MainReachable == cur # Main => link[Main] = "runnable"

WakeTimers(t) == {h \in timers \cup due : h.kind = "wake" /\ h.task = t}

\* No task is lost: one that is started or primed, and not running, is
\* runnable, waiting, or asleep with the timer that will wake it; a task is
\* only ever in one of these, and one that exited or was never spawned is
\* in none.
NoTaskLost ==
  \A t \in Tasks :
    /\ Switchable(t) /\ t # cur => link[t] # "none" \/ WakeTimers(t) # {}
    /\ WakeTimers(t) # {} => state[t] = "run" /\ t # cur /\ link[t] = "none"
    /\ ~Switchable(t) => t # cur /\ link[t] = "none" /\ TimeoutOf(t) = {}

\* The driver never blocks over work it should do: no task is runnable, and
\* for what another thread queued, or a stop it requested, the flag is set or
\* that thread is about to set it (_wait_thread against
\* call_soon_threadsafe and stop).
NoLostWakeup ==
  pc = "wait" =>
    /\ runnable = <<>>
    /\ ready # <<>> \/ (Mode # "idle" /\ stopping)
         => wakeup \/ poster = "queued"

\* A batch gives control back after its number of transfers: yield_every,
\* or one for each task that was runnable.
BatchBounded == pc = "batch" /\ cur # Main => xfer <= cap

\* The parts that make the invariants above inductive.
DriverSuspended == cur # Main => pc \in {"callbacks", "timers", "batch"}

TimersUnique ==
  /\ \A h, g \in timers \cup due : h.kind = g.kind /\ h.task = g.task => h = g
  /\ timers \cap due = {}
  /\ due # {} => pc = "timers"

CallbacksNameTasks ==
  \A i \in 1 .. Len(ready) :
    ready[i].op \in {"cancel", "run"}
      => ready[i].task \in Tasks /\ state[ready[i].task] # "new"

DrainBounded == pc = "callbacks" => ntodo <= Len(ready)

ThrowersDistinct == state[Main] = "run" /\ \A t \in Tasks : inflight[t] # t

IndInv ==
  /\ TypeOK
  /\ LinksAgree
  /\ CurrentUnlinked
  /\ MainReachable
  /\ NoTaskLost
  /\ NoLostWakeup
  /\ DriverSuspended
  /\ TimersUnique
  /\ CallbacksNameTasks
  /\ DrainBounded
  /\ ThrowersDistinct

\* Control goes straight to t: by a throw into it, by Task.run(), or at the
\* end of a task that t threw into.
GoesTo(t) ==
  /\ cur' = t
  /\ \/ inflight'[t] = cur
     \/ link'[cur] = "runnable"
     \/ cur \in Tasks /\ inflight[cur] = t /\ state'[cur] = "done"

\* A park ends for a cause: a wait because the event was set, a sleep because
\* its time has come, and either because control went straight to the task.
ParksEndForCause ==
  /\ [][\A t \in Tasks :
         link[t] = "event" /\ link'[t] # "event" => isset' \/ GoesTo(t)]_vars
  /\ [][\A h \in timers \cup due :
         h.kind = "wake" /\ h \notin (timers \cup due)'
           => h.when <= now \/ GoesTo(h.task)]_vars

\* Queued callbacks run, also one that another thread queues while the driver
\* is about to block, unless the loop is told to stop.
CallbacksRun == ready # <<>> ~> ready = <<>> \/ stopping \/ pc = "stopped"

\* A runnable task runs, and a sleeper wakes up and runs, unless the loop is
\* told to stop.
TaskRuns(t) ==
  (link[t] = "runnable" \/ WakeTimers(t) # {}) ~> cur = t \/ stopping \/ pc = "stopped"
=============================================================================
