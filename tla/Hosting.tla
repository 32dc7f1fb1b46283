------------------------------ MODULE Hosting ------------------------------
(***************************************************************************)
(* A scheduler hosted by asyncio: AsyncScheduler driven by AsyncRunner.    *)
(*                                                                         *)
(* The asyncio loop, the coroutine that drives the scheduler and the       *)
(* tealets all live on one OS thread.  The driver runs a batch of tasks,   *)
(* then awaits an asyncio.Event (_wakeup); while it is suspended, asyncio  *)
(* runs the done-callbacks of the futures that tasks wait for in await_(). *)
(* A second OS thread posts a cancellation, and SIGINT arrives between any *)
(* two steps.  Main is the tealet of the driver.                           *)
(*                                                                         *)
(* In mode "runner" the driver serves AsyncRunner.run(Target) and then     *)
(* aclose(), which cancels what is unfinished and drives it to its end.    *)
(* In mode "idle" it is one arun(), which ends when nothing is left to do. *)
(***************************************************************************)
EXTENDS Naturals, Sequences, SequencesExt

CONSTANTS
  Fibers,   \* the tasks, all spawned before the driver starts
  Target,   \* the task AsyncRunner.run() was given
  Driver,   \* the tealet of the driver coroutine
  Modes,    \* "runner", "idle"
  Budget,   \* bound: parks each task may do
  Sigints,  \* bound: interrupts that arrive
  Posts     \* bound: cancellations posted by the other thread

VARIABLES
  fiber,   \* at: where each task is; fut: its asyncio future; left: its parks
  queue,   \* _runnable
  ready,   \* _ready_callbacks
  drv,     \* pc and cur: the driver loop and tealet.current(); todo, cap
  loop,    \* asyncio: ready callbacks, blocked in select, _wakeup
  runner,  \* mode, phase, cancels to do, interrupts, and how run() ended
  poster   \* the other thread: posts left, and the wake it still owes

vars == <<fiber, queue, ready, drv, loop, runner, poster>>

Init ==
  /\ \E order \in SetToSeqs(Fibers) : queue = order
  /\ fiber = [t \in Fibers |-> [at |-> "queued", fut |-> "none",
                                due |-> FALSE, left |-> Budget[t]]]
  /\ ready = <<>>
  /\ drv = [pc |-> "top", cur |-> Driver, todo |-> 0, cap |-> 0,
            resumed |-> FALSE]
  /\ loop = [ready |-> <<>>, blocked |-> FALSE, wakeup |-> FALSE]
  /\ \E m \in Modes :
       runner = [mode |-> m, phase |-> "run", cancel |-> {}, sigints |-> 0,
                 how |-> "none", fatal |-> FALSE]
  /\ poster = [left |-> Posts, owes |-> FALSE]

Alive(t) == fiber[t].at # "done"
Sleeping == {t \in Fibers : fiber[t].at = "sleep"}
Awaiting == {t \in Fibers : fiber[t].at = "await"}

Overdue == \E t \in Sleeping : fiber[t].due

\* The loop body that asyncio runs is free: the driver is suspended.
Suspended == drv.pc \in {"parked", "yielding"} /\ ~loop.blocked

\* The driver's Task is scheduled on the loop, once.
Resumed(l) ==
  IF drv.pc = "parked" /\ ~drv.resumed
  THEN [l EXCEPT !.ready = Append(@, [op |-> "driver"])] ELSE l

\* _break_wait() on the loop's own thread: _wakeup.set().
BreakWait ==
  /\ loop' = [Resumed(loop) EXCEPT !.wakeup = TRUE]
  /\ drv' = [drv EXCEPT !.resumed = @ \/ drv.pc = "parked"]

---------------------------------------------------------------------------
\* _find_target(): the cap gives control back to the driver, else the head
\* of the queue runs.  A task that ended cannot be switched to: the switch
\* raises, and the model stops there.
Transfer(q) ==
  LET to == IF drv.cap = 0 THEN Driver ELSE Head(q)
      rest == IF drv.cap = 0 THEN SelectSeq(q, LAMBDA u : u # Driver)
                             ELSE Tail(q)
  IN /\ queue' = rest
     /\ drv' = IF to = Driver
               THEN [drv EXCEPT !.cur = to, !.pc = "check", !.cap = 0]
               ELSE IF Alive(to)
               THEN [drv EXCEPT !.cur = to, !.cap = @ - 1]
               ELSE [drv EXCEPT !.pc = "broken"]

\* The test of the driver loop: the target of arun_until_complete(), or
\* whether arun() has anything left to wait for.
Finished ==
  CASE runner.mode = "idle" ->
         queue = <<>> /\ Sleeping = {} /\ Awaiting = {} /\ ready = <<>>
    [] runner.phase = "run" -> ~Alive(Target)
    [] OTHER -> \A t \in Fibers : ~Alive(t)

\* arun_until_complete() returned or raised into AsyncRunner.
Left(how) ==
  /\ drv' = [drv EXCEPT !.pc = "left", !.cur = Driver, !.cap = 0]
  /\ runner' = [runner EXCEPT !.how = how]

TopOfLoop ==
  /\ drv.pc = "top"
  /\ \/ /\ Finished
        /\ Left("returned")
     \/ /\ ~Finished
        /\ drv' = [drv EXCEPT !.pc = "drain", !.todo = Len(ready)]
        /\ UNCHANGED runner
  /\ UNCHANGED <<fiber, queue, ready, loop, poster>>

\* What a task does with a CancelledError thrown into it: it dies, or it
\* catches it and sleeps.  await_() also asks asyncio to cancel the future.
Thrown(t) ==
  /\ \E at \in {"done"} \cup {a \in {"sleep"} : fiber[t].left > 0} :
       fiber' = [fiber EXCEPT ![t].at = at, ![t].due = FALSE, ![t].fut = "none",
                              ![t].left = IF at = "sleep" THEN @ - 1 ELSE 0]
  /\ loop' = IF fiber[t].at \in {"await", "woken"}
             THEN [loop EXCEPT !.ready =
                     Append(@, [op |-> "cancel", task |-> t])]
             ELSE loop

\* One callback of _drain_ready_callbacks().  A queued wake is applied to
\* its waiter whatever became of it since Event.set() took it.
RunCallback ==
  /\ drv.pc = "drain" /\ drv.todo > 0
  /\ LET t == Head(ready).task IN
       \/ /\ Head(ready).op = "wake"
          /\ queue' = Append(queue, t)
          /\ fiber' = [fiber EXCEPT ![t].at = IF Alive(t) THEN "queued" ELSE @,
                                    ![t].due = FALSE]
          /\ UNCHANGED loop
       \/ /\ Head(ready).op = "cancel" /\ Alive(t)
          /\ queue' = SelectSeq(queue, LAMBDA u : u # t)
          /\ Thrown(t)
       \/ /\ Head(ready).op = "cancel" /\ ~Alive(t)
          /\ UNCHANGED <<queue, fiber, loop>>
  /\ ready' = Tail(ready)
  /\ drv' = [drv EXCEPT !.todo = @ - 1]
  /\ UNCHANGED <<runner, poster>>

\* The due timers of _run_ready_timers(), then the batch: the driver parks
\* behind the tasks that are runnable.
EndDrain ==
  /\ drv.pc = "drain" /\ drv.todo = 0
  /\ \E woken \in SetToSeqs({t \in Sleeping : fiber[t].due}) :
       LET q == queue \o woken IN
       /\ fiber' = [t \in Fibers |->
                      IF t \in ToSet(woken)
                      THEN [fiber[t] EXCEPT !.at = "queued", !.due = FALSE]
                      ELSE fiber[t]]
       /\ IF q = <<>>
          THEN drv' = [drv EXCEPT !.pc = "check"] /\ queue' = q
          ELSE /\ queue' = Append(Tail(q), Driver)
               /\ drv' = IF Alive(Head(q))
                         THEN [drv EXCEPT !.pc = "batch", !.cur = Head(q),
                                          !.cap = Len(q) - 1]
                         ELSE [drv EXCEPT !.pc = "broken"]
  /\ UNCHANGED <<ready, loop, runner, poster>>

---------------------------------------------------------------------------
\* One step of the running task, up to the switch that ends it.
Running(t) == drv.pc = "batch" /\ drv.cur = t

\* await_() of a future that is not done, or sleep().
Park(t, at) ==
  /\ Running(t) /\ fiber[t].left > 0
  /\ fiber' = [fiber EXCEPT ![t].at = at, ![t].left = @ - 1,
                            ![t].fut = IF at = "await" THEN "pending" ELSE @]
  /\ Transfer(queue)
  /\ UNCHANGED <<ready, loop, runner, poster>>

Yield(t) ==
  /\ Running(t) /\ fiber[t].left > 0
  /\ fiber' = [fiber EXCEPT ![t].left = @ - 1]
  /\ Transfer(Append(queue, t))
  /\ UNCHANGED <<ready, loop, runner, poster>>

Finish(t) ==
  /\ Running(t)
  /\ fiber' = [fiber EXCEPT ![t].at = "done", ![t].left = 0]
  /\ Transfer(queue)
  /\ UNCHANGED <<ready, loop, runner, poster>>

\* KeyboardInterrupt in a task: resolve_target() routes it to the driver,
\* which raises it out of its loop.  The driver is still in the queue.
Fatal(t) ==
  /\ Running(t)
  /\ runner.mode = "runner"
  /\ fiber' = [fiber EXCEPT ![t].at = "done", ![t].left = 0]
  /\ drv' = [drv EXCEPT !.pc = "left", !.cur = Driver, !.cap = 0]
  /\ runner' = [runner EXCEPT !.how = "interrupt", !.fatal = TRUE]
  /\ UNCHANGED <<queue, ready, loop, poster>>

Step(t) ==
  Park(t, "await") \/ Park(t, "sleep") \/ Yield(t) \/ Finish(t) \/ Fatal(t)

---------------------------------------------------------------------------
\* _idle_or_poll(): with ready work the driver polls, which clears _wakeup,
\* and lets asyncio run once; else it waits for _wakeup or a deadline.
IdleOrPoll ==
  /\ drv.pc = "check"
  /\ \/ /\ Finished
        /\ drv' = [drv EXCEPT !.pc = "top"]
        /\ UNCHANGED loop
     \/ /\ ~Finished
        /\ queue # <<>> \/ ready # <<>>
        /\ drv' = [drv EXCEPT !.pc = "yielding"]
        /\ loop' = [loop EXCEPT !.wakeup = FALSE,
                                !.ready = Append(@, [op |-> "driver"])]
     \/ /\ ~Finished
        /\ queue = <<>> /\ ready = <<>>
        /\ IF loop.wakeup
           THEN /\ drv' = [drv EXCEPT !.pc = "top"]
                /\ loop' = [loop EXCEPT !.wakeup = FALSE]
           ELSE /\ drv' = [drv EXCEPT !.pc = "parked", !.resumed = Overdue]
                /\ loop' = IF Overdue
                           THEN [loop EXCEPT !.ready =
                                   Append(@, [op |-> "driver"])]
                           ELSE loop
  /\ UNCHANGED <<fiber, queue, ready, runner, poster>>

\* asyncio resumes the driver's Task: _wait_async() clears _wakeup.
LoopDriver ==
  /\ Suspended /\ loop.ready # <<>> /\ Head(loop.ready).op = "driver"
  /\ drv' = [drv EXCEPT !.pc = "top", !.resumed = FALSE]
  /\ loop' = [loop EXCEPT !.ready = Tail(@),
                          !.wakeup = IF drv.pc = "parked" THEN FALSE ELSE @]
  /\ UNCHANGED <<fiber, queue, ready, runner, poster>>

\* _wakeup.set as the loop runs it for _break_wait() of another thread.
LoopSet ==
  /\ Suspended /\ loop.ready # <<>> /\ Head(loop.ready).op = "set"
  /\ loop' = [Resumed([loop EXCEPT !.ready = Tail(@)]) EXCEPT !.wakeup = TRUE]
  /\ drv' = [drv EXCEPT !.resumed = @ \/ drv.pc = "parked"]
  /\ UNCHANGED <<fiber, queue, ready, runner, poster>>

\* The done-callback of a future, _resume_waiter(): Event.set() takes the
\* waiter and queues its wake, for the scheduler is not in a live turn.
LoopDone ==
  /\ Suspended /\ loop.ready # <<>> /\ Head(loop.ready).op = "done"
  /\ LET t == Head(loop.ready).task
         l == [loop EXCEPT !.ready = Tail(@)]
     IN IF fiber[t].at = "await" /\ fiber[t].fut = "done"
        THEN /\ fiber' = [fiber EXCEPT ![t].at = "woken", ![t].fut = "none"]
             /\ ready' = Append(ready, [op |-> "wake", task |-> t])
             /\ loop' = [Resumed(l) EXCEPT !.wakeup = TRUE]
             /\ drv' = [drv EXCEPT !.resumed = @ \/ drv.pc = "parked"]
        ELSE /\ loop' = l
             /\ UNCHANGED <<fiber, ready, drv>>
  /\ UNCHANGED <<queue, runner, poster>>

\* fut.cancel(), queued by a cancelled await_(), which nobody waits for.
LoopCancel ==
  /\ Suspended /\ loop.ready # <<>> /\ Head(loop.ready).op = "cancel"
  /\ loop' = [loop EXCEPT !.ready = Tail(@)]
  /\ UNCHANGED <<fiber, queue, ready, drv, runner, poster>>

LoopBlocks ==
  /\ Suspended /\ loop.ready = <<>>
  /\ loop' = [loop EXCEPT !.blocked = TRUE]
  /\ UNCHANGED <<fiber, queue, ready, drv, runner, poster>>

\* Asyncio completes the future a task awaits.
Complete(t) ==
  /\ drv.pc \in {"parked", "yielding"}
  /\ fiber[t].at = "await" /\ fiber[t].fut = "pending"
  /\ fiber' = [fiber EXCEPT ![t].fut = "done"]
  /\ loop' = [loop EXCEPT !.ready = Append(@, [op |-> "done", task |-> t]),
                          !.blocked = FALSE]
  /\ UNCHANGED <<queue, ready, drv, runner, poster>>

\* The deadline of a sleep passes; it also ends the driver's timed wait.
Due(t) ==
  /\ fiber[t].at = "sleep" /\ ~fiber[t].due
  /\ fiber' = [fiber EXCEPT ![t].due = TRUE]
  /\ loop' = IF drv.pc = "parked" THEN [Resumed(loop) EXCEPT !.blocked = FALSE]
                                  ELSE loop
  /\ drv' = [drv EXCEPT !.resumed = @ \/ drv.pc = "parked"]
  /\ UNCHANGED <<queue, ready, runner, poster>>

Loop == LoopDriver \/ LoopSet \/ LoopDone \/ LoopCancel \/ LoopBlocks

---------------------------------------------------------------------------
Driving == drv.pc \notin {"left", "broken"}

\* call_soon_threadsafe(t.cancel) on another thread: queue, then wake.
Post(t) ==
  /\ Driving /\ poster.left > 0 /\ ~poster.owes
  /\ poster' = [left |-> poster.left - 1, owes |-> TRUE]
  /\ ready' = Append(ready, [op |-> "cancel", task |-> t])
  /\ UNCHANGED <<fiber, queue, drv, loop, runner>>

\* Mutant: call_soon() instead of call_soon_threadsafe(), which does not end
\* the loop's select().
MutPostWakes ==
  /\ poster.owes
  /\ poster' = [poster EXCEPT !.owes = FALSE]
  /\ loop' = [loop EXCEPT !.ready = Append(@, [op |-> "set"])]
  /\ UNCHANGED <<fiber, queue, ready, drv, runner>>

PostWakes ==
  /\ poster.owes
  /\ poster' = [poster EXCEPT !.owes = FALSE]
  /\ loop' = [loop EXCEPT !.ready = Append(@, [op |-> "set"]),
                          !.blocked = FALSE]
  /\ UNCHANGED <<fiber, queue, ready, drv, runner>>

\* _on_sigint(): the first interrupt queues the cancellation of the target
\* and calls _break_wait() on the loop's thread; the loop may be inside
\* select(), which the handler does not end.  A second one is Fatal().
Sigint ==
  /\ runner.mode = "runner" /\ runner.phase = "run" /\ Driving
  /\ runner.sigints < Sigints /\ Alive(Target)
  /\ runner' = [runner EXCEPT !.sigints = @ + 1]
  /\ ready' = Append(ready, [op |-> "cancel", task |-> Target])
  /\ BreakWait
  /\ UNCHANGED <<fiber, queue, poster>>

---------------------------------------------------------------------------
\* aclose(): the unfinished tasks are cancelled one by one, from the
\* driver's tealet, which each throw parks at the head of the queue; a
\* driver that is still queued fails the assertion of _make_runnable_next.
Close ==
  /\ drv.pc = "left" /\ runner.mode = "runner" /\ runner.phase = "run"
  /\ runner' = [runner EXCEPT !.phase = "cancel",
                              !.cancel = {t \in Fibers : Alive(t)}]
  /\ UNCHANGED <<fiber, queue, ready, drv, loop, poster>>

CloseCancels(t) ==
  /\ runner.phase = "cancel" /\ t \in runner.cancel
  /\ \/ /\ ~Alive(t)
        /\ runner' = [runner EXCEPT !.cancel = @ \ {t}]
        /\ UNCHANGED <<fiber, queue, loop>>
     \/ /\ Alive(t) /\ Driver \notin ToSet(queue)
        /\ runner' = [runner EXCEPT !.cancel = @ \ {t}]
        /\ queue' = SelectSeq(queue, LAMBDA u : u # t)
        /\ Thrown(t)
     \/ /\ Alive(t) /\ Driver \in ToSet(queue)
        /\ runner' = [runner EXCEPT !.phase = "closed", !.cancel = {}]
        /\ queue' = SelectSeq(queue, LAMBDA u : u # t)
        /\ UNCHANGED <<fiber, loop>>
  /\ UNCHANGED <<ready, drv, poster>>

\* run_until_complete(gather(tasks)), then _finalize_close().
CloseDrains ==
  /\ runner.phase = "cancel" /\ runner.cancel = {}
  /\ runner' = [runner EXCEPT !.phase = "drain"]
  /\ drv' = [drv EXCEPT !.pc = "top"]
  /\ UNCHANGED <<fiber, queue, ready, loop, poster>>

Finalize ==
  /\ drv.pc = "left" /\ runner.phase = "drain"
  /\ runner' = [runner EXCEPT !.phase = "closed"]
  /\ UNCHANGED <<fiber, queue, ready, drv, loop, poster>>

---------------------------------------------------------------------------
Driven == TopOfLoop \/ RunCallback \/ EndDrain \/ IdleOrPoll
Closing == Close \/ (\E t \in Fibers : CloseCancels(t)) \/ CloseDrains \/ Finalize

Next ==
  \/ Driven \/ Loop \/ PostWakes \/ Sigint \/ Closing
  \/ \E t \in Fibers : Step(t) \/ Complete(t) \/ Due(t) \/ Post(t)

Spec == Init /\ [][Next]_vars

\* What the loop's own thread does, and what happens outside of it.
OnThread == Driven \/ Loop \/ Closing \/ \E t \in Fibers : Step(t)
Outside(t) == Complete(t) \/ Due(t)

---------------------------------------------------------------------------
HostWork == ready # <<>> \/ queue # <<>> \/ Overdue

\* Once the driver is parked and asyncio blocks, there is no queued
\* callback, runnable task or due timer that nobody is about to announce:
\* what _break_wait(), the queued wake of Event.set() and the poll of a
\* driver with leftover work are for.  An interrupt is not covered.
HostedWakes ==
  /\ (drv.pc = "parked" /\ loop.blocked /\ runner.sigints = 0) =>
        ~HostWork \/ poster.owes
  /\ (drv.pc = "left" /\ runner.mode = "idle") => \A t \in Fibers : ~Alive(t)

\* aclose() returns after every task ended, unless a KeyboardInterrupt left
\* the loop from inside a task.
ShutdownDrains == runner.phase = "closed" => \A t \in Fibers : ~Alive(t)
DrainsUnlessFatal == ~runner.fatal => ShutdownDrains

\* The driver got to its end, or an interrupt may have found it parked.
Over ==
  \/ runner.phase = "closed" \/ (runner.mode = "idle" /\ drv.pc = "left")
  \/ drv.pc = "broken" \/ runner.sigints > 0
=============================================================================
