----------------------- MODULE SchedulerDriverProofs -----------------------
(***************************************************************************)
(* The actions of Scheduler that do not transfer control, the callbacks    *)
(* and timers of the driver, its loop and the posting threads keep IndInv. *)
(***************************************************************************)
EXTENDS SchedulerSwitchProofs

(***************************************************************************)
(* The steps of a task that keep it running.                               *)
(***************************************************************************)

\* A callback that names an existing task may be queued.
LEMMA AppendCallback ==
  ASSUME CallbacksNameTasks, ready \in Seq(Callbacks), NEW cb \in Postable,
         ready' = Append(ready, cb), state' = state
  PROVE  /\ CallbacksNameTasks'
         /\ ready' \in Seq(Callbacks)
         /\ Len(ready') = Len(ready) + 1
<1>1. cb \in Callbacks
  BY DEF Postable
<1>2. cb.op \in {"cancel", "run"} => cb.task \in Tasks /\ state[cb.task] # "new"
  BY DEF Postable
<1>3. \A i \in 1 .. Len(ready) + 1 :
        ready'[i] = IF i <= Len(ready) THEN ready[i] ELSE cb
  BY <1>1
<1>4. ready' \in Seq(Callbacks) /\ Len(ready') = Len(ready) + 1
  BY <1>1
<1>5. CallbacksNameTasks'
  BY <1>2, <1>3, <1>4 DEF CallbacksNameTasks
<1> QED BY <1>4, <1>5

\* set(), clear(), spawn(), reschedule(), call_soon(), stop(), a timeout
\* block and an except block keep the invariant.
LEMMA TaskActsInv ==
  ASSUME Placed, Timed, Driven, Typed, NEW t \in Tasks, TaskActs(t)
  PROVE  Placed' /\ Timed' /\ Driven' /\ Typed'
<1>1. CASE SetEvent(t)
  <2>1. /\ Placed' /\ Timed' /\ due' = due /\ isset' \in BOOLEAN
        /\ UNCHANGED <<cur, state, inflight, xfer>>
    BY <1>1, EventSetInv DEF SetEvent
  <2>2. cur # Main
    BY <1>1, MainAssumption DEF SetEvent, Running
  <2>3. Driven'
    BY <1>1, <2>1, <2>2, DrivenStays DEF Driven, DriverSuspended, SetEvent,
       driverStays, driverVars
  <2>4. Typed'
    BY <1>1, <2>1 DEF Typed, SetEvent, driverStays, driverVars, threadVars
  <2> QED BY <2>1, <2>3, <2>4
<1>2. CASE ClearEvent(t) \/ StopDriver(t) \/ Catch(t)
  <2>1. /\ UNCHANGED <<cur, runnable, link, state, xfer, waiters, timers, due,
                       ready, pc, ntodo, cap, now, wakeup, poster, nposts>>
        /\ cur = t
        /\ isset' \in BOOLEAN /\ stopping' \in BOOLEAN
        /\ inflight' \in [Tasks -> Tealets \cup {None}]
        /\ \A u \in Tasks : inflight'[u] # u
    BY ZenonT(30), <1>2, NoneAssumption DEF Typed, ClearEvent, StopDriver, Catch, taskVars,
       eventVars, timerVars, threadVars, driverVars, driverStays, Running
  <2>2. Placed'
    BY <2>1 DEF Placed
  <2>3. Timed'
    BY <2>1 DEF Timed, NoTaskLost, WakeTimers, TimeoutOf, Switchable
  <2>4. Driven'
    BY ZenonT(30), <2>1, MainAssumption, DrivenStays DEF Driven, DriverSuspended
  <2>5. Typed'
    BY <2>1 DEF Typed
  <2> QED BY <2>2, <2>3, <2>4, <2>5
<1>3. ASSUME NEW u \in Tasks, SpawnTask(t, u)
      PROVE  Placed' /\ Timed' /\ Driven' /\ Typed'
  <2>1. cur = t /\ cur # Main
    BY <1>3, MainAssumption DEF SpawnTask, MayPark, Running
  <2>2. /\ Placed' /\ Timed' /\ due' = due
        /\ \A v \in Tasks : state[v] # "new" => state'[v] # "new"
        /\ UNCHANGED <<inflight, isset, xfer>>
    BY <1>3, <2>1, SpawnPrimedInv, SpawnEagerInv DEF SpawnTask
  <2>3. Driven'
    BY SMTT(20), <1>3, <2>1, <2>2, DrivenStays DEF Driven, DriverSuspended, SpawnTask,
       driverStays, driverVars
  <2>4. Typed'
    BY <1>3, <2>2 DEF Typed, SpawnTask, driverStays, driverVars, threadVars
  <2> QED BY <2>2, <2>3, <2>4
<1>4. ASSUME NEW u \in Tasks, NEW p \in Positions, RescheduleTask(t, u, p)
      PROVE  Placed' /\ Timed' /\ Driven' /\ Typed'
  <2>1. /\ UNCHANGED <<cur, link, state, inflight, xfer, waiters, isset, timers,
                       due, ready, pc, ntodo, cap, stopping, now, wakeup,
                       poster, nposts>>
        /\ cur = t
        /\ u \in Range(runnable)
        /\ runnable' = Reschedule(runnable, u, p)
    BY <1>4 DEF RescheduleTask, eventVars, timerVars, threadVars, driverVars,
                driverStays, Running
  <2>2. p \in Position
    BY PositionsAssumption DEF Position
  <2>3. Queue(runnable', Tealets, Range(runnable))
    BY <2>1, <2>2, RescheduleQueue DEF Placed, Linked, Queue
  <2>4. Placed'
    BY SMTT(20), <2>1, <2>3 DEF Placed, Linked, Queue
  <2>5. Timed'
    BY ZenonT(30), <2>1 DEF Timed, NoTaskLost, WakeTimers, TimeoutOf, Switchable
  <2>6. Driven'
    BY <2>1, MainAssumption, DrivenStays DEF Driven, DriverSuspended
  <2>7. Typed'
    BY <2>1 DEF Typed
  <2> QED BY <2>4, <2>5, <2>6, <2>7
<1>5. ASSUME NEW cb \in Postable, CallSoon(t, cb)
      PROVE  Placed' /\ Timed' /\ Driven' /\ Typed'
  <2>1. /\ UNCHANGED <<cur, runnable, link, state, inflight, xfer, waiters,
                       isset, timers, due, pc, ntodo, cap, stopping, now,
                       wakeup, poster, nposts>>
        /\ cur = t /\ cur # Main
        /\ ready' = Append(ready, cb)
    BY <1>5, MainAssumption DEF CallSoon, taskVars, eventVars, timerVars,
       threadVars, driverVars, driverStays, Running
  <2>2. /\ CallbacksNameTasks'
        /\ ready' \in Seq(Callbacks)
        /\ Len(ready') = Len(ready) + 1
    BY <2>1, AppendCallback DEF Driven, Typed
  <2>3. Placed'
    BY SMTT(20), <2>1 DEF Placed
  <2>4. Timed'
    BY <2>1 DEF Timed, NoTaskLost, WakeTimers, TimeoutOf, Switchable
  <2>5. Driven'
    BY <2>1, <2>2 DEF Driven, Typed, NoLostWakeup, DriverSuspended, DrainBounded
  <2>6. Typed'
    BY <2>1, <2>2 DEF Typed
  <2> QED BY <2>3, <2>4, <2>5, <2>6
<1>6. ASSUME NEW when \in 0 .. MaxTime, LeaveTimeout(t) \/ ArmTimeout(t, when)
      PROVE  Placed' /\ Timed' /\ Driven' /\ Typed'
  <2> DEFINE new == [when |-> when, kind |-> "timeout", task |-> t]
  <2>1. /\ UNCHANGED <<cur, runnable, link, state, inflight, xfer, waiters,
                       isset, ready, pc, ntodo, cap, stopping, now, wakeup,
                       poster, nposts>>
        /\ cur = t /\ cur # Main /\ state[t] = "run"
        /\ due' = due \ TimeoutOf(t)
        /\ \/ timers' = timers \ TimeoutOf(t)
           \/ timers' = (timers \ TimeoutOf(t)) \cup {new}
    BY SMTT(20), <1>6, MainAssumption DEF LeaveTimeout, ArmTimeout, taskVars, eventVars,
       threadVars, driverVars, driverStays, Running
  <2>2. new \in Timers /\ new.kind = "timeout" /\ new.task = t
    BY BoundsAssumption DEF Timers
  <2> HIDE DEF new
  <2>3. Placed'
    BY SMTT(20), <2>1 DEF Placed
  <2>4. ASSUME NEW u \in Tasks
        PROVE  /\ WakeTimers(u)' = WakeTimers(u)
               /\ u # t => TimeoutOf(u)' = TimeoutOf(u)
    BY ZenonT(30), <2>1, <2>2 DEF WakeTimers, TimeoutOf
  <2>5. NoTaskLost'
    BY SMTT(20), <2>1, <2>4 DEF Timed, NoTaskLost, Switchable
  <2>6. Timed'
    BY <2>1, <2>2, <2>5 DEF Timed, TimeoutOf
  <2>7. Driven'
    BY <2>1, DrivenStays DEF Driven, DriverSuspended
  <2>8. Typed'
    BY <2>1 DEF Typed
  <2> QED BY <2>3, <2>6, <2>7, <2>8
<1>7. 0 \in 0 .. MaxTime
  BY BoundsAssumption
<1> QED BY <1>1, <1>2, <1>3, <1>4, <1>5, <1>6, <1>7 DEF TaskActs
(***************************************************************************)
(* The steps of the driver.                                                *)
(***************************************************************************)

\* The callbacks that stay queued go on naming existing tasks.
LEMMA TailCallbacks ==
  ASSUME CallbacksNameTasks, ready \in Seq(Callbacks), Len(ready) > 0,
         ready' = Tail(ready),
         \A u \in Tasks : state[u] # "new" => state'[u] # "new"
  PROVE  /\ CallbacksNameTasks'
         /\ ready' \in Seq(Callbacks)
         /\ Len(ready') = Len(ready) - 1
<1>1. ready' \in Seq(Callbacks) /\ Len(ready') = Len(ready) - 1
  OBVIOUS
<1>2. \A i \in 1 .. Len(ready) - 1 :
        i + 1 \in 1 .. Len(ready) /\ ready'[i] = ready[i + 1]
  OBVIOUS
<1>3. CallbacksNameTasks'
  BY SMTT(20), <1>1, <1>2 DEF CallbacksNameTasks
<1> QED BY <1>1, <1>3

\* What a callback does, with the driver's tealet running.
LEMMA CallbackEffectInv ==
  ASSUME Placed, Timed, Typed, cur = Main, NEW cb,
         cb.op \in {"cancel", "run"} => cb.task \in Tasks /\ state[cb.task] # "new",
         CallbackEffect(cb)
  PROVE  /\ Placed' /\ Timed' /\ due' \subseteq due
         /\ \A u \in Tasks : state[u] # "new" => state'[u] # "new"
         /\ isset' \in BOOLEAN /\ xfer' \in Nat
         /\ inflight' \in [Tasks -> Tealets \cup {None}]
         /\ \A t \in Tasks : inflight'[t] # t
<1>1. CASE cb.op = "cancel" /\ Cancel(Main, cb.task) /\ state[cb.task] # "done"
  <2>1. cb.task \in Tasks /\ cb.task # cur /\ Switchable(cb.task)
    BY ZenonT(30), <1>1, MainAssumption DEF Switchable, Placed, States, Tealets
  <2>2. Throw(cur, cb.task, due)
    BY SMTT(20), <1>1 DEF Cancel
  <2> QED BY ZenonT(30), <2>1, <2>2, ThrowInv DEF Typed
<1>2. CASE cb.op = "run" /\ Switchable(cb.task) /\ RunTask(Main, cb.task)
  <2>1. cb.task \in Tasks /\ cb.task # cur
    BY <1>2, MainAssumption
  <2>2. /\ Placed' /\ Timed'
        /\ state' = [state EXCEPT ![cb.task] = "run"]
        /\ due' \subseteq due
        /\ UNCHANGED <<inflight, isset, xfer>>
    BY <1>2, <2>1, RunTaskInv
  <2> QED BY <2>1, <2>2 DEF Typed, Placed, Tealets
<1>3. ASSUME NEW u \in Tasks, SpawnEager(Main, u) \/ SpawnPrimed(u)
      PROVE  /\ Placed' /\ Timed' /\ due' = due
             /\ \A t \in Tasks : state[t] # "new" => state'[t] # "new"
             /\ UNCHANGED <<inflight, isset, xfer>>
  BY <1>3, SpawnEagerInv, SpawnPrimedInv
<1>4. CASE EventSet
  BY <1>4, EventSetInv DEF Typed
<1>5. CASE UNCHANGED <<taskVars, eventVars, timerVars>>
  <2>1. UNCHANGED <<cur, runnable, link, state, inflight, xfer, waiters, isset,
                    timers, due>>
    BY <1>5 DEF taskVars, eventVars, timerVars
  <2>2. Placed'
    BY <2>1 DEF Placed
  <2>3. Timed'
    BY SMTT(20), <2>1 DEF Timed, NoTaskLost, WakeTimers, TimeoutOf, Switchable
  <2> QED BY <2>1, <2>2, <2>3 DEF Typed
<1>6. CASE cb.op = "cancel" /\ Cancel(Main, cb.task) /\ state[cb.task] = "done"
  BY ZenonT(30), <1>5, <1>6 DEF Cancel
<1> QED BY ZenonT(30), <1>1, <1>2, <1>3, <1>4, <1>5, <1>6 DEF CallbackEffect, Typed

\* _drain_ready_callbacks() keeps the invariant.
LEMMA RunCallbackInv ==
  ASSUME Placed, Timed, Driven, Typed, RunCallback
  PROVE  Placed' /\ Timed' /\ Driven' /\ Typed'
<1> DEFINE cb == Head(ready)
<1>1. /\ cur = Main /\ pc = "callbacks" /\ ntodo > 0 /\ ntodo' = ntodo - 1
      /\ ready' = Tail(ready) /\ CallbackEffect(cb)
      /\ stopping' \in BOOLEAN
      /\ UNCHANGED <<pc, cap, poster, nposts, now, wakeup>>
  BY DEF RunCallback, AtMain, threadVars, Typed
<1>2. ready \in Seq(Callbacks) /\ ntodo \in Nat /\ ntodo <= Len(ready)
      /\ Len(ready) \in Nat
  BY <1>1 DEF Typed, Driven, DrainBounded
<1>3. cb.op \in {"cancel", "run"} => cb.task \in Tasks /\ state[cb.task] # "new"
  <2>1. cb = ready[1] /\ 1 \in 1 .. Len(ready)
    BY <1>1, <1>2
  <2> QED BY <2>1 DEF Driven, CallbacksNameTasks
<1> HIDE DEF cb
<1>4. /\ Placed' /\ Timed' /\ due' \subseteq due
      /\ \A u \in Tasks : state[u] # "new" => state'[u] # "new"
      /\ isset' \in BOOLEAN /\ xfer' \in Nat
      /\ inflight' \in [Tasks -> Tealets \cup {None}]
      /\ \A t \in Tasks : inflight'[t] # t
  BY <1>1, <1>3, CallbackEffectInv
<1>5. /\ CallbacksNameTasks'
      /\ ready' \in Seq(Callbacks)
      /\ Len(ready') = Len(ready) - 1
  BY <1>1, <1>2, <1>4, TailCallbacks DEF Driven
<1>6. Driven'
  BY <1>1, <1>2, <1>4, <1>5 DEF Driven, NoLostWakeup, DriverSuspended,
                                DrainBounded
<1>7. ntodo' \in Nat
  BY <1>1, <1>2
<1>8. Typed'
  BY <1>1, <1>4, <1>5, <1>7 DEF Typed
<1> QED BY <1>4, <1>6, <1>8

\* _run_ready_timers() keeps the invariant.
LEMMA RunTimerInv ==
  ASSUME Placed, Timed, Driven, Typed, RunTimer
  PROVE  Placed' /\ Timed' /\ Driven' /\ Typed'
<1>1. PICK h \in due :
        \/ /\ h.kind = "wake"
           /\ due' = due \ {h}
           /\ runnable' = Add(runnable, h.task, AtEnd)
           /\ link' = [link EXCEPT ![h.task] = "runnable"]
           /\ UNCHANGED <<cur, state, inflight, xfer, eventVars, timers>>
        \/ h.kind = "timeout" /\ Throw(Main, h.task, due \ {h})
  BY DEF RunTimer
<1>2. /\ cur = Main /\ pc = "timers"
      /\ UNCHANGED <<pc, ntodo, cap, stopping, poster, nposts, ready, now,
                     wakeup>>
  BY DEF RunTimer, AtMain, driverVars, threadVars
<1>3. h \in Timers /\ h.task \in Tasks /\ h.task \in Tealets /\ h.task # Main
  BY MainAssumption DEF Timed, Timers, Tealets
<1>4. CASE h.kind = "wake"
  <2>1. /\ due' = due \ {h}
        /\ runnable' = Add(runnable, h.task, AtEnd)
        /\ link' = [link EXCEPT ![h.task] = "runnable"]
        /\ UNCHANGED <<cur, state, inflight, xfer, waiters, isset, timers>>
    BY <1>1, <1>4 DEF eventVars
  <2>2. h \in WakeTimers(h.task)
    BY <1>4 DEF WakeTimers
  <2>3. state[h.task] = "run" /\ link[h.task] = "none"
    BY <1>3, <2>2 DEF Timed, NoTaskLost
  <2>4. Linked(runnable', waiters', link')
    BY ZenonT(30), <1>3, <2>1, <2>3, AddLinked DEF Placed, Position
  <2>5. Placed'
    BY Zenon, <1>2, <1>3, <2>1, <2>4 DEF Placed, Linked
  <2>6. ASSUME NEW u \in Tasks
        PROVE  /\ WakeTimers(u)' = IF u = h.task THEN {} ELSE WakeTimers(u)
               /\ TimeoutOf(u)' = TimeoutOf(u)
    <3>1. \A g \in timers \cup due : g.kind = "wake" /\ g.task = h.task => g = h
      BY <1>4 DEF Timed
    <3>2. h \notin timers
      BY SMTT(20) DEF Timed
    <3> QED BY <1>4, <2>1, <3>1, <3>2 DEF WakeTimers, TimeoutOf
  <2>7. NoTaskLost'
    BY ZenonT(30), <1>3, <2>1, <2>3, <2>6 DEF Placed, Timed, NoTaskLost, Switchable, Linked,
                                  Tealets
  <2>8. Timed'
    BY <2>1, <2>7 DEF Timed
  <2>9. Driven'
    BY <1>2, <2>1, DrivenStays
  <2>10. Typed'
    BY <1>2, <2>1 DEF Typed
  <2> QED BY <2>5, <2>8, <2>9, <2>10
<1>5. CASE h.kind = "timeout"
  <2>1. Throw(cur, h.task, due \ {h}) /\ h.task # cur
    BY <1>1, <1>2, <1>3, <1>5
  <2>2. h \in TimeoutOf(h.task)
    BY <1>5 DEF TimeoutOf
  <2>3. Switchable(h.task)
    BY <1>3, <2>2 DEF Timed, NoTaskLost
  <2>4. due \ {h} \subseteq due /\ \A g \in due \ (due \ {h}) : g.kind # "wake"
    BY <1>5
  <2>5. /\ Placed' /\ Timed'
        /\ state' = state /\ due' \subseteq due /\ isset' = isset /\ xfer' = xfer
        /\ inflight' \in [Tasks -> Tealets \cup {None}]
        /\ \A t \in Tasks : inflight'[t] # t
    BY <1>3, <2>1, <2>3, <2>4, ThrowInv
  <2>6. Driven'
    BY <1>2, <2>5, DrivenStays
  <2>7. Typed'
    BY <1>2, <2>5 DEF Typed
  <2> QED BY <2>5, <2>6, <2>7
<1> QED BY <1>1, <1>4, <1>5
\* The popping of the due timers keeps the invariant.
LEMMA PopDueInv ==
  ASSUME Placed, Timed, Driven, Typed, PopDue
  PROVE  Placed' /\ Timed' /\ Driven' /\ Typed'
<1>1. /\ pc = "callbacks" /\ pc' = "timers" /\ cur = Main
      /\ due' = {h \in timers : h.when <= now}
      /\ timers' = timers \ due'
      /\ UNCHANGED <<cur, runnable, link, state, inflight, xfer, waiters, isset,
                     poster, nposts, ntodo, cap, stopping, ready, now, wakeup>>
  BY DEF PopDue, AtMain, taskVars, eventVars, threadVars
<1>2. due = {}
  BY <1>1 DEF Driven
<1>3. /\ (timers \cup due)' = timers \cup due
      /\ timers' \subseteq timers /\ due' \subseteq timers
      /\ timers' \cap due' = {}
  BY <1>1, <1>2
<1>4. Placed'
  BY SMTT(20), <1>1 DEF Placed
<1>5. Timed'
  BY <1>1, <1>3 DEF Timed, NoTaskLost, WakeTimers, TimeoutOf, Switchable
<1>6. Driven'
  BY <1>1 DEF Driven, NoLostWakeup, DriverSuspended, CallbacksNameTasks,
              DrainBounded
<1>7. Typed'
  BY <1>1 DEF Typed
<1> QED BY <1>4, <1>5, <1>6, <1>7

\* The park of the driver that starts a batch keeps the invariant.
LEMMA EnterBatchInv ==
  ASSUME Placed, Timed, Driven, Typed, EnterBatch
  PROVE  Placed' /\ Timed' /\ Driven' /\ Typed'
<1>1. /\ cur = Main /\ pc = "timers" /\ due = {}
      /\ UNCHANGED <<waiters, isset, timers, due, poster, nposts, ntodo,
                     stopping, ready, now>>
  BY DEF EnterBatch, AtMain, eventVars, timerVars, threadVars
<1>2. CASE runnable = <<>>
  <2>1. pc' = "after"
        /\ UNCHANGED <<cur, runnable, link, state, inflight, xfer, cap, wakeup>>
    BY <1>2 DEF EnterBatch, taskVars
  <2>2. Placed'
    BY SMTT(20), <1>1, <2>1 DEF Placed
  <2>3. Timed'
    BY <1>1, <2>1 DEF Timed, NoTaskLost, WakeTimers, TimeoutOf, Switchable
  <2>4. Driven'
    BY <1>1, <2>1 DEF Driven, NoLostWakeup, DriverSuspended, CallbacksNameTasks,
                      DrainBounded
  <2>5. Typed'
    BY <1>1, <2>1 DEF Typed
  <2> QED BY <2>2, <2>3, <2>4, <2>5
<1>3. CASE runnable # <<>>
  <2> DEFINE limit == IF YieldEvery > 0 THEN YieldEvery ELSE Len(runnable)
             q == Add(runnable, Main, AtEnd)
             lk == [link EXCEPT ![Main] = "runnable"]
  <2>1. /\ pc' = "batch" /\ cap' = limit /\ wakeup' = TRUE
        /\ inflight' = inflight
        /\ FindTarget(q, lk, state, limit)
    BY SMTT(20), <1>3 DEF EnterBatch
  <2>2. limit \in Nat
    BY BoundsAssumption DEF Placed, Linked, Queue
  <2>3. Linked(q, waiters', lk)
    BY <1>1, AddLinked DEF Placed, Position
  <2>4. lk[Main] = "runnable"
    BY <1>1 DEF Placed, Linked
  <2>5. /\ Placed'
        /\ lk[cur'] = "runnable"
        /\ link' = [lk EXCEPT ![cur'] = "none"]
        /\ state' = [state EXCEPT ![cur'] = "run"]
        /\ xfer' \in Nat
    <3> HIDE DEF q, lk, limit
    <3> QED BY <2>1, <2>2, <2>3, <2>4, ParkPlaced DEF Placed, Typed
  <2>6. Timed'
    <3>1. cur' \in Tealets
      BY <2>5 DEF Placed
    <3> QED BY ZenonT(30), <1>1, <2>5, <3>1, ParkTimed
  <2>7. Driven'
    BY <1>1, <2>1, <2>5 DEF Placed, Driven, NoLostWakeup, DriverSuspended,
                            CallbacksNameTasks, DrainBounded, Tealets
  <2>8. Typed'
    BY <1>1, <2>1, <2>2, <2>5 DEF Typed
  <2> QED BY <2>5, <2>6, <2>7, <2>8
<1> QED BY <1>2, <1>3

\* A step that touches neither the tasks nor the timers.
LEMMA QuietInv ==
  ASSUME Placed, Timed,
         UNCHANGED <<cur, runnable, link, state, waiters, timers, due>>
  PROVE  Placed' /\ Timed'
<1>1. Placed'
  BY SMTT(20) DEF Placed
<1>2. Timed'
  BY DEF Timed, NoTaskLost, WakeTimers, TimeoutOf, Switchable
<1> QED BY <1>1, <1>2

\* The driver's loop tests, its poll and its wait keep the invariant.
LEMMA DriverLoopInv ==
  ASSUME Placed, Timed, Driven, Typed,
         \/ StartDriver \/ BeginBatch \/ FinishBatch \/ IdleOrPoll \/ PollIO
         \/ WaitReturn \/ ClearWakeup
  PROVE  Placed' /\ Timed' /\ Driven' /\ Typed'
<1>1. cur = Main /\ pc \in {"stopped", "check", "batch", "after", "poll",
                            "wait", "clear"}
  BY SMTT(20) DEF StartDriver, BeginBatch, FinishBatch, IdleOrPoll, PollIO, WaitReturn,
         ClearWakeup, AtMain
<1>2. UNCHANGED <<cur, runnable, link, state, inflight, waiters, isset, timers,
                  due, poster, nposts, ready, now>>
  BY Zenon DEF StartDriver, BeginBatch, FinishBatch, IdleOrPoll, PollIO, WaitReturn,
         ClearWakeup, tasksStay, taskVars, eventVars, timerVars, threadVars
<1>3. Placed' /\ Timed'
  BY <1>2, QuietInv
<1>4. /\ ntodo' \in Nat /\ xfer' \in Nat /\ cap' \in Nat
      /\ stopping' \in BOOLEAN /\ wakeup' \in BOOLEAN
      /\ pc' \in {"stopped", "check", "callbacks", "after", "poll", "wait",
                  "clear"}
      /\ pc' = "callbacks" => ntodo' = Len(ready)
  <2>1. ntodo' \in Nat /\ xfer' \in Nat /\ cap' \in Nat
    BY DEF StartDriver, BeginBatch, FinishBatch, IdleOrPoll, PollIO, WaitReturn,
           ClearWakeup, LeaveDriver, tasksStay, taskVars, Typed
  <2>2. stopping' \in BOOLEAN /\ wakeup' \in BOOLEAN
    BY Zenon DEF StartDriver, BeginBatch, FinishBatch, IdleOrPoll, PollIO,
       WaitReturn, ClearWakeup, LeaveDriver, Typed
  <2>3. /\ pc' \in {"stopped", "check", "callbacks", "after", "poll", "wait",
                    "clear"}
        /\ pc' = "callbacks" => ntodo' = Len(ready)
    BY DEF StartDriver, BeginBatch, FinishBatch, IdleOrPoll, PollIO, WaitReturn,
           ClearWakeup, LeaveDriver
  <2> QED BY SMTT(20), <2>1, <2>2, <2>3
<1>5. pc' = "wait" => /\ runnable = <<>> /\ ready = <<>>
                      /\ ~(Mode # "idle" /\ stopping)
                      /\ stopping' = stopping
  <2>1. pc' = "wait" => IdleOrPoll
    BY DEF StartDriver, BeginBatch, FinishBatch, PollIO, WaitReturn,
           ClearWakeup, LeaveDriver
  <2>2. ASSUME IdleOrPoll, pc' = "wait"
        PROVE  /\ runnable = <<>> /\ ready = <<>> /\ ~ShouldTerminate
               /\ stopping' = stopping
    BY <2>2 DEF IdleOrPoll, LeaveDriver
  <2>3. Mode # "idle" /\ stopping => ShouldTerminate
    BY Zenon, ModeAssumption DEF ShouldTerminate
  <2> QED BY <2>1, <2>2, <2>3
<1>6. Driven'
  BY <1>1, <1>2, <1>4, <1>5 DEF Driven, Typed, NoLostWakeup, DriverSuspended,
                                CallbacksNameTasks, DrainBounded
<1>7. Typed'
  BY <1>2, <1>4 DEF Typed
<1> QED BY <1>3, <1>6, <1>7

\* spawn() outside the driver keeps the invariant.
LEMMA SpawnOutsideInv ==
  ASSUME Placed, Timed, Driven, Typed, NEW u \in Tasks, SpawnOutside(u)
  PROVE  Placed' /\ Timed' /\ Driven' /\ Typed'
<1>1. /\ Placed' /\ Timed' /\ due' = due
      /\ \A t \in Tasks : state[t] # "new" => state'[t] # "new"
      /\ UNCHANGED <<cur, inflight, isset, xfer>>
  BY SpawnPrimedInv DEF SpawnOutside
<1>2. /\ pc = "stopped" /\ wakeup' = TRUE
      /\ UNCHANGED <<pc, ntodo, cap, stopping, poster, nposts, ready, now>>
  BY DEF SpawnOutside, AtMain, driverVars, threadVars
<1>3. Driven'
  BY SMTT(20), <1>1, <1>2 DEF Driven, NoLostWakeup, DriverSuspended, CallbacksNameTasks,
                    DrainBounded
<1>4. Typed'
  BY <1>1, <1>2 DEF Typed
<1> QED BY <1>1, <1>3, <1>4

\* The other thread's post, stop and signal, and the clock, keep the
\* invariant: a post leaves the poster between its append and its wake.
LEMMA ThreadInv ==
  ASSUME Placed, Timed, Driven, Typed, ThreadStep \/ Tick
  PROVE  Placed' /\ Timed' /\ Driven' /\ Typed'
<1>1. UNCHANGED <<cur, runnable, link, state, inflight, xfer, waiters, isset,
                  timers, due, pc, ntodo, cap>>
  BY DEF ThreadStep, Post, PostStop, Signal, Tick, taskVars, eventVars,
         timerVars, driverVars
<1>2. Placed' /\ Timed'
  BY <1>1, QuietInv
<1>3. ASSUME NEW cb \in Postable, Post(cb)
      PROVE  Driven' /\ Typed'
  <2>1. /\ poster' = "queued" /\ nposts' = nposts + 1
        /\ ready' = Append(ready, cb)
        /\ UNCHANGED <<stopping, now, wakeup>>
    BY <1>3 DEF Post, driverVars
  <2>2. /\ CallbacksNameTasks'
        /\ ready' \in Seq(Callbacks)
        /\ Len(ready') = Len(ready) + 1
    BY <1>1, <2>1, AppendCallback DEF Driven, Typed
  <2>3. Driven'
    BY <1>1, <2>1, <2>2 DEF Driven, Typed, NoLostWakeup, DriverSuspended,
                            DrainBounded
  <2>4. Typed'
    BY <1>1, <2>1, <2>2 DEF Typed
  <2> QED BY <2>3, <2>4
<1>4. CASE PostStop \/ Signal \/ Tick
  <2>1. /\ ready' = ready
        /\ poster' \in {"idle", "queued"} /\ nposts' \in Nat /\ now' \in Nat
        /\ stopping' \in BOOLEAN /\ wakeup' \in BOOLEAN
        /\ \/ poster' = "queued" \/ wakeup' = TRUE
           \/ UNCHANGED <<poster, stopping, wakeup>>
    <3>1. /\ ready' = ready
          /\ poster' \in {"idle", "queued"}
          /\ \/ poster' = "queued" \/ wakeup' = TRUE
             \/ UNCHANGED <<poster, stopping, wakeup>>
      BY <1>4 DEF PostStop, Signal, Tick, Typed, driverVars, threadVars
    <3>2. nposts' \in Nat /\ now' \in Nat
      BY <1>4 DEF PostStop, Signal, Tick, Typed, threadVars
    <3>3. stopping' \in BOOLEAN /\ wakeup' \in BOOLEAN
      BY <1>4, Zenon DEF PostStop, Signal, Tick, Typed, driverVars
    <3> QED BY <3>1, <3>2, <3>3
  <2>2. Driven'
    BY <1>1, <2>1 DEF Driven, Typed, NoLostWakeup, DriverSuspended,
                      CallbacksNameTasks, DrainBounded
  <2>3. Typed'
    BY <1>1, <2>1 DEF Typed
  <2> QED BY <1>2, <2>2, <2>3
<1> QED BY SMTT(20), <1>2, <1>3, <1>4 DEF ThreadStep
=============================================================================
