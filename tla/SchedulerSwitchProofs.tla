----------------------- MODULE SchedulerSwitchProofs -----------------------
(***************************************************************************)
(* The parts of the inductive invariant IndInv of Scheduler, and proofs    *)
(* that every transfer of control keeps them: yield, sleep, wait, finish,  *)
(* throw, run, spawn.                                                      *)
(***************************************************************************)
EXTENDS Scheduler, RunQueueProofs

Links == {"none", "runnable", "event"}
States == {"new", "primed", "run", "done"}

\* LinksAgree and the types it needs, of a queue q, a waiter list w and
\* links lk that a step is still building.
Linked(q, w, lk) ==
  /\ Queue(q, Tealets, Range(q))
  /\ Queue(w, Tealets, Range(w))
  /\ lk \in [Tealets -> Links]
  /\ \A t \in Tealets : /\ lk[t] = "runnable" <=> t \in Range(q)
                        /\ lk[t] = "event" <=> t \in Range(w)

\* _make_runnable() of a task that is on no list.
LEMMA AddLinked ==
  ASSUME NEW q, NEW w, NEW lk, Linked(q, w, lk),
         NEW c \in Tealets, lk[c] = "none", NEW p \in Position
  PROVE  Linked(Add(q, c, p), w, [lk EXCEPT ![c] = "runnable"])
<1>1. Queue(Add(q, c, p), Tealets, Range(q) \cup {c})
  BY AddQueue DEF Linked, Queue
<1>2. c \notin Range(w)
  BY DEF Linked
<1> QED BY <1>1, <1>2 DEF Linked, Queue, Links

\* _unlink() of a task, whatever list it is on.
LEMMA DropLinked ==
  ASSUME NEW q, NEW w, NEW lk, Linked(q, w, lk), NEW u \in Tealets
  PROVE  Linked(IF lk[u] = "runnable" THEN Discard(q, u) ELSE q,
                IF lk[u] = "event" THEN Discard(w, u) ELSE w,
                [lk EXCEPT ![u] = "none"])
<1>1. Queue(Discard(q, u), Tealets, Range(q) \ {u})
  BY RemoveQueue DEF Linked, Queue
<1>2. Queue(Discard(w, u), Tealets, Range(w) \ {u})
  BY RemoveQueue DEF Linked, Queue
<1>3. CASE lk[u] = "runnable"
  BY <1>1, <1>3 DEF Linked, Queue, Links
<1>4. CASE lk[u] = "event"
  BY <1>2, <1>4 DEF Linked, Queue, Links
<1>5. CASE lk[u] = "none"
  BY <1>5 DEF Linked, Queue, Links
<1> QED BY <1>3, <1>4, <1>5 DEF Linked, Links

\* _find_target(): while the driver's tealet is queued it takes a task off
\* the queue, and changes nothing else.
LEMMA FindTargetStep ==
  ASSUME NEW q, NEW w, NEW lk, NEW st, NEW limit \in Nat,
         Linked(q, w, lk), lk[Main] = "runnable", xfer \in Nat,
         FindTarget(q, lk, st, limit)
  PROVE  /\ cur' \in Tealets
         /\ lk[cur'] = "runnable"
         /\ Linked(runnable', w, link')
         /\ link' = [lk EXCEPT ![cur'] = "none"]
         /\ state' = [st EXCEPT ![cur'] = "run"]
         /\ xfer' \in Nat
<1> DEFINE steal == limit # 0 /\ xfer >= limit
<1>1. Main \in Tealets /\ Main \in Range(q)
  BY DEF Tealets, Linked
<1>2. q # <<>>
  BY <1>1 DEF Range
<1>3. xfer' \in Nat
  BY DEF FindTarget, Count
<1>4. CASE steal
  <2>1. /\ cur' = Main
        /\ runnable' = Discard(q, Main)
        /\ link' = [lk EXCEPT ![Main] = "none"]
        /\ state' = [st EXCEPT ![Main] = "run"]
    BY ZenonT(30), <1>4 DEF FindTarget
  <2>2. Linked(runnable', w, link')
    BY ZenonT(30), <1>1, <2>1, DropLinked
  <2> QED BY <1>1, <1>3, <2>1, <2>2
<1>5. CASE ~steal
  <2>1. /\ cur' = Head(q)
        /\ runnable' = PopNext(q)
        /\ link' = [lk EXCEPT ![Head(q)] = "none"]
        /\ state' = [st EXCEPT ![Head(q)] = "run"]
    BY ZenonT(30), <1>2, <1>5 DEF FindTarget
  <2>2. Head(q) \in Range(q) /\ Queue(PopNext(q), Tealets, Range(q) \ {Head(q)})
    BY <1>2, PopQueue DEF Linked, Queue
  <2>3. Head(q) \in Tealets /\ lk[Head(q)] = "runnable"
    BY <2>2 DEF Linked, Queue, Range
  <2>4. Linked(runnable', w, link')
    BY <2>1, <2>2, <2>3 DEF Linked, Queue, Links
  <2> QED BY <1>3, <2>1, <2>3, <2>4
<1> QED BY <1>4, <1>5

(***************************************************************************)
(* IndInv in four parts: where the tealets are, which timers they have,    *)
(* what the driver may do, and the rest of the types.                      *)
(***************************************************************************)

Placed ==
  /\ cur \in Tealets
  /\ Linked(runnable, waiters, link)
  /\ link[cur] = "none"
  /\ cur # Main => link[Main] = "runnable"
  /\ state \in [Tealets -> States]
  /\ state[Main] = "run"

Timed ==
  /\ timers \subseteq Timers
  /\ due \subseteq Timers
  /\ NoTaskLost
  /\ \A h, g \in timers \cup due : h.kind = g.kind /\ h.task = g.task => h = g
  /\ timers \cap due = {}

Driven ==
  /\ NoLostWakeup
  /\ DriverSuspended
  /\ due # {} => pc = "timers"
  /\ CallbacksNameTasks
  /\ DrainBounded

Typed ==
  /\ inflight \in [Tasks -> Tealets \cup {None}]
  /\ \A t \in Tasks : inflight[t] # t
  /\ isset \in BOOLEAN
  /\ ready \in Seq(Callbacks)
  /\ now \in Nat
  /\ pc \in {"stopped", "check", "callbacks", "timers", "batch", "after",
             "poll", "wait", "clear"}
  /\ ntodo \in Nat
  /\ xfer \in Nat
  /\ cap \in Nat
  /\ stopping \in BOOLEAN
  /\ wakeup \in BOOLEAN
  /\ poster \in {"idle", "queued"}
  /\ nposts \in Nat

\* The parts are IndInv.
LEMMA Parts == IndInv <=> Placed /\ Timed /\ Driven /\ Typed
BY DEF IndInv, Placed, Timed, Driven, Typed, TypeOK, LinksAgree, Linked, Queue,
       CurrentUnlinked, MainReachable, TimersUnique, ThrowersDistinct, Links,
       States, Tealets

\* A park under any driver: what _find_target() takes off the queue runs.
LEMMA ParkPlaced ==
  ASSUME NEW q, NEW lk, NEW st \in [Tealets -> States], NEW limit \in Nat,
         Linked(q, waiters', lk), lk[Main] = "runnable", st[Main] = "run",
         xfer \in Nat, FindTarget(q, lk, st, limit)
  PROVE  /\ Placed'
         /\ lk[cur'] = "runnable"
         /\ link' = [lk EXCEPT ![cur'] = "none"]
         /\ state' = [st EXCEPT ![cur'] = "run"]
         /\ xfer' \in Nat
<1>1. /\ cur' \in Tealets
      /\ lk[cur'] = "runnable"
      /\ Linked(runnable', waiters', link')
      /\ link' = [lk EXCEPT ![cur'] = "none"]
      /\ state' = [st EXCEPT ![cur'] = "run"]
      /\ xfer' \in Nat
  BY FindTargetStep
<1>2. Main \in Tealets /\ lk \in [Tealets -> Links]
  BY DEF Tealets, Linked
<1> QED BY <1>1, <1>2 DEF Placed, States

\* The switch of throw(), run() and cancel(): the caller c is queued, the
\* target u leaves whatever it is on.
LEMMA SwitchPlaced ==
  ASSUME Placed, NEW u \in Tasks, u # cur, NEW p \in Position,
         NEW st \in [Tealets -> States], st[Main] = "run", NEW rest,
         SwitchTo(u, Add(runnable, cur, p), [link EXCEPT ![cur] = "runnable"],
                  st, rest)
  PROVE  /\ Placed'
         /\ link' = [link EXCEPT ![cur] = "runnable", ![u] = "none"]
<1> DEFINE q == Add(runnable, cur, p)
           lk == [link EXCEPT ![cur] = "runnable"]
<1>1. Linked(q, waiters, lk)
  BY AddLinked DEF Placed
<1>2. u \in Tealets /\ Main \in Tealets /\ u # Main
  BY MainAssumption DEF Tealets
<1>3. lk[u] = link[u]
  BY <1>2 DEF Placed, Linked
<1>4. /\ runnable' = IF lk[u] = "runnable" THEN Discard(q, u) ELSE q
      /\ waiters' = IF lk[u] = "event" THEN Discard(waiters, u) ELSE waiters
      /\ link' = [lk EXCEPT ![u] = "none"]
  BY <1>3 DEF SwitchTo
<1>5. Linked(runnable', waiters', link')
  <2> HIDE DEF q, lk
  <2> QED BY ZenonT(30), <1>1, <1>2, <1>4, DropLinked
<1>6. cur' = u /\ state' = st
  BY DEF SwitchTo
<1>7. link'[u] = "none" /\ link'[Main] = "runnable"
  BY <1>2, <1>4 DEF Placed, Linked
<1> QED BY <1>2, <1>4, <1>5, <1>6, <1>7 DEF Placed

\* The same switch, and the timers: the target's sleep ends with it.
LEMMA SwitchTimed ==
  ASSUME Placed, Timed, NEW u \in Tasks, u # cur, Switchable(u),
         cur' = u, state'[u] \in {"primed", "run"},
         \A t \in Tasks : t # u => state'[t] = state[t],
         link' = [link EXCEPT ![cur] = "runnable", ![u] = "none"],
         NEW rest, rest \subseteq due, \A h \in due \ rest : h.kind # "wake",
         timers' = CancelWake(timers, u), due' = CancelWake(rest, u)
  PROVE  Timed'
<1> USE DEF Timed, Timers, CancelWake
<1>1. timers' \subseteq timers /\ due' \subseteq due
  OBVIOUS
<1>2. cur \in Tealets /\ link \in [Tealets -> Links] /\ Tasks \subseteq Tealets
  BY DEF Placed, Linked, Tealets
<1>3. ASSUME NEW t \in Tasks
      PROVE  /\ WakeTimers(t)' = IF t = u THEN {} ELSE WakeTimers(t)
             /\ TimeoutOf(t)' \subseteq TimeoutOf(t)
  BY <1>1 DEF WakeTimers, TimeoutOf
<1>4. NoTaskLost'
  BY <1>2, <1>3 DEF NoTaskLost, Switchable
<1> QED BY <1>1, <1>4

\* A step of a task, or of the driver inside a batch, that adds no callback.
LEMMA DrivenStays ==
  ASSUME Driven, pc \in {"callbacks", "timers", "batch"},
         pc' = pc, ntodo' = ntodo, due' \subseteq due, ready' = ready,
         \A u \in Tasks : state[u] # "new" => state'[u] # "new"
  PROVE  Driven'
BY DEF Driven, NoLostWakeup, DriverSuspended, CallbacksNameTasks, DrainBounded

\* A tealet that queues itself and parks disturbs no timer, and the tealet it
\* switches to was waiting for none.
LEMMA ParkTimed ==
  ASSUME Placed, Timed, UNCHANGED <<timers, due>>,
         cur' \in Tealets,
         NEW lk, lk = [link EXCEPT ![cur] = "runnable"],
         lk[cur'] = "runnable",
         link' = [lk EXCEPT ![cur'] = "none"],
         state' = [state EXCEPT ![cur'] = "run"]
  PROVE  Timed'
<1>1. /\ cur \in Tealets /\ link \in [Tealets -> Links]
      /\ state \in [Tealets -> States] /\ Tasks \subseteq Tealets
  BY DEF Placed, Linked, Tealets
<1>2. ASSUME NEW t \in Tasks
      PROVE  WakeTimers(t)' = WakeTimers(t) /\ TimeoutOf(t)' = TimeoutOf(t)
  BY DEF WakeTimers, TimeoutOf
<1>3. NoTaskLost'
  <2> SUFFICES ASSUME NEW t \in Tasks
               PROVE  /\ Switchable(t)' /\ t # cur' =>
                           link'[t] # "none" \/ WakeTimers(t)' # {}
                      /\ WakeTimers(t)' # {} =>
                           state'[t] = "run" /\ t # cur' /\ link'[t] = "none"
                      /\ ~Switchable(t)' =>
                           t # cur' /\ link'[t] = "none" /\ TimeoutOf(t)' = {}
    BY ZenonT(30) DEF NoTaskLost
  <2>1. /\ Switchable(t) /\ t # cur => link[t] # "none" \/ WakeTimers(t) # {}
        /\ WakeTimers(t) # {} => state[t] = "run" /\ t # cur /\ link[t] = "none"
        /\ ~Switchable(t) => t # cur /\ link[t] = "none" /\ TimeoutOf(t) = {}
    BY DEF Timed, NoTaskLost
  <2>2. CASE t = cur'
    <3>1. WakeTimers(t) = {}
      BY <1>1, <2>1, <2>2
    <3>2. state'[t] = "run" /\ Switchable(t)'
      BY <1>1, <2>2 DEF Switchable
    <3> QED BY <1>2, <2>2, <3>1, <3>2
  <2>3. CASE t # cur'
    <3>1. /\ state'[t] = state[t]
          /\ link'[t] = IF t = cur THEN "runnable" ELSE link[t]
      BY <1>1, <2>3
    <3> QED BY <1>2, <2>1, <2>3, <3>1 DEF Switchable
  <2> QED BY <2>2, <2>3
<1> QED BY <1>3 DEF Timed

\* yield_() keeps the invariant.
LEMMA YieldInv ==
  ASSUME Placed, Timed, Driven, Typed, NEW t \in Tasks, Yield(t)
  PROVE  Placed' /\ Timed' /\ Driven' /\ Typed'
<1> DEFINE q == Add(runnable, t, AtEnd)
           lk == [link EXCEPT ![t] = "runnable"]
<1>1. t = cur /\ t # Main /\ t \in Tealets
  BY MainAssumption DEF Yield, MayPark, Running, Tealets
<1>2. Linked(q, waiters', lk)
  BY <1>1, AddLinked DEF Placed, Position, Yield, eventVars
<1>3. lk[Main] = "runnable"
  BY <1>1 DEF Placed, Linked, Tealets
<1>4. FindTarget(q, lk, state, cap)
  BY DEF Yield
<1>5. /\ Placed'
      /\ lk[cur'] = "runnable"
      /\ link' = [lk EXCEPT ![cur'] = "none"]
      /\ state' = [state EXCEPT ![cur'] = "run"]
      /\ xfer' \in Nat
  <2> HIDE DEF q, lk
  <2> QED BY <1>2, <1>3, <1>4, ParkPlaced DEF Placed, Typed
<1>6. Timed'
  <2>1. UNCHANGED <<timers, due>> /\ cur' \in Tealets
    BY <1>5 DEF Yield, timerVars, Placed
  <2> QED BY ZenonT(30), <1>1, <1>5, <2>1, ParkTimed
<1>7. Driven'
  BY <1>1, <1>5, DrivenStays DEF Placed, Driven, DriverSuspended, Yield,
     driverStays, driverVars, timerVars, Tealets, States
<1>8. Typed'
  BY <1>5 DEF Typed, Yield, driverStays, driverVars, threadVars, eventVars
<1> QED BY <1>5, <1>6, <1>7, <1>8

\* yield_to() keeps the invariant.
LEMMA YieldToInv ==
  ASSUME Placed, Timed, Driven, Typed, NEW t \in Tasks, NEW u \in Tasks,
         NEW p \in Positions, YieldToTask(t, u, p)
  PROVE  Placed' /\ Timed' /\ Driven' /\ Typed'
<1> DEFINE q == YieldTo(runnable, u, t, p)
           lk == [link EXCEPT ![t] = "runnable"]
<1>1. t = cur /\ t # Main /\ t \in Tealets /\ u \in Range(runnable)
  BY MainAssumption DEF YieldToTask, MayPark, Running, Tealets
<1>2. p \in Position
  BY PositionsAssumption DEF Position
<1>3. Queue(q, Tealets, Range(runnable) \cup {t})
  BY <1>1, <1>2, YieldToQueue DEF Placed, Linked, Queue
<1>4. Linked(q, waiters', lk)
  <2>1. waiters' = waiters
    BY DEF YieldToTask, eventVars
  <2> HIDE DEF q
  <2> QED BY <1>1, <1>3, <2>1 DEF Placed, Linked, Queue, Links
<1>5. lk[Main] = "runnable"
  BY <1>1 DEF Placed, Linked, Tealets
<1>6. FindTarget(q, lk, state, 0)
  BY DEF YieldToTask
<1>7. /\ Placed'
      /\ lk[cur'] = "runnable"
      /\ link' = [lk EXCEPT ![cur'] = "none"]
      /\ state' = [state EXCEPT ![cur'] = "run"]
      /\ xfer' \in Nat
  <2> HIDE DEF q, lk
  <2> QED BY <1>4, <1>5, <1>6, ParkPlaced DEF Placed, Typed
<1>8. Timed'
  <2>1. UNCHANGED <<timers, due>> /\ cur' \in Tealets
    BY <1>7 DEF YieldToTask, timerVars, Placed
  <2> QED BY ZenonT(30), <1>1, <1>7, <2>1, ParkTimed
<1>9. Driven'
  BY <1>1, <1>7, DrivenStays DEF Placed, Driven, DriverSuspended, YieldToTask,
     driverStays, driverVars, timerVars, Tealets, States
<1>10. Typed'
  BY <1>7 DEF Typed, YieldToTask, driverStays, driverVars, threadVars, eventVars
<1> QED BY <1>7, <1>8, <1>9, <1>10

\* _sleep_until() keeps the invariant.
LEMMA SleepInv ==
  ASSUME Placed, Timed, Driven, Typed, NEW t \in Tasks, NEW when \in 1 .. MaxTime,
         Sleep(t, when)
  PROVE  Placed' /\ Timed' /\ Driven' /\ Typed'
<1> DEFINE new == [when |-> when, kind |-> "wake", task |-> t]
<1>1. t = cur /\ t # Main /\ t \in Tealets /\ state[t] = "run"
  BY MainAssumption DEF Sleep, MayPark, Running, Tealets
<1>2. Linked(runnable, waiters', link)
  BY DEF Placed, Sleep, eventVars
<1>3. link[Main] = "runnable"
  BY <1>1 DEF Placed
<1>4. FindTarget(runnable, link, state, cap)
  BY DEF Sleep
<1>5. /\ Placed'
      /\ link[cur'] = "runnable"
      /\ link' = [link EXCEPT ![cur'] = "none"]
      /\ state' = [state EXCEPT ![cur'] = "run"]
      /\ xfer' \in Nat
  BY <1>2, <1>3, <1>4, ParkPlaced DEF Placed, Typed
<1>6. Timed'
  <2>1. timers' = timers \cup {new} /\ due' = due
    BY DEF Sleep
  <2>2. new \in Timers /\ new.kind = "wake" /\ new.task = t
    BY BoundsAssumption DEF Timers
  <2> HIDE DEF new
  <2>3. cur' # t /\ link'[t] = "none" /\ state'[t] = "run"
    BY <1>1, <1>5 DEF Placed, Linked, Links, States
  <2>4. WakeTimers(t) = {}
    BY <1>1 DEF Timed, NoTaskLost
  <2>5. ASSUME NEW u \in Tasks
        PROVE  /\ WakeTimers(u)' = IF u = t THEN {new} ELSE WakeTimers(u)
               /\ TimeoutOf(u)' = TimeoutOf(u)
    BY SMTT(20), <2>1, <2>2, <2>4 DEF WakeTimers, TimeoutOf
  <2>6. NoTaskLost'
    BY <1>1, <1>5, <2>3, <2>5 DEF Placed, Timed, NoTaskLost, Switchable, Linked,
                                  Tealets
  <2>7. \A h \in timers \cup due : ~(h.kind = "wake" /\ h.task = t)
    BY <2>4 DEF WakeTimers
  <2> QED BY <2>1, <2>2, <2>6, <2>7 DEF Timed
<1>7. Driven'
  BY <1>1, <1>5, DrivenStays DEF Placed, Driven, DriverSuspended, Sleep,
     driverStays, driverVars, Tealets, States
<1>8. Typed'
  BY <1>5 DEF Typed, Sleep, driverStays, driverVars, threadVars, eventVars
<1> QED BY <1>5, <1>6, <1>7, <1>8

\* Event.swait() keeps the invariant.
LEMMA EventWaitInv ==
  ASSUME Placed, Timed, Driven, Typed, NEW t \in Tasks, EventWait(t)
  PROVE  Placed' /\ Timed' /\ Driven' /\ Typed'
<1> DEFINE lk == [link EXCEPT ![t] = "event"]
<1>1. t = cur /\ t # Main /\ t \in Tealets
  BY MainAssumption DEF EventWait, MayPark, Running, Tealets
<1>2. t \notin Range(runnable) /\ t \notin Range(waiters)
  BY <1>1 DEF Placed, Linked
<1>3. Queue(waiters', Tealets, Range(waiters) \cup {t})
  BY <1>1, <1>2, AppendQueue DEF Placed, Linked, Queue, EventWait
<1>4. Linked(runnable, waiters', lk)
  BY <1>1, <1>2, <1>3 DEF Placed, Linked, Queue, Links
<1>5. lk[Main] = "runnable"
  BY <1>1 DEF Placed, Linked, Tealets
<1>6. FindTarget(runnable, lk, state, cap)
  BY DEF EventWait
<1>7. /\ Placed'
      /\ lk[cur'] = "runnable"
      /\ link' = [lk EXCEPT ![cur'] = "none"]
      /\ state' = [state EXCEPT ![cur'] = "run"]
      /\ xfer' \in Nat
  <2> HIDE DEF lk
  <2> QED BY SMTT(20), <1>4, <1>5, <1>6, ParkPlaced DEF Placed, Typed
<1>8. Timed'
  BY <1>1, <1>7 DEF Placed, Timed, EventWait, timerVars, NoTaskLost,
                    WakeTimers, TimeoutOf, Switchable, Linked, Tealets
<1>9. Driven'
  BY <1>1, <1>7, DrivenStays DEF Placed, Driven, DriverSuspended, EventWait,
     driverStays, driverVars, timerVars, Tealets, States
<1>10. Typed'
  BY <1>7 DEF Typed, EventWait, driverStays, driverVars, threadVars
<1> QED BY <1>7, <1>8, <1>9, <1>10

\* A task that exits by itself keeps the invariant.
LEMMA FinishInv ==
  ASSUME Placed, Timed, Driven, Typed, NEW t \in Tasks, Finish(t)
  PROVE  Placed' /\ Timed' /\ Driven' /\ Typed'
<1> DEFINE st == [state EXCEPT ![t] = "done"]
<1>1. t = cur /\ t # Main /\ t \in Tealets
  BY MainAssumption DEF Finish, Tealets
<1>2. Linked(runnable, waiters', link)
  BY DEF Placed, Finish, eventVars
<1>3. link[Main] = "runnable"
  BY <1>1 DEF Placed
<1>4. st \in [Tealets -> States] /\ st[Main] = "run"
  BY <1>1 DEF Placed, States, Tealets
<1>5. FindTarget(runnable, link, st, cap)
  BY DEF Finish
<1>6. /\ Placed'
      /\ link[cur'] = "runnable"
      /\ link' = [link EXCEPT ![cur'] = "none"]
      /\ state' = [st EXCEPT ![cur'] = "run"]
      /\ xfer' \in Nat
  <2> HIDE DEF st
  <2> QED BY <1>2, <1>3, <1>4, <1>5, ParkPlaced DEF Typed
<1>7. Timed'
  <2>1. timers' = CancelAll(timers, t) /\ due' = CancelAll(due, t)
    BY DEF Finish
  <2>2. cur' # t /\ link'[t] = "none" /\ state'[t] = "done"
    BY <1>1, <1>6 DEF Placed, Linked
  <2>3. ASSUME NEW u \in Tasks
        PROVE  /\ WakeTimers(u)' = IF u = t THEN {} ELSE WakeTimers(u)
               /\ TimeoutOf(u)' = IF u = t THEN {} ELSE TimeoutOf(u)
    BY SMTT(20), <2>1 DEF WakeTimers, TimeoutOf, CancelAll
  <2>4. NoTaskLost'
    BY SMTT(20), <1>1, <1>6, <2>2, <2>3 DEF Placed, Timed, NoTaskLost, Switchable, Linked,
                                  Tealets
  <2> QED BY <2>1, <2>4 DEF Timed, CancelAll
<1>8. Driven'
  BY <1>1, <1>6, DrivenStays DEF Placed, Driven, DriverSuspended, Finish,
     driverStays, driverVars, Tealets, States, CancelAll
<1>9. Typed'
  BY <1>6, NoneAssumption DEF Typed, Finish, driverStays, driverVars, threadVars,
                              eventVars
<1> QED BY <1>6, <1>7, <1>8, <1>9

\* A task that exits into its thrower keeps the invariant.
LEMMA FinishThrownInv ==
  ASSUME Placed, Timed, Driven, Typed, NEW t \in Tasks, FinishThrown(t)
  PROVE  Placed' /\ Timed' /\ Driven' /\ Typed'
<1> DEFINE e == inflight[t]
<1>1. t = cur /\ t # Main /\ t \in Tealets /\ Tasks \subseteq Tealets
  BY MainAssumption DEF FinishThrown, Tealets
<1>2. e \in Tealets /\ e # t /\ Switchable(e)
  BY NoneAssumption DEF Typed, FinishThrown
<1>3. /\ runnable' = IF link[e] = "runnable" THEN Discard(runnable, e)
                     ELSE runnable
      /\ waiters' = IF link[e] = "event" THEN Discard(waiters, e) ELSE waiters
      /\ link' = [link EXCEPT ![e] = "none"]
      /\ cur' = e
      /\ state' = [state EXCEPT ![t] = "done"]
      /\ timers' = CancelAll(CancelWake(timers, e), t)
      /\ due' = CancelAll(CancelWake(due, e), t)
  BY DEF FinishThrown
<1> HIDE DEF e
<1>4. Linked(runnable', waiters', link')
  BY ZenonT(30), <1>2, <1>3, DropLinked DEF Placed
<1>5. Placed'
  BY <1>1, <1>2, <1>3, <1>4 DEF Placed, States, Linked, Tealets
<1>6. Timed'
  <2>1. ASSUME NEW u \in Tasks
        PROVE  /\ WakeTimers(u)' = IF u \in {t, e} THEN {} ELSE WakeTimers(u)
               /\ TimeoutOf(u)' = IF u = t THEN {} ELSE TimeoutOf(u)
    BY <1>3 DEF WakeTimers, TimeoutOf, CancelAll, CancelWake
  <2>2. link'[t] = "none"
    BY <1>1, <1>3 DEF Placed, Linked
  <2>3. NoTaskLost'
    BY SMTT(20), <1>1, <1>2, <1>3, <2>1, <2>2 DEF Placed, Timed, NoTaskLost, Switchable,
                                        Linked
  <2> QED BY <1>3, <2>3 DEF Timed, CancelAll, CancelWake
<1>7. Driven'
  BY <1>1, <1>3, DrivenStays DEF Placed, Driven, DriverSuspended, FinishThrown,
     driverStays, driverVars, Tealets, States, CancelAll, CancelWake
<1>8. Typed'
  BY NoneAssumption DEF Typed, FinishThrown, driverStays, driverVars, threadVars
<1> QED BY <1>5, <1>6, <1>7, <1>8
\* What a throw into u by the running tealet, task or driver, keeps.
LEMMA ThrowInv ==
  ASSUME Placed, Timed, Typed, NEW u \in Tasks, u # cur, Switchable(u),
         NEW rest, rest \subseteq due, \A h \in due \ rest : h.kind # "wake",
         Throw(cur, u, rest)
  PROVE  /\ Placed' /\ Timed'
         /\ state' = state /\ due' \subseteq due /\ isset' = isset /\ xfer' = xfer
         /\ inflight' \in [Tasks -> Tealets \cup {None}]
         /\ \A t \in Tasks : inflight'[t] # t
<1>1. SwitchTo(u, Add(runnable, cur, 0), [link EXCEPT ![cur] = "runnable"],
               state, rest)
  BY DEF Throw
<1>2. 0 \in Position
  BY DEF Position
<1>3. Placed' /\ link' = [link EXCEPT ![cur] = "runnable", ![u] = "none"]
  BY ZenonT(30), <1>1, <1>2, SwitchPlaced DEF Placed
<1>4. /\ cur' = u /\ state' = state /\ isset' = isset /\ xfer' = xfer
      /\ timers' = CancelWake(timers, u) /\ due' = CancelWake(rest, u)
  BY <1>1 DEF SwitchTo
<1>5. Timed'
  BY ZenonT(30), <1>3, <1>4, SwitchTimed DEF Switchable
<1>6. due' \subseteq due
  BY <1>4 DEF CancelWake
<1>7. inflight' = [inflight EXCEPT ![u] = cur] /\ cur \in Tealets
  BY DEF Throw, Placed
<1> QED BY <1>3, <1>4, <1>5, <1>6, <1>7 DEF Typed

\* Task.run() of a task that has not exited.
LEMMA RunTaskInv ==
  ASSUME Placed, Timed, Typed, NEW u \in Tasks, u # cur, Switchable(u),
         RunTask(cur, u)
  PROVE  /\ Placed' /\ Timed'
         /\ state' = [state EXCEPT ![u] = "run"]
         /\ due' \subseteq due
         /\ UNCHANGED <<inflight, isset, xfer>>
<1> DEFINE p == IF cur = Main THEN 0 ELSE AtEnd
           st == [state EXCEPT ![u] = "run"]
<1>1. SwitchTo(u, Add(runnable, cur, p), [link EXCEPT ![cur] = "runnable"],
               st, due)
  BY DEF RunTask
<1>2. p \in Position
  BY DEF Position
<1>3. st \in [Tealets -> States] /\ st[Main] = "run" /\ st[u] = "run"
      /\ \A t \in Tasks : t # u => st[t] = state[t]
  BY MainAssumption DEF Placed, States, Tealets
<1>4. /\ cur' = u /\ state' = st /\ isset' = isset /\ xfer' = xfer
      /\ timers' = CancelWake(timers, u) /\ due' = CancelWake(due, u)
  BY <1>1 DEF SwitchTo
<1>5. Placed' /\ link' = [link EXCEPT ![cur] = "runnable", ![u] = "none"]
  <2> HIDE DEF p, st
  <2> QED BY ZenonT(30), <1>1, <1>2, <1>3, SwitchPlaced
<1>6. Timed'
  <2> HIDE DEF st
  <2> QED BY ZenonT(30), <1>3, <1>4, <1>5, SwitchTimed
<1>7. due' \subseteq due
  BY <1>4 DEF CancelWake
<1> QED BY <1>4, <1>5, <1>6, <1>7 DEF RunTask

\* task.cancel() from another task keeps the invariant.
LEMMA CancelOtherInv ==
  ASSUME Placed, Timed, Driven, Typed, NEW t \in Tasks, NEW u \in Tasks,
         CancelOther(t, u)
  PROVE  Placed' /\ Timed' /\ Driven' /\ Typed'
<1>1. t = cur /\ t # Main /\ u # cur /\ Switchable(u) /\ Throw(cur, u, due)
  BY MainAssumption DEF CancelOther, MayPark, Running, Cancel, Switchable
<1>2. /\ Placed' /\ Timed'
      /\ state' = state /\ due' \subseteq due /\ isset' = isset /\ xfer' = xfer
      /\ inflight' \in [Tasks -> Tealets \cup {None}]
      /\ \A v \in Tasks : inflight'[v] # v
  BY <1>1, ThrowInv
<1>3. Driven'
  BY <1>1, <1>2, DrivenStays DEF Driven, DriverSuspended, CancelOther,
     driverStays, driverVars
<1>4. Typed'
  BY <1>2 DEF Typed, CancelOther, driverStays, driverVars, threadVars
<1> QED BY <1>2, <1>3, <1>4

\* task.run() from another task keeps the invariant.
LEMMA RunOtherInv ==
  ASSUME Placed, Timed, Driven, Typed, NEW t \in Tasks, NEW u \in Tasks,
         RunOther(t, u)
  PROVE  Placed' /\ Timed' /\ Driven' /\ Typed'
<1>1. t = cur /\ t # Main /\ u # cur /\ Switchable(u) /\ RunTask(cur, u)
  BY MainAssumption DEF RunOther, MayPark, Running
<1>2. /\ Placed' /\ Timed'
      /\ state' = [state EXCEPT ![u] = "run"]
      /\ due' \subseteq due
      /\ UNCHANGED <<inflight, isset, xfer>>
  BY SMTT(20), <1>1, RunTaskInv
<1>3. Driven'
  BY ZenonT(30), <1>1, <1>2, DrivenStays DEF Driven, DriverSuspended, RunOther,
     driverStays, driverVars, Placed, Tealets
<1>4. Typed'
  BY <1>2 DEF Typed, RunOther, driverStays, driverVars, threadVars
<1> QED BY <1>2, <1>3, <1>4

\* spawn() of a primed task, by a task, a callback or the code outside.
LEMMA SpawnPrimedInv ==
  ASSUME Placed, Timed, NEW u \in Tasks, SpawnPrimed(u)
  PROVE  /\ Placed' /\ Timed' /\ due' = due
         /\ \A t \in Tasks : state[t] # "new" => state'[t] # "new"
         /\ UNCHANGED <<cur, inflight, isset, xfer>>
<1>1. u \in Tealets /\ u # Main /\ u # cur /\ link[u] = "none"
  BY MainAssumption DEF SpawnPrimed, Tealets, Timed, NoTaskLost, Switchable
<1>2. Linked(runnable', waiters', link')
  BY ZenonT(30), <1>1, AddLinked DEF SpawnPrimed, eventVars, Placed, Position
<1>3. /\ state[u] = "new"
      /\ state' = [state EXCEPT ![u] = "primed"]
      /\ link' = [link EXCEPT ![u] = "runnable"]
      /\ UNCHANGED <<cur, inflight, isset, xfer, timers, due>>
  BY DEF SpawnPrimed, timerVars, eventVars
<1>4. state \in [Tealets -> States] /\ link \in [Tealets -> Links]
  BY DEF Placed, Linked
<1>5. Placed'
  BY SMTT(20), <1>1, <1>2, <1>3, <1>4 DEF Placed, States
<1>6. Timed'
  <2>1. ASSUME NEW t \in Tasks
        PROVE  WakeTimers(t)' = WakeTimers(t) /\ TimeoutOf(t)' = TimeoutOf(t)
    BY <1>3 DEF WakeTimers, TimeoutOf
  <2>2. NoTaskLost'
    BY SMTT(20), <1>1, <1>3, <1>4, <2>1 DEF Timed, NoTaskLost, Switchable, Tealets
  <2> QED BY ZenonT(30), <1>3, <2>2 DEF Timed
<1> QED BY SMTT(20), <1>3, <1>4, <1>5, <1>6 DEF Tealets

\* An eager spawn, by a task or a callback.
LEMMA SpawnEagerInv ==
  ASSUME Placed, Timed, NEW u \in Tasks, SpawnEager(cur, u)
  PROVE  /\ Placed' /\ Timed' /\ due' = due /\ cur' = u
         /\ \A t \in Tasks : state[t] # "new" => state'[t] # "new"
         /\ UNCHANGED <<inflight, isset, xfer>>
<1>1. u \in Tealets /\ u # Main /\ u # cur /\ link[u] = "none"
  BY MainAssumption DEF SpawnEager, Tealets, Timed, NoTaskLost, Switchable
<1>2. Linked(runnable', waiters', link')
  <2>1. 0 \in Position
    BY DEF Position
  <2>2. Linked(Add(runnable, cur, 0), waiters, [link EXCEPT ![cur] = "runnable"])
    BY SMTT(20), <2>1, AddLinked DEF Placed
  <2> QED BY <2>2 DEF SpawnEager, eventVars
<1>3. /\ state[u] = "new"
      /\ cur' = u
      /\ state' = [state EXCEPT ![u] = "run"]
      /\ link' = [link EXCEPT ![cur] = "runnable"]
      /\ UNCHANGED <<inflight, isset, xfer, timers, due>>
  BY DEF SpawnEager, timerVars, eventVars
<1>4. state \in [Tealets -> States] /\ link \in [Tealets -> Links]
  BY DEF Placed, Linked
<1>5. Placed'
  BY SMTT(20), <1>1, <1>2, <1>3, <1>4 DEF Placed, States
<1>6. Timed'
  <2>1. ASSUME NEW t \in Tasks
        PROVE  WakeTimers(t)' = WakeTimers(t) /\ TimeoutOf(t)' = TimeoutOf(t)
    BY <1>3 DEF WakeTimers, TimeoutOf
  <2>2. NoTaskLost'
    BY SMTT(20), <1>1, <1>3, <1>4, <2>1 DEF Timed, NoTaskLost, Switchable, Tealets
  <2> QED BY ZenonT(30), <1>3, <2>2 DEF Timed
<1> QED BY SMTT(20), <1>3, <1>4, <1>5, <1>6 DEF Tealets

\* Event.set() moves every waiter to the queue.
LEMMA EventSetInv ==
  ASSUME Placed, Timed, EventSet
  PROVE  /\ Placed' /\ Timed' /\ due' = due /\ isset' \in BOOLEAN
         /\ UNCHANGED <<cur, state, inflight, xfer>>
<1>1. Range(runnable) \cap Range(waiters) = {}
  <2>1. Range(runnable) \subseteq Tealets
    BY DEF Placed, Linked, Queue, Range
  <2> QED BY <2>1 DEF Placed, Linked
<1>2. Queue(runnable \o waiters, Tealets, Range(runnable) \cup Range(waiters))
  BY <1>1, ConcatQueue DEF Placed, Linked, Queue
<1>3. waiters' = <<>> /\ Queue(waiters', Tealets, {})
  BY DEF EventSet, Queue, Range, IsInjective
<1>4. Linked(runnable', waiters', link')
  BY <1>2, <1>3 DEF EventSet, Placed, Linked, Queue, Links
<1>5. Placed'
  BY ZenonT(30), <1>4 DEF Placed, EventSet, Linked, Tealets
<1>6. Timed'
  BY DEF Placed, Timed, EventSet, timerVars, NoTaskLost, WakeTimers,
         TimeoutOf, Switchable, Linked, Tealets
<1> QED BY <1>5, <1>6 DEF EventSet, timerVars
=============================================================================
