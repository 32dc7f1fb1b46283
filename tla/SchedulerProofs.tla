-------------------------- MODULE SchedulerProofs --------------------------
(***************************************************************************)
(* The invariants of Scheduler, proved for any set of tasks, any driver,   *)
(* any yield_every and any bounds: IndInv is inductive.                    *)
(***************************************************************************)
EXTENDS SchedulerDriverProofs

(***************************************************************************)
(* The theorems.                                                           *)
(***************************************************************************)

\* A scheduler that was just created satisfies the invariant.
LEMMA InitInv == Init => IndInv
<1> SUFFICES ASSUME Init PROVE Placed /\ Timed /\ Driven /\ Typed
  BY Parts
<1>1. Queue(<<>>, Tealets, {}) /\ Range(<<>>) = {}
  BY DEF Queue, Range, IsInjective
<1>2. Placed
  BY <1>1 DEF Init, Placed, Linked, Queue, Links, States, Tealets
<1>3. Timed
  BY MainAssumption DEF Init, Timed, NoTaskLost, WakeTimers, TimeoutOf,
                        Switchable, Tealets
<1>4. Driven
  BY DEF Init, Driven, NoLostWakeup, DriverSuspended, CallbacksNameTasks,
         DrainBounded
<1>5. Typed
  <2>1. isset \in BOOLEAN /\ stopping \in BOOLEAN /\ wakeup \in BOOLEAN
    BY Zenon DEF Init
  <2>2. <<>> \in Seq(Callbacks)
    OBVIOUS
  <2> QED BY <2>1, <2>2, NoneAssumption DEF Init, Typed
<1> QED BY <1>2, <1>3, <1>4, <1>5

\* Every step of the scheduler, of a task, of the other thread and of the
\* clock keeps the invariant.
LEMMA NextInv == IndInv /\ [Next]_vars => IndInv'
<1>0. IndInv' <=> Placed' /\ Timed' /\ Driven' /\ Typed'
  BY Parts, PTL
<1> SUFFICES ASSUME Placed, Timed, Driven, Typed, [Next]_vars
             PROVE  Placed' /\ Timed' /\ Driven' /\ Typed'
  BY Parts, <1>0
<1>1. CASE DriverStep
  BY <1>1, RunCallbackInv, PopDueInv, RunTimerInv, EnterBatchInv, DriverLoopInv
     DEF DriverStep
<1>2. ASSUME NEW u \in Tasks, SpawnOutside(u)
      PROVE  Placed' /\ Timed' /\ Driven' /\ Typed'
  BY <1>2, SpawnOutsideInv
<1>3. ASSUME NEW t \in Tasks, TaskParks(t)
      PROVE  Placed' /\ Timed' /\ Driven' /\ Typed'
  BY <1>3, YieldInv, EventWaitInv, FinishInv, FinishThrownInv, SleepInv,
     CancelOtherInv, RunOtherInv, YieldToInv DEF TaskParks
<1>4. ASSUME NEW t \in Tasks, TaskActs(t)
      PROVE  Placed' /\ Timed' /\ Driven' /\ Typed'
  BY <1>4, TaskActsInv
<1>5. CASE ThreadStep \/ Tick
  BY <1>5, ThreadInv
<1>6. CASE UNCHANGED vars
  <2>1. /\ UNCHANGED <<cur, runnable, link, state, inflight, xfer, waiters,
                       isset, timers, due>>
        /\ UNCHANGED <<pc, ntodo, cap, stopping, poster, nposts, ready, now,
                       wakeup>>
    BY <1>6 DEF vars, taskVars, eventVars, timerVars, driverVars, threadVars
  <2>2. Placed' /\ Timed'
    BY <2>1, QuietInv
  <2>3. Driven'
    BY <2>1 DEF Driven, NoLostWakeup, DriverSuspended, CallbacksNameTasks,
                DrainBounded
  <2>4. Typed'
    BY <2>1 DEF Typed
  <2> QED BY <2>2, <2>3, <2>4
<1> QED BY <1>1, <1>2, <1>3, <1>4, <1>5, <1>6 DEF Next

\* The invariant of the scheduler holds in every reachable state.
THEOREM Invariance == Spec => []IndInv
BY InitInv, NextInv, PTL DEF Spec

\* Every variable keeps its type.
THEOREM TypeCorrect == Spec => []TypeOK
<1>1. IndInv => TypeOK
  BY DEF IndInv
<1> QED BY <1>1, Invariance, PTL

\* A task's link and the list it is on never disagree, and no list holds a
\* task twice: _make_runnable, Event._link and _unlink for any number of
\* tasks.
THEOREM LinksNeverDisagree == Spec => [](LinksAgree /\ CurrentUnlinked)
<1>1. IndInv => LinksAgree /\ CurrentUnlinked
  BY DEF IndInv
<1> QED BY <1>1, Invariance, PTL

\* A task that parks or exits under the driver always finds a target.
THEOREM DriverReachable == Spec => []MainReachable
<1>1. IndInv => MainReachable
  BY DEF IndInv
<1> QED BY <1>1, Invariance, PTL

\* No step of any operation loses a task or leaves it in two places.
THEOREM TasksNeverLost == Spec => []NoTaskLost
<1>1. IndInv => NoTaskLost
  BY DEF IndInv
<1> QED BY <1>1, Invariance, PTL

\* The driver never blocks over queued work, for any interleaving of
\* call_soon_threadsafe() and stop() with its loop.
THEOREM WakeupsNeverLost == Spec => []NoLostWakeup
<1>1. IndInv => NoLostWakeup
  BY DEF IndInv
<1> QED BY <1>1, Invariance, PTL
=============================================================================
