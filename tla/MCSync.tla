------------------------------- MODULE MCSync -------------------------------
(***************************************************************************)
(* Small instances of the objects tasks meet at, for TLC: a Lock, the two  *)
(* semaphores and a Condition, a Barrier, a Queue, a Channel, and the      *)
(* combinators of futures.  Each behaviour is about one object, which the  *)
(* initial state picks.  The objects share the names of two variables,     *)
(* their list of waiters and the places of the tasks; the variables of the *)
(* other objects stay Unused.                                              *)
(***************************************************************************)
EXTENDS Integers, Sequences

CONSTANTS t1, t2, t3, t4, Unused

VARIABLES
  object, waiters, at,
  kind, value, barged, dropped, notified, parked, inwait, bared,
  count, generation, arrival, left,
  size, getters, putters, joiners, unfinished, finished, isShutdown, owes, puts,
  balance, preference, tempval, offer, frame, sends, told, got,
  combinator, st, soon, worker, calls, waiter

lockVars == <<kind, value, barged, dropped, notified, parked, inwait, bared>>
barrierVars == <<count, generation, arrival, left>>
queueVars == <<size, getters, putters, joiners, unfinished, finished,
               isShutdown, owes, puts>>
channelVars == <<balance, preference, tempval, offer, frame, sends, told, got>>
futureVars == <<combinator, st, soon, worker, calls, waiter>>
vars == <<object, waiters, at, lockVars, barrierVars, queueVars, channelVars,
          futureVars>>

L == INSTANCE Condition WITH Tasks <- {t1, t2, t3}, SemSlots <- 2
B == INSTANCE Barrier WITH Tasks <- {t1, t2, t3, t4}, Parties <- 3, MaxGen <- 2
Q == INSTANCE SyncQueue WITH Tasks <- {t1, t2, t3}, MaxSize <- 2, MaxPuts <- 4
C == INSTANCE Channel WITH Tasks <- {t1, t2, t3}, AsyncTasks <- {t3},
                           Steals <- TRUE, MaxSends <- 2
F == INSTANCE Futures WITH
       Kinds <- {"gather", "gather_all", "wait_all", "wait_first", "wait_error",
                 "as_completed", "wait_for", "shield"},
       Shape <- <<"exec", "task", "plain">>, kind <- combinator

NoLock ==
  /\ kind = Unused /\ value = Unused /\ barged = Unused /\ dropped = Unused
  /\ notified = Unused /\ parked = Unused /\ inwait = Unused
  /\ bared = Unused
NoBarrier ==
  /\ count = Unused /\ generation = Unused /\ arrival = Unused
  /\ left = Unused
NoQueue ==
  /\ size = Unused /\ getters = Unused /\ putters = Unused
  /\ joiners = Unused /\ unfinished = Unused /\ finished = Unused
  /\ isShutdown = Unused /\ owes = Unused /\ puts = Unused
NoChannel ==
  /\ balance = Unused /\ preference = Unused /\ tempval = Unused
  /\ offer = Unused /\ frame = Unused /\ sends = Unused /\ told = Unused
  /\ got = Unused

NoFuture ==
  /\ combinator = Unused /\ st = Unused /\ soon = Unused /\ worker = Unused
  /\ calls = Unused /\ waiter = Unused

Init ==
  \/ object = "lock" /\ L!CondInit /\ NoBarrier /\ NoQueue /\ NoChannel /\ NoFuture
  \/ object = "barrier" /\ B!Init /\ NoLock /\ NoQueue /\ NoChannel /\ NoFuture
  \/ /\ object = "queue" /\ Q!Init /\ waiters = Unused
     /\ NoLock /\ NoBarrier /\ NoChannel /\ NoFuture
  \/ object = "channel" /\ C!Init /\ NoLock /\ NoBarrier /\ NoQueue /\ NoFuture
  \/ /\ object = "future" /\ F!Init /\ waiters = Unused /\ at = Unused
     /\ NoLock /\ NoBarrier /\ NoQueue /\ NoChannel

OnLock == object = "lock" /\ UNCHANGED <<object, barrierVars, queueVars, channelVars, futureVars>>
OnBarrier == object = "barrier" /\ UNCHANGED <<object, lockVars, queueVars, channelVars, futureVars>>
OnQueue ==
  object = "queue" /\ UNCHANGED <<object, waiters, lockVars, barrierVars, channelVars, futureVars>>
OnChannel == object = "channel" /\ UNCHANGED <<object, lockVars, barrierVars, queueVars, futureVars>>
OnFuture ==
  object = "future" /\ UNCHANGED <<object, waiters, at, lockVars, barrierVars, queueVars, channelVars>>

Next ==
  \/ OnLock /\ L!CondNext
  \/ OnBarrier /\ B!Next
  \/ OnQueue /\ Q!Next
  \/ OnChannel /\ C!Next
  \/ OnFuture /\ F!Next
  \* The bound on the generations of the barrier is reached, or the future
  \* is done.
  \/ object = "barrier" /\ generation = 2 /\ UNCHANGED vars
  \/ object = "future" /\ st.out # "pending" /\ UNCHANGED vars

\* The k-th task runs; of a future, its task first, then what it is woken for,
\* then a callback.
T(k) == <<t1, t2, t3, t4>>[k]
Runs(k) ==
  \/ OnLock /\ k < 4 /\ L!CondRuns(T(k))
  \/ OnBarrier /\ B!Runs(T(k))
  \/ OnQueue /\ k < 4 /\ Q!Runs(T(k))
  \/ OnFuture /\ \/ k = 1 /\ F!Start
                 \/ k = 2 /\ F!Run
                 \/ k = 3 /\ F!RunSoon

\* A runnable task runs, and a callback that is queued.
Spec ==
  /\ Init /\ [][Next]_vars
  /\ \A k \in 1 .. 4 : WF_vars(Runs(k))

(***************************************************************************)
(* The properties, each of the object it is about.                         *)
(***************************************************************************)

\* A Lock is "a tealet-compatible mutual exclusion lock" (locks.py:448).
MutualExclusion == object = "lock" => L!MutualExclusion

\* Slots are neither lost nor made up, in any order of running and with any
\* interrupts, and none is kept from a queued task: while somebody is queued
\* for a free slot a task that release() woke is on its way to take it, until
\* a woken task is interrupted.  No more tasks are in the block than the object
\* has slots, as long as nobody asks for the lock between a release and the
\* turn of the task it woke, and no swait() is interrupted while it takes the
\* lock again.
SlotsConserved ==
  object = "lock" =>
    L!CondTypeOK /\ L!SlotsConserved /\ L!NoForgottenWaiter /\ L!CondHoldersBounded

\* A notification reaches whoever waits for one: a task is parked on the
\* condition exactly while its event is queued, where notify() finds it, or
\* is set.
NotifyReaches == object = "lock" => L!NotifyReaches

\* The count of a barrier is the number of parked tasks of this generation,
\* with any interrupts before and after the release, so a generation completes
\* with exactly Parties tasks (_arrive against _cancel_waiter); and the tasks
\* that pass together have different indices, if no parked one was interrupted.
BarrierCounts ==
  object = "barrier" => B!TypeOK /\ B!CountAgrees /\ B!IndicesDistinct

\* While a get is parked every queued item has a woken getter on its way, and
\* while a put is parked every free place a woken putter, also when woken ones
\* are interrupted or find the item or the place gone.  The count of unfinished
\* tasks is the queued items plus the items whose getter still owes a
\* task_done(); so task_done() never raises and shutdown() never drops an item
\* that was not counted.  The event of join() is set exactly when nothing is
\* unfinished.
QueueServes ==
  object = "queue" =>
    /\ Q!TypeOK /\ Q!GettersServed /\ Q!PuttersServed
    /\ Q!UnfinishedCounts /\ Q!JoinAgrees

\* The sign of a channel's balance tells who waits, its size how many.  No
\* packet is received twice, by a result or on an exception, and what the
\* sender is told is true: a send that returned, or whose exception says
\* success, handed its packet to a receive, any other did not.
ChannelExact ==
  object = "channel" =>
    C!TypeOK /\ C!BalanceAgrees /\ C!AtMostOnce /\ C!SenderKnows

\* What gather(), wait(), wait_for(), as_completed() and shield() answer is
\* true of their futures in whatever order results, failures, timeouts and
\* cancellations come, and run() stays for the calls in an executor that are
\* under way, and for no other.
CombinesRight == object = "future" => F!CombinesRight /\ F!CallsCounted

(***************************************************************************)
(* Every wait ends.  A task that queues for a lock or a semaphore gets it  *)
(* or is interrupted, however many others take it before its turn, unless  *)
(* a woken task was interrupted; one that was notified gets its lock back  *)
(* likewise.  A task parked at the barrier is released, while there are    *)
(* tasks left to arrive and none is interrupted.  A queued item and a      *)
(* parked getter do not stay side by side, nor a free place and a parked   *)
(* putter, and a queue that is shut down lets everybody go.  A combinator  *)
(* completes once its children are done, although the task that waits for  *)
(* them is cancelled or timed out on the way, and the cancellation of      *)
(* wait_for() reaches its child.  The tasks are interchangeable, so that   *)
(* it is enough to look at one of them.                                    *)
(***************************************************************************)
Waits(k) ==
  \/ object = "lock" /\ k = 1 /\ at[t1] = "waiting"
  \/ object = "lock" /\ k = 2 /\ t1 \in notified
  \/ object = "barrier" /\ k = 1 /\ at[t1] = "parked"
  \/ object = "queue" /\ k = 1 /\ isShutdown /\ at[t1] \notin {"joining", "joinwoken"}
  \/ object = "queue" /\ k = 2 /\ getters # <<>> /\ size > 0
  \/ object = "queue" /\ k = 3 /\ putters # <<>> /\ ~Q!Full(size)
  \/ object = "future" /\ k = 1 /\ F!Pending(st) = {}
  \/ object = "future" /\ k = 2 /\ "child" \in soon

WaitOver(k) ==
  \/ object = "lock" /\ k = 1 /\ (at[t1] \in {"in", "out", "bare"} \/ dropped)
  \/ object = "lock" /\ k = 2 /\ (at[t1] \in {"in", "bare"} \/ dropped)
  \/ object = "barrier" /\ k = 1 /\ (at[t1] = "released" \/ left)
  \/ object = "queue" /\ k = 1 /\ at[t1] = "out"
  \/ object = "queue" /\ k = 2 /\ (getters = <<>> \/ size = 0)
  \/ object = "queue" /\ k = 3 /\ (putters = <<>> \/ Q!Full(size))
  \/ object = "future" /\ k = 1 /\ st.out # "pending"
  \/ object = "future" /\ k = 2 /\ F!CancelSeen

WaitsEnd == \A k \in 1 .. 3 : Waits(k) ~> WaitOver(k)
=============================================================================
