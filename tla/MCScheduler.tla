---------------------------- MODULE MCScheduler ----------------------------
(***************************************************************************)
(* Small instances of Scheduler for TLC.  The initial state picks which    *)
(* operations the program uses and which driver runs it (its workload);    *)
(* every workload is an instance of Scheduler on the same variables.  One  *)
(* more, "hosted", is about a scheduler in an asyncio loop (Hosting).      *)
(***************************************************************************)
EXTENDS Scheduler, TLC

CONSTANTS t1, t2, t3

VARIABLES
  workload,
  fiber, hqueue, hready, drv, loop, runner, hposter   \* of Hosting

hostedVars == <<fiber, hqueue, hready, drv, loop, runner, hposter>>
mcVars == <<vars, workload, hostedVars>>

H == INSTANCE Hosting WITH
  Fibers <- Tasks, Driver <- Main, Modes <- {"runner", "idle"}, Budget <- (t1 :> 2 @@ t2 :> 1),
  Sigints <- 1, Posts <- 1, queue <- hqueue, ready <- hready, poster <- hposter

NoHost ==
  /\ fiber = None /\ hqueue = None /\ hready = None /\ drv = None
  /\ loop = None /\ runner = None /\ hposter = None

\* run(): events, sleeps, cancels and spawns, and a thread that posts.
Core == INSTANCE Scheduler WITH
  Ops <- {"yield", "sleep", "wait", "set", "clear", "cancel", "spawn", "eager"},
  CbOps <- {"cancel", "set"}, Mode <- "idle", YieldEvery <- 0,
  Positions <- {}, MaxTime <- 2, MaxReady <- 1, MaxPosts <- 1

\* run(): the operations that pass control from task to task.
Transfer == INSTANCE Scheduler WITH
  Ops <- {"yield", "wait", "set", "clear", "cancel", "run", "yield_to",
          "reschedule", "eager", "cleanup", "call_soon"},
  CbOps <- {"run", "eager", "spawn"}, Mode <- "idle", YieldEvery <- 1,
  Positions <- {0, -1, AtEnd}, MaxTime <- 0, MaxReady <- 1, MaxPosts <- 0

\* run_until_complete(target): timeouts of waits or of sleeps, and exceptions
\* held up by cleanup.
Until(target, ops) == INSTANCE Scheduler WITH
  Ops <- ops \cup {"timeout", "cleanup", "cancel"},
  CbOps <- {"cancel"}, Mode <- "until", Target <- target, YieldEvery <- 0,
  Positions <- {}, MaxTime <- 2, MaxReady <- 1, MaxPosts <- 0

\* run_forever() and stop(), from everywhere.
Forever == INSTANCE Scheduler WITH
  Ops <- {"yield", "sleep", "wait", "set", "stop", "call_soon", "thread_stop"},
  CbOps <- {"stop", "set"}, Mode <- "forever", YieldEvery <- 1,
  Positions <- {}, MaxTime <- 1, MaxReady <- 2, MaxPosts <- 2

Workloads ==
  ({"core", "transfer", "forever"} \X {None}) \cup ({"waits", "sleeps"} \X Tasks)

MCInit == Init /\ workload \in Workloads /\ NoHost

\* The last three workloads use two tasks, the target one of them.
Two == \E t \in Tasks \ {workload[2]} : state'[t] = "new"

MCNext ==
  /\ \/ workload[1] = "core" /\ Core!Next
     \/ workload[1] = "transfer" /\ Transfer!Next
     \/ workload[1] = "forever" /\ Forever!Next /\ Two
     \/ \E t \in Tasks : workload = <<"waits", t>> /\ Until(t, {"wait", "set"})!Next /\ Two
     \/ \E t \in Tasks : workload = <<"sleeps", t>> /\ Until(t, {"sleep"})!Next /\ Two
     \* Their loops may wait for ever.
     \/ workload[1] \in {"forever", "waits", "sleeps"} /\ UNCHANGED vars
  /\ UNCHANGED <<workload, hostedVars>>

MCSpec == MCInit /\ [][MCNext]_mcVars

(***************************************************************************)
(* One workload, that of the configuration, or a hosted scheduler, under   *)
(* the scheduling the code gives: the driver and the tasks go on, a thread *)
(* that posted signals, time passes, asyncio completes its futures.        *)
(***************************************************************************)
LiveInit ==
  /\ Init
  /\ \/ workload = <<"live", None>> /\ NoHost
     \/ workload = <<"hosted", None>> /\ H!Init

Live(A) == workload[1] = "live" /\ A /\ UNCHANGED <<workload, hostedVars>>
Hosted(A) == workload[1] = "hosted" /\ A /\ UNCHANGED <<vars, workload>>

LiveNext == Live(Next) \/ Hosted(H!Next)

LiveSpec ==
  /\ LiveInit /\ [][LiveNext]_mcVars
  /\ WF_mcVars(Live(DriverStep) \/ Hosted(H!OnThread))
  /\ \A t \in Tasks : WF_mcVars(Live(TaskParks(t)) \/ Hosted(H!Outside(t)))
  /\ WF_mcVars(Live(Signal) \/ Hosted(H!PostWakes))
  /\ WF_mcVars(Live(Tick))

\* A batch gives control back after its number of transfers, unless the tasks
\* use yield_to(), which does not look at that number.
BatchesBounded == workload[1] # "transfer" => BatchBounded

\* A hosted driver does not sleep over queued callbacks, runnable tasks or due
\* timers, arun() returns only when every task ended, and so does aclose(),
\* unless a KeyboardInterrupt left the loop from inside a task.
HostedWakes == workload[1] = "hosted" => H!HostedWakes /\ H!DrainsUnlessFatal

\* "Unfinished scheduler tasks are cancelled and drained" by aclose()
\* (docs/SCHEDULER_RUNTIME_API_SPEC.md).
ShutdownDrains == workload[1] = "hosted" => H!ShutdownDrains

\* Queued work is done, unless the loop is told to stop: every callback runs,
\* and a task that is runnable or sleeps runs.  No operation tells the tasks
\* apart, so one of them stands for all.
WorkRuns == CallbacksRun /\ TaskRuns(t1)


Symmetry == Permutations(Tasks)
=============================================================================
