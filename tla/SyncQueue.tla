----------------------------- MODULE SyncQueue -----------------------------
(***************************************************************************)
(* Queue of tealetio.locks, and its PriorityQueue and LifoQueue: which     *)
(* item a get returns is all they change, so only the number of queued     *)
(* items is kept here.                                                     *)
(*                                                                         *)
(* put() and get() wait in a loop on an Event of their own that the other  *)
(* side sets.  A woken task is runnable and runs when its turn comes; any  *)
(* task may run before it.  One action is what a task does between two     *)
(* parks.                                                                  *)
(***************************************************************************)
EXTENDS Naturals, FiniteSets, FiniteSetsExt, SequencesExt

CONSTANTS
  Tasks,    \* the tasks that use the queue
  MaxSize,  \* maxsize; 0 is no limit
  MaxPuts   \* bound: calls of put

VARIABLES
  size,        \* qsize()
  getters,     \* _getters, each event named by its task
  putters,     \* _putters
  joiners,     \* the tasks parked on _finished
  unfinished,  \* _unfinished_tasks
  finished,    \* _finished is set
  isShutdown,  \* _is_shutdown
  at,          \* where each task is
  owes,        \* items a task got and has not called task_done() for
  puts         \* calls of put so far

itemVars == <<size, unfinished, finished, owes>>
vars == <<itemVars, getters, putters, joiners, isShutdown, at, puts>>

Places == {"out", "getting", "getwoken", "putting", "putwoken",
           "joining", "joinwoken"}

Init ==
  /\ size = 0
  /\ getters = <<>>
  /\ putters = <<>>
  /\ joiners = {}
  /\ unfinished = 0
  /\ finished = TRUE
  /\ isShutdown = FALSE
  /\ at = [t \in Tasks |-> "out"]
  /\ owes = [t \in Tasks |-> 0]
  /\ puts = 0

Full(n) == MaxSize > 0 /\ n >= MaxSize

\* _wakeup_next() and _wakeup_all(): what is left of a list of waiters, and
\* the places of the tasks, of which those woken move to w.
Rest(q) == IF q = <<>> THEN q ELSE Tail(q)

WakeupNext(q, places, w) ==
  IF q = <<>> THEN places ELSE [places EXCEPT ![Head(q)] = w]

WakeupAll(woken, places, w) ==
  [t \in Tasks |-> IF t \in woken THEN w ELSE places[t]]

\* put_nowait() of a queue that has room and is open.
PutNowait(t) ==
  /\ size' = size + 1
  /\ unfinished' = unfinished + 1
  /\ finished' = FALSE
  /\ at' = WakeupNext(getters, [at EXCEPT ![t] = "out"], "getwoken")
  /\ getters' = Rest(getters)
  /\ UNCHANGED <<putters, owes>>

\* sput(), put(): from the call, or from the return of its wait, up to the
\* end of the call or the next wait.
Put(t) ==
  /\ at[t] = "putwoken" \/ (at[t] = "out" /\ puts < MaxPuts)
  /\ puts' = IF at[t] = "out" THEN puts + 1 ELSE puts
  /\ \/ /\ isShutdown
        /\ at' = [at EXCEPT ![t] = "out"]
        /\ UNCHANGED <<itemVars, getters, putters>>
     \/ /\ ~isShutdown
        /\ Full(size)
        /\ putters' = Append(putters, t)
        /\ at' = [at EXCEPT ![t] = "putting"]
        /\ UNCHANGED <<itemVars, getters>>
     \/ /\ ~isShutdown
        /\ ~Full(size)
        /\ PutNowait(t)
  /\ UNCHANGED <<joiners, isShutdown>>

\* get_nowait() of a queue with an item.
GetNowait(t) ==
  LET places == WakeupNext(putters, [at EXCEPT ![t] = "out"], "putwoken")
      last == size = 1 /\ isShutdown
  IN  /\ size' = size - 1
      /\ owes' = [owes EXCEPT ![t] = @ + 1]
      /\ putters' = Rest(putters)
      /\ at' = IF last THEN WakeupAll(Range(getters), places, "getwoken")
               ELSE places
      /\ getters' = IF last THEN <<>> ELSE getters
      /\ UNCHANGED <<unfinished, finished>>

\* sget(), get()
Get(t) ==
  /\ at[t] \in {"out", "getwoken"}
  /\ IF size > 0 THEN GetNowait(t)
     ELSE /\ IF isShutdown
             THEN at' = [at EXCEPT ![t] = "out"] /\ UNCHANGED getters
             ELSE /\ getters' = Append(getters, t)
                  /\ at' = [at EXCEPT ![t] = "getting"]
          /\ UNCHANGED <<itemVars, putters>>
  /\ UNCHANGED <<joiners, isShutdown, puts>>

\* An exception out of the wait of a put: _abandon_waiter().  A task that
\* was woken hands the slot on.
AbandonPut(t) ==
  LET q == RemoveFirst(putters, t)
      out == [at EXCEPT ![t] = "out"]
      pass == at[t] = "putwoken" /\ ~Full(size)
  IN  /\ at[t] \in {"putting", "putwoken"}
      /\ putters' = IF pass THEN Rest(q) ELSE q
      /\ at' = IF pass THEN WakeupNext(q, out, "putwoken") ELSE out
      /\ UNCHANGED <<itemVars, getters, joiners, isShutdown, puts>>

\* A mutant: an interrupted getter keeps the item it was woken for.
MutAbandonGet(t) ==
  /\ at[t] \in {"getting", "getwoken"}
  /\ getters' = RemoveFirst(getters, t)
  /\ at' = [at EXCEPT ![t] = "out"]
  /\ UNCHANGED <<itemVars, putters, joiners, isShutdown, puts>>

\* The same for a get: the item is handed on.
AbandonGet(t) ==
  LET q == RemoveFirst(getters, t)
      out == [at EXCEPT ![t] = "out"]
      pass == at[t] = "getwoken" /\ size > 0
  IN  /\ at[t] \in {"getting", "getwoken"}
      /\ getters' = IF pass THEN Rest(q) ELSE q
      /\ at' = IF pass THEN WakeupNext(q, out, "getwoken") ELSE out
      /\ UNCHANGED <<itemVars, putters, joiners, isShutdown, puts>>

\* _finished.set() when the count has come down to n = 0.
Finish(n, places) ==
  IF n = 0
  THEN /\ finished' = TRUE
       /\ joiners' = {}
       /\ at' = WakeupAll(joiners, places, "joinwoken")
  ELSE /\ at' = places
       /\ UNCHANGED <<finished, joiners>>

\* task_done() for an item the task got.  The ValueError of a count that is
\* zero is out of reach: UnfinishedCounts.
TaskDone(t) ==
  /\ at[t] = "out"
  /\ owes[t] > 0
  /\ owes' = [owes EXCEPT ![t] = @ - 1]
  /\ unfinished' = unfinished - 1
  /\ Finish(unfinished - 1, at)
  /\ UNCHANGED <<size, getters, putters, isShutdown, puts>>

\* sjoin(), join(): a set event does not park the task, the loop would spin.
Join(t) ==
  /\ at[t] \in {"out", "joinwoken"}
  /\ IF unfinished = 0
     THEN at' = [at EXCEPT ![t] = "out"] /\ UNCHANGED joiners
     ELSE /\ ~finished
          /\ joiners' = joiners \cup {t}
          /\ at' = [at EXCEPT ![t] = "joining"]
  /\ UNCHANGED <<itemVars, getters, putters, isShutdown, puts>>

\* An exception out of the wait of a join: Event.swait() unlinks the task.
AbandonJoin(t) ==
  /\ at[t] \in {"joining", "joinwoken"}
  /\ joiners' = joiners \ {t}
  /\ at' = [at EXCEPT ![t] = "out"]
  /\ UNCHANGED <<itemVars, getters, putters, isShutdown, puts>>

\* shutdown(immediate): every queued item counts as done.  The count never
\* falls short of the items: UnfinishedCounts.
Shutdown(t, immediate) ==
  /\ at[t] = "out"
  /\ isShutdown' = TRUE
  /\ putters' = <<>>
  /\ getters' = <<>>
  /\ size' = IF immediate THEN 0 ELSE size
  /\ unfinished' = unfinished - (size - size')
  /\ LET woken == WakeupAll(Range(getters),
                            WakeupAll(Range(putters), at, "putwoken"), "getwoken")
     IN  IF immediate THEN Finish(unfinished', woken)
         ELSE at' = woken /\ UNCHANGED <<finished, joiners>>
  /\ UNCHANGED <<owes, puts>>

Step(t) ==
  \/ Put(t) \/ Get(t) \/ Join(t) \/ TaskDone(t)
  \/ AbandonPut(t) \/ AbandonGet(t) \/ AbandonJoin(t)
  \/ \E immediate \in BOOLEAN : Shutdown(t, immediate)

Next == \E t \in Tasks : Step(t)

Spec == Init /\ [][Next]_vars

\* A woken task is runnable, and the scheduler runs every runnable task.
Runs(t) ==
  \/ at[t] = "putwoken" /\ Put(t)
  \/ at[t] = "getwoken" /\ Get(t)
  \/ at[t] = "joinwoken" /\ Join(t)

(***************************************************************************)
(* Properties.                                                             *)
(***************************************************************************)

Woken(w) == {t \in Tasks : at[t] = w}

TypeOK ==
  /\ size \in Nat /\ (MaxSize > 0 => size <= MaxSize)
  /\ getters \in Seq(Tasks) /\ IsInjective(getters)
  /\ putters \in Seq(Tasks) /\ IsInjective(putters)
  /\ joiners \subseteq Tasks
  /\ unfinished \in Nat
  /\ {finished, isShutdown} \subseteq BOOLEAN
  /\ at \in [Tasks -> Places]
  /\ owes \in [Tasks -> Nat]
  /\ puts \in 0 .. MaxPuts

\* While a get is parked every queued item has a woken getter on its way,
\* also when woken getters are interrupted or find the item gone.
GettersServed == getters # <<>> => Cardinality(Woken("getwoken")) >= size

\* While a put is parked every free slot has a woken putter on its way.
PuttersServed ==
  putters # <<>> => Cardinality(Woken("putwoken")) + size >= MaxSize

\* The count of unfinished tasks is the queued items plus the items whose
\* getter still owes a task_done(); so task_done() never raises, and
\* shutdown() never drops an item that was not counted.
UnfinishedCounts ==
  unfinished = size + FoldSet(LAMBDA t, n : n + owes[t], 0, Tasks)

\* The event of join() is set exactly when nothing is unfinished, so no
\* joiner is parked over a finished queue and none spins over a busy one.
JoinAgrees ==
  /\ finished <=> unfinished = 0
  /\ joiners # {} => unfinished > 0
=============================================================================
