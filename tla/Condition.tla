----------------------------- MODULE Condition -----------------------------
(***************************************************************************)
(* Condition over a Lock (tealetio.locks): swait() gives the lock up, waits *)
(* for notify() and takes the lock again; a task uses it inside            *)
(* "with condition:", whose exit releases the lock.  An object of another  *)
(* kind has no condition: it is used as in Locks.                          *)
(***************************************************************************)
EXTENDS Locks

VARIABLES
  notified,  \* the tasks whose condition event is set
  parked,    \* Condition._waiters, each event named by its task
  inwait,    \* the tasks inside swait()
  bared      \* history: a task left swait() without the lock

condVars == <<notified, parked, inwait, bared>>
allVars == <<vars, condVars>>

\* A task in swait() that is not yet back at the lock, and one that left
\* swait() with an exception and without the lock.
CondPlaces == Places \cup {"cond", "bare"}

CondInit == Init /\ notified = {} /\ parked = <<>> /\ inwait = {} /\ bared = FALSE

Enter(t) == Acquire(t) /\ UNCHANGED condVars

Exit(t) == Release(t) /\ UNCHANGED condVars

\* swait() up to its park: the event is queued before the lock is released.
\* With the lock free it raises, as notify() does, and the task leaves the
\* block: Exit.
Wait(t) ==
  /\ kind = "lock"
  /\ at[t] = "in"
  /\ value = 0
  /\ parked' = Append(parked, t)
  /\ inwait' = inwait \cup {t}
  /\ value' = 1
  /\ IF waiters = <<>>
     THEN at' = [at EXCEPT ![t] = "cond"] /\ UNCHANGED waiters
     ELSE /\ at' = [at EXCEPT ![t] = "cond", ![Head(waiters)] = "woken"]
          /\ waiters' = Tail(waiters)
  /\ UNCHANGED <<kind, history, notified, bared>>

\* A mutant: notify() takes the events off the list and sets the first one.
MutNotify(t, n) ==
  /\ kind = "lock"
  /\ at[t] = "in"
  /\ value = 0
  /\ parked # <<>>
  /\ notified' = notified \cup {Head(parked)}
  /\ parked' = <<>>
  /\ UNCHANGED <<vars, inwait, bared>>

\* notify(n) by a task that holds the lock; notify_all() is n = Len(parked).
Notify(t, n) ==
  /\ kind = "lock"
  /\ at[t] = "in"
  /\ value = 0
  /\ LET k == IF n < Len(parked) THEN n ELSE Len(parked)
     IN  /\ notified' = notified \cup Range(SubSeq(parked, 1, k))
         /\ parked' = SubSeq(parked, k + 1, Len(parked))
  /\ UNCHANGED <<vars, inwait, bared>>

\* A mutant: the task does not queue for a lock that is taken.
MutReacquireLost(t) ==
  /\ parked' = Discard(parked, t)
  /\ notified' = notified \ {t}
  /\ IF value > 0
     THEN /\ value' = 0
          /\ inwait' = inwait \ {t}
          /\ at' = [at EXCEPT ![t] = "in"]
          /\ UNCHANGED waiters
     ELSE /\ at' = [at EXCEPT ![t] = "waiting"]
          /\ UNCHANGED <<value, waiters, inwait>>

\* The finally block of swait(): the event leaves _waiters and the task asks
\* for the lock again.
Reacquire(t) ==
  /\ parked' = Discard(parked, t)
  /\ notified' = notified \ {t}
  /\ IF value > 0
     THEN /\ value' = 0
          /\ inwait' = inwait \ {t}
          /\ at' = [at EXCEPT ![t] = "in"]
          /\ UNCHANGED waiters
     ELSE /\ waiters' = Append(waiters, t)
          /\ at' = [at EXCEPT ![t] = "waiting"]
          /\ UNCHANGED <<value, inwait>>

\* The condition's wait returns, or an exception ends it.
WaitReturns(t) ==
  /\ at[t] = "cond"
  /\ Asks
  /\ Reacquire(t)
  /\ UNCHANGED bared

\* The wait for the lock, in sacquire() or in swait(), returns.
LockReturns(t) ==
  /\ Resume(t)
  /\ inwait' = inwait \ {t}
  /\ UNCHANGED <<notified, parked, bared>>

\* An exception ends the wait for the lock.  Inside swait() it leaves the
\* finally block, so the "with" block ends without the lock.
LockInterrupted(t) ==
  /\ Interrupt(t, IF t \in inwait THEN "bare" ELSE "out")
  /\ bared' = (bared \/ t \in inwait)
  /\ inwait' = inwait \ {t}
  /\ UNCHANGED <<notified, parked>>

\* __exit__() of a "with" block that lost its lock releases it all the same.
BareExit(t) ==
  /\ at[t] = "bare"
  /\ value' = 1
  /\ IF value = 0 /\ waiters # <<>>
     THEN /\ at' = [at EXCEPT ![t] = "out", ![Head(waiters)] = "woken"]
          /\ waiters' = Tail(waiters)
     ELSE at' = [at EXCEPT ![t] = "out"] /\ UNCHANGED waiters
  /\ UNCHANGED <<kind, history, condVars>>

CondStep(t) ==
  \/ Enter(t) \/ Exit(t) \/ Wait(t) \/ WaitReturns(t) \/ LockReturns(t)
  \/ LockInterrupted(t) \/ BareExit(t)
  \/ \E n \in 1 .. Cardinality(Tasks) : Notify(t, n)

CondNext == \E t \in Tasks : CondStep(t)

CondSpec == CondInit /\ [][CondNext]_allVars

\* A runnable task runs, and a holder leaves the block.
CondRuns(t) ==
  \/ LockReturns(t) \/ Exit(t) \/ BareExit(t)
  \/ t \in notified /\ WaitReturns(t)

(***************************************************************************)
(* Properties.                                                             *)
(***************************************************************************)

CondTypeOK ==
  /\ kind \in Kinds
  /\ value \in IF kind = "lock" THEN {0, 1} ELSE Int
  /\ waiters \in Seq(Tasks)
  /\ at \in [Tasks -> CondPlaces]
  /\ parked \in Seq(Tasks)
  /\ {notified, inwait} \subseteq SUBSET Tasks
  /\ {barged, dropped, bared} \subseteq BOOLEAN

\* No more tasks are in the block than the object has slots, as long as
\* nobody asks for the lock between a release and the turn of the task it
\* woke, and no swait() is interrupted while it takes the lock again.
CondHoldersBounded == HoldersBounded \/ bared

\* A notification reaches whoever waits for one: a task is parked on the
\* condition exactly while its event is queued, where notify() finds it, or
\* is set.
NotifyReaches ==
  \A t \in Tasks : at[t] = "cond" <=> t \in Range(parked) \cup notified
=============================================================================
