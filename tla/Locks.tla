------------------------------- MODULE Locks -------------------------------
(***************************************************************************)
(* Lock, Semaphore and BoundedSemaphore of tealetio.locks.                 *)
(*                                                                         *)
(* The three classes share one protocol.  A task that finds no free slot   *)
(* appends an Event of its own to _waiters and parks on it; release() pops *)
(* one of these events and sets it, which makes its task runnable; the     *)
(* task takes the slot when it runs again.  Between the two any other task *)
(* may run: which one is up to the runnable queue, yield_to() and the      *)
(* priorities, so here it may be any.  One action is what a task does      *)
(* between two parks.                                                      *)
(***************************************************************************)
EXTENDS Integers, FiniteSets, SequencesExt

CONSTANTS
  Tasks,    \* the tasks that use the object
  SemSlots  \* the initial value of a semaphore

VARIABLES
  kind,     \* the class of the object: "lock", "semaphore" or "bounded"
  value,    \* Semaphore._value; for a Lock 0 when _locked, else 1
  waiters,  \* _waiters, each event named by the task that parks on it
  at,       \* where each task is
  barged,   \* history: a task asked for a slot between a release and the
            \* turn of the task that the release woke
  dropped   \* history: a woken task was interrupted before its turn

history == <<barged, dropped>>
vars == <<kind, value, waiters, at, history>>

Kinds == {"lock", "semaphore", "bounded"}
Slots == IF kind = "lock" THEN 1 ELSE SemSlots

Places == {"out", "waiting", "woken", "in"}

Discard(q, t) == RemoveFirst(q, t)

Woken == {t \in Tasks : at[t] = "woken"}

\* The history of a task that asks for a slot, and of one that is interrupted.
Asks == barged' = (barged \/ Woken # {}) /\ UNCHANGED <<kind, dropped>>
Drops(t) == dropped' = (dropped \/ t \in Woken) /\ UNCHANGED <<kind, barged>>

Init ==
  /\ kind \in Kinds
  /\ value = Slots
  /\ barged = FALSE /\ dropped = FALSE
  /\ waiters = <<>>
  /\ at = [t \in Tasks |-> "out"]

\* A Lock sets its flag, a semaphore counts down, also below zero.
Taken == IF kind = "lock" THEN 0 ELSE value - 1

\* sacquire(), acquire(): up to the return, or up to the park.
Acquire(t) ==
  /\ at[t] = "out"
  /\ Asks
  /\ IF value > 0
     THEN /\ value' = Taken
          /\ at' = [at EXCEPT ![t] = "in"]
          /\ UNCHANGED waiters
     ELSE /\ waiters' = Append(waiters, t)
          /\ at' = [at EXCEPT ![t] = "waiting"]
          /\ UNCHANGED value

\* The rest of sacquire(): the wait returned.
Resume(t) ==
  /\ at[t] = "woken"
  /\ value' = Taken
  /\ at' = [at EXCEPT ![t] = "in"]
  /\ UNCHANGED <<kind, waiters, history>>

\* A mutant: an interrupted wait gives a slot back.
MutInterrupt(t, place) ==
  /\ at[t] \in {"waiting", "woken"}
  /\ Drops(t)
  /\ waiters' = Discard(waiters, t)
  /\ at' = [at EXCEPT ![t] = place]
  /\ value' = value + 1

\* An exception out of the wait: the event leaves _waiters, if it is there,
\* and the task goes to place.
Interrupt(t, place) ==
  /\ at[t] \in {"waiting", "woken"}
  /\ Drops(t)
  /\ waiters' = Discard(waiters, t)
  /\ at' = [at EXCEPT ![t] = place]
  /\ UNCHANGED value

\* release() of a Lock that is free, or of a full BoundedSemaphore, raises.
Refused == kind \in {"lock", "bounded"} /\ value >= Slots

\* release() by a task that acquired.
Release(t) ==
  /\ at[t] = "in"
  /\ UNCHANGED <<kind, history>>
  /\ IF Refused
     THEN /\ at' = [at EXCEPT ![t] = "out"]
          /\ UNCHANGED <<value, waiters>>
     ELSE /\ value' = value + 1
          /\ IF waiters = <<>>
             THEN /\ at' = [at EXCEPT ![t] = "out"]
                  /\ UNCHANGED waiters
             ELSE /\ at' = [at EXCEPT ![t] = "out", ![Head(waiters)] = "woken"]
                  /\ waiters' = Tail(waiters)

Step(t) == Acquire(t) \/ Resume(t) \/ Interrupt(t, "out") \/ Release(t)

Next == \E t \in Tasks : Step(t)

Spec == Init /\ [][Next]_vars

\* What the scheduler sees to: a runnable task runs, and a holder releases at
\* some point.
Runs(t) == Resume(t) \/ Release(t)

(***************************************************************************)
(* Properties.                                                             *)
(***************************************************************************)

Holders == {t \in Tasks : at[t] = "in"}

TypeOK ==
  /\ kind \in Kinds
  /\ {barged, dropped} \subseteq BOOLEAN
  /\ value \in IF kind = "lock" THEN {0, 1} ELSE Int
  /\ waiters \in Seq(Tasks)
  /\ at \in [Tasks -> Places]

\* No more tasks hold the object than it has slots.
MutualExclusion == Cardinality(Holders) <= Slots

\* They do not, with any interrupts, as long as nobody asks for a slot between
\* a release and the turn of the task it woke.
HoldersBounded == ~barged => MutualExclusion

\* A free slot is not kept from a queued task: if somebody is queued while
\* the object can be acquired, a woken task is on its way to take the slot.
\* This is what release() owes the queue when it pops one waiter, and what it
\* keeps until a woken task is interrupted.
NoForgottenWaiter == value > 0 /\ waiters # <<>> => Woken # {} \/ dropped

\* Slots are neither lost nor made up, in any order of running and with any
\* interrupts: a semaphore's value is what its holders leave of it, a Lock
\* that nobody holds is free, and the queued events are those of the tasks
\* that wait, so that release() wakes somebody who will take the slot.
SlotsConserved ==
  /\ IsInjective(waiters)
  /\ Range(waiters) = {t \in Tasks : at[t] = "waiting"}
  /\ IF kind = "lock" THEN value = 0 => Holders # {}
     ELSE value = Slots - Cardinality(Holders)
=============================================================================
