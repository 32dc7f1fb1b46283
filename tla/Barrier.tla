------------------------------ MODULE Barrier ------------------------------
(***************************************************************************)
(* Barrier of tealetio.locks: the last of Parties arrivals releases the    *)
(* others.  A task may arrive again, and a parked one may be interrupted.  *)
(***************************************************************************)
EXTENDS Naturals, FiniteSets, SequencesExt

CONSTANTS
  Tasks,    \* the tasks that use the barrier
  Parties,  \* the argument of Barrier(), which is positive
  MaxGen    \* bound: generations completed

VARIABLES
  count,       \* _count
  generation,  \* _generation
  waiters,     \* _waiters, each entry named by its task
  at,          \* "out", "parked", or "released": the event is set
  arrival,     \* what _arrive() returned last: index and generation
  left         \* history: a parked task was interrupted

vars == <<count, generation, waiters, at, arrival, left>>

Init ==
  /\ count = 0
  /\ generation = 0
  /\ waiters = <<>>
  /\ at = [t \in Tasks |-> "out"]
  /\ arrival = [t \in Tasks |-> [index |-> 0, generation |-> 0]]
  /\ left = FALSE

\* The index an arrival gets.
Index == Parties - count - 1

IsLast == count + 1 = Parties

\* The tasks the last arrival releases.
Released == Range(waiters)

\* _arrive() of the last party.
Complete(t) ==
  /\ count' = 0
  /\ generation' = generation + 1
  /\ waiters' = <<>>
  /\ at' = [u \in Tasks |-> IF u \in Released THEN "released" ELSE at[u]]
  /\ arrival' = [arrival EXCEPT ![t] = [index |-> 0, generation |-> generation]]

\* _arrive() of another, and its park.
Park(t) ==
  /\ count' = count + 1
  /\ waiters' = Append(waiters, t)
  /\ at' = [at EXCEPT ![t] = "parked"]
  /\ arrival' = [arrival EXCEPT ![t] = [index |-> Index,
                                        generation |-> generation]]
  /\ UNCHANGED generation

\* swait(), wait()
Arrive(t) ==
  /\ at[t] = "out"
  /\ generation < MaxGen
  /\ IF IsLast THEN Complete(t) ELSE Park(t)
  /\ UNCHANGED left

\* The wait returns the index of the arrival.
Return(t) ==
  /\ at[t] = "released"
  /\ at' = [at EXCEPT ![t] = "out"]
  /\ UNCHANGED <<count, generation, waiters, arrival, left>>

\* A mutant: the count is taken down whether the entry was queued or not.
MutInterrupt(t) ==
  /\ at[t] \in {"parked", "released"}
  /\ left' = (left \/ at[t] = "parked")
  /\ at' = [at EXCEPT ![t] = "out"]
  /\ waiters' = RemoveFirst(waiters, t)
  /\ count' = IF count > 0 THEN count - 1 ELSE count
  /\ UNCHANGED <<generation, arrival>>

\* An exception out of the wait: _cancel_waiter().
Interrupt(t) ==
  /\ at[t] \in {"parked", "released"}
  /\ left' = (left \/ at[t] = "parked")
  /\ at' = [at EXCEPT ![t] = "out"]
  /\ IF t \in Range(waiters)
     THEN /\ waiters' = RemoveFirst(waiters, t)
          /\ count' = IF arrival[t].generation = generation /\ count > 0
                      THEN count - 1 ELSE count
     ELSE UNCHANGED <<waiters, count>>
  /\ UNCHANGED <<generation, arrival>>

Next == \E t \in Tasks : Arrive(t) \/ Return(t) \/ Interrupt(t)

Spec == Init /\ [][Next]_vars

\* A task outside arrives, and a runnable one runs.
Runs(t) == Return(t) \/ Arrive(t)

(***************************************************************************)
(* Properties.                                                             *)
(***************************************************************************)

TypeOK ==
  /\ count \in 0 .. Parties - 1
  /\ generation \in 0 .. MaxGen
  /\ waiters \in Seq(Tasks)
  /\ at \in [Tasks -> {"out", "parked", "released"}]
  /\ left \in BOOLEAN
  /\ arrival \in [Tasks -> [index : 0 .. Parties - 1, generation : 0 .. MaxGen]]

\* The count is the number of parked tasks of this generation, with any
\* interrupts before and after the release, so a generation completes with
\* exactly Parties tasks (_arrive against _cancel_waiter).
CountAgrees ==
  /\ count = Len(waiters)
  /\ IsInjective(waiters)
  /\ \A t \in Tasks :
       /\ at[t] = "parked" <=> t \in Range(waiters)
       /\ at[t] = "parked" => arrival[t].generation = generation

\* The tasks that pass the barrier together have different indices, as long
\* as no parked one was interrupted.
IndicesDistinct ==
  \A t, u \in Tasks :
    /\ ~left /\ t # u
    /\ at[t] = "released" /\ at[u] = "released"
    /\ arrival[t].generation = arrival[u].generation
    => arrival[t].index # arrival[u].index
=============================================================================
