----------------------------- MODULE CrossThread -----------------------------
(***************************************************************************)
(* CrossThreadCondition and CrossThreadEvent (locks.py): producer threads  *)
(* publish under a threading.Lock and notify; tealets of one scheduler     *)
(* wait with swait_for().  Every wait has an event of its own, and set()   *)
(* goes through the callbacks of the scheduler, or runs at once when a     *)
(* tealet calls it.  A tealet that blocks on the lock blocks its thread,   *)
(* and keeps to the rule of the class: it parks nowhere else with the lock. *)
(***************************************************************************)
EXTENDS Naturals, Sequences, SequencesExt

CONSTANTS Consumers, Producers, MaxItems, MaxWaits, Nobody

VARIABLES
  holder,   \* of the threading.Lock
  queue,    \* _waiters: events, each named by its tealet and wait
  soon,     \* the calls of CrossThreadEvent._set the scheduler has not run
  items,    \* published and not taken
  made,     \* published so far
  fiber,    \* at: each tealet's place; wait: the number of its waits
  thread,   \* the tealet the scheduler runs, or Nobody
  producer, \* "out" or "notify"
  lost      \* history: a notified tealet was interrupted

vars == <<holder, queue, soon, items, made, fiber, thread, producer, lost>>

Init ==
  /\ holder = Nobody /\ queue = <<>> /\ soon = <<>> /\ items = 0 /\ made = 0
  /\ fiber = [c \in Consumers |-> [at |-> "out", wait |-> 0]]
  /\ thread = Nobody
  /\ producer = [p \in Producers |-> "out"]
  /\ lost = FALSE

Event(c) == <<c, fiber[c].wait>>

(***************************************************************************)
(* A producer.                                                             *)
(***************************************************************************)
Publish(p) ==
  /\ producer[p] = "out" /\ holder = Nobody /\ made < MaxItems
  /\ holder' = p
  /\ made' = made + 1 /\ items' = items + 1
  /\ producer' = [producer EXCEPT ![p] = "notify"]
  /\ UNCHANGED <<queue, soon, fiber, thread, lost>>

\* notify(1), whose set() is queued for the scheduler, and the release.
Notify(p) ==
  /\ producer[p] = "notify"
  /\ queue' = IF queue = <<>> THEN queue ELSE Tail(queue)
  /\ soon' = IF queue = <<>> THEN soon ELSE Append(soon, Head(queue))
  /\ holder' = Nobody
  /\ producer' = [producer EXCEPT ![p] = "out"]
  /\ UNCHANGED <<items, made, fiber, thread, lost>>

(***************************************************************************)
(* The thread of the scheduler.                                            *)
(***************************************************************************)
Runs(c, place) == thread = c /\ fiber[c].at = place

\* acquire(): the thread may block.
Enter(c) ==
  /\ thread = Nobody /\ fiber[c].at = "out" /\ fiber[c].wait < MaxWaits
  /\ thread' = c
  /\ fiber' = [fiber EXCEPT ![c].at = "asks"]
  /\ UNCHANGED <<holder, queue, soon, items, made, producer, lost>>

Acquire(c) ==
  /\ thread = c /\ fiber[c].at \in {"asks", "leaves"} /\ holder = Nobody
  /\ IF fiber[c].at = "leaves"
     THEN /\ fiber' = [fiber EXCEPT ![c].at = "out"] /\ thread' = Nobody
          /\ UNCHANGED holder
     ELSE /\ holder' = c /\ fiber' = [fiber EXCEPT ![c].at = "in"]
          /\ UNCHANGED thread
  /\ UNCHANGED <<queue, soon, items, made, producer, lost>>

\* _set(): the tealet that waits on this event becomes runnable.
Set(fs, e) ==
  IF fs[e[1]] = [at |-> "parked", wait |-> e[2]]
  THEN [fs EXCEPT ![e[1]].at = "runnable"] ELSE fs

\* The predicate of swait_for() holds: the tealet takes the item, may relay
\* the rest with a notify() of its own, and leaves the block.
TakeItem(c) ==
  /\ Runs(c, "in") /\ items > 0
  /\ items' = items - 1
  /\ LET left == [fiber EXCEPT ![c].at = "out"]
     IN \/ fiber' = left /\ UNCHANGED queue
        \/ queue # <<>> /\ queue' = Tail(queue) /\ fiber' = Set(left, Head(queue))
  /\ holder' = Nobody /\ thread' = Nobody
  /\ UNCHANGED <<soon, made, producer, lost>>

\* It does not: swait() queues a fresh event and gives the lock up.
StartWait(c) ==
  /\ Runs(c, "in") /\ items = 0
  /\ IF fiber[c].wait < MaxWaits
     THEN /\ fiber' = [fiber EXCEPT ![c] = [at |-> "parking", wait |-> @.wait + 1]]
          /\ queue' = Append(queue, <<c, fiber[c].wait + 1>>)
          /\ UNCHANGED thread
     ELSE /\ fiber' = [fiber EXCEPT ![c].at = "out"] /\ thread' = Nobody
          /\ UNCHANGED queue
  /\ holder' = Nobody
  /\ UNCHANGED <<soon, items, made, producer, lost>>

\* CrossThreadEvent.swait()
Park(c) ==
  /\ Runs(c, "parking")
  /\ fiber' = [fiber EXCEPT ![c].at = "parked"]
  /\ thread' = Nobody
  /\ UNCHANGED <<holder, queue, soon, items, made, producer, lost>>

\* call_on_scheduler(): the scheduler runs a queued _set().
RunSoon ==
  /\ thread = Nobody /\ soon # <<>>
  /\ fiber' = Set(fiber, Head(soon))
  /\ soon' = Tail(soon)
  /\ UNCHANGED <<holder, queue, items, made, thread, producer, lost>>

\* The finally block of swait(), after the event or an exception: the event
\* leaves _waiters, and the thread blocks for the lock again.
WaitEnds(c, place) ==
  /\ thread' = c
  /\ queue' = RemoveFirst(queue, Event(c))
  /\ fiber' = [fiber EXCEPT ![c].at = place]

Resume(c) ==
  /\ thread = Nobody /\ fiber[c].at = "runnable"
  /\ WaitEnds(c, "asks")
  /\ UNCHANGED <<holder, soon, items, made, producer, lost>>

Interrupt(c) ==
  /\ thread = Nobody /\ fiber[c].at \in {"parked", "runnable"}
  /\ WaitEnds(c, "leaves")
  /\ lost' = (lost \/ Event(c) \notin Range(queue))
  /\ UNCHANGED <<holder, soon, items, made, producer>>

Step(c) == Acquire(c) \/ TakeItem(c) \/ StartWait(c) \/ Park(c) \/ Resume(c)

Next ==
  \/ \E p \in Producers : Publish(p) \/ Notify(p)
  \/ \E c \in Consumers : Enter(c) \/ Step(c) \/ Interrupt(c)
  \/ RunSoon

Spec == Init /\ [][Next]_vars

(***************************************************************************)
(* Properties.                                                             *)
(***************************************************************************)

\* A tealet that waits can be reached: the event of its wait, and of no
\* earlier one, is where notify() finds it, or its _set() is queued.
EventsReach ==
  \A c \in Consumers : fiber[c].at \in {"parking", "parked"} =>
    Event(c) \in Range(queue) \cup Range(soon)

\* The event of its wait is set, or will be.
Due(c) == fiber[c].at = "runnable" \/ Event(c) \in Range(soon)

\* No tealet stays parked while an item is there for it: as many are on their
\* way, or a producer has yet to notify.  notify(1) wakes one tealet, so this
\* ends when that one is interrupted, or when another takes the item first
\* and the woken one waits again.
OnTheWay == {c \in Consumers : fiber[c].at \in {"asks", "in", "runnable"}}
ItemsServed ==
  items > 0 /\ (\E c \in Consumers : fiber[c].at = "parked") =>
    lost \/ OnTheWay # {} \/ soon # <<>> \/ \E p \in Producers : producer[p] = "notify"
=============================================================================
