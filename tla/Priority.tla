------------------------------- MODULE Priority -------------------------------
(***************************************************************************)
(* PriorityRunnableQueue (scheduler.py), PriorityTask (tasks.py) and       *)
(* PriorityLock (locks.py).                                                *)
(*                                                                         *)
(* The queue has a lane of tasks with a given position and, behind it, a   *)
(* heap ordered by the priority each entry had when it was inserted.  The  *)
(* owner of a lock inherits the best priority of the tasks that wait for   *)
(* it, so that a priority changes while the task is in the heap: the       *)
(* change has to reach the entry along the locks and owners.  Low numbers  *)
(* are the better priorities.  Locks are taken in one order; a cycle of    *)
(* waits is a deadlock of the program and is left out.                     *)
(***************************************************************************)
EXTENDS Naturals, Sequences, SequencesExt, FiniteSetsExt

CONSTANTS Tasks, Priorities, NLocks, Nobody

VARIABLES task,   \* base: _priority; owned: _owned_priority_locks; on: _waiting_on_priority
          lock,   \* owner; queue: _waiters, each event named by its task; tasks: _waiter_tasks
          run,    \* current; lane: _prescheduled; heap: _priority_items in heap order
          past    \* barged: a free lock was taken from a task woken for it;
                  \* changed: the priority of a parked task was set

vars == <<task, lock, run, past>>

Locks == 1..NLocks

Init ==
  /\ task = [t \in Tasks |-> [base |-> 0, owned |-> {}, on |-> 0]]
  /\ lock = [l \in Locks |-> [owner |-> Nobody, locked |-> FALSE, queue |-> <<>>, tasks |-> {}]]
  /\ run = [current |-> Nobody, lane |-> <<>>, heap |-> <<>>]
  /\ past = [barged |-> FALSE, changed |-> FALSE]

(***************************************************************************)
(* Effective priorities: PriorityTask and PriorityLock,                    *)
(* get_effective_priority().                                               *)
(***************************************************************************)
RECURSIVE Effective(_, _, _)
Effective(ts, ls, t) ==
  Min({ts[t].base} \cup UNION {{Effective(ts, ls, u) : u \in ls[l].tasks} : l \in ts[t].owned})

(***************************************************************************)
(* The queue.                                                              *)
(***************************************************************************)
HeapTasks(r) == {r.heap[k].task : k \in DOMAIN r.heap}
Queued(r) == HeapTasks(r) \cup Range(r.lane)

\* _insert_normal(): behind the entries whose priority is as good.
Insert(r, t, p) ==
  LET n == Cardinality({k \in DOMAIN r.heap : r.heap[k].pri <= p})
  IN [r EXCEPT !.heap = InsertAt(r.heap, n + 1, [pri |-> p, task |-> t])]

\* discard(), from the lane or from the heap.
Discard(r, t) ==
  [r EXCEPT !.lane = RemoveFirst(@, t),
            !.heap = SelectSeq(@, LAMBDA e : e.task # t)]

\* on_modified(): an entry of the heap is inserted again.
Modified(r, ts, ls, t) ==
  IF t \in HeapTasks(r) THEN Insert(Discard(r, t), t, Effective(ts, ls, t)) ELSE r

\* Mutant: the change stops at an owner that waits itself.
MutPropagate(r, ts, ls, l) ==
  LET o == ls[l].owner
  IN IF o \in Queued(r) THEN Modified(r, ts, ls, o) ELSE r

\* _propagate_priority(), from a lock to its owner, and, when the owner waits
\* for a lock, on to that one.
RECURSIVE Propagate(_, _, _, _)
Propagate(r, ts, ls, l) ==
  LET o == ls[l].owner
  IN IF o = Nobody THEN r
     ELSE IF o \in Queued(r) THEN Modified(r, ts, ls, o)
     ELSE IF ts[o].on # 0 THEN Propagate(r, ts, ls, ts[o].on) ELSE r

(***************************************************************************)
(* Scheduling.                                                             *)
(***************************************************************************)
Known(t) == task[t].base # 0

Spawn(t, p) ==
  /\ ~Known(t)
  /\ task' = [task EXCEPT ![t].base = p]
  /\ run' = Insert(run, t, p)
  /\ UNCHANGED <<lock, past>>

\* _take_lock().
Take(ts, t, l) == [ts EXCEPT ![t].owned = @ \cup {l}, ![t].on = 0]
Taken(ls, t, l) == [ls EXCEPT ![l].locked = TRUE, ![l].owner = t, ![l].tasks = @ \ {t}]

\* pop_next(): the lane first, then the best entry of the heap.  A task that
\* was woken for a lock takes it now.
Pop ==
  /\ run.current = Nobody /\ Queued(run) # {}
  /\ LET lane == run.lane # <<>>
         t == IF lane THEN Head(run.lane) ELSE Head(run.heap).task
         l == task[t].on
         r == [Discard(run, t) EXCEPT !.current = t]
     IN IF l = 0 THEN run' = r /\ UNCHANGED <<task, lock, past>>
        ELSE /\ task' = Take(task, t, l) /\ lock' = Taken(lock, t, l)
             /\ run' = IF lock[l].locked
                       THEN Propagate(r, [task EXCEPT ![t].on = 0],
                                      [lock EXCEPT ![l].tasks = @ \ {t}], l)
                       ELSE r
             /\ UNCHANGED past

\* The current task parks: in the heap, or at a position of the lane.
Yield ==
  /\ run.current # Nobody
  /\ LET t == run.current
         r == [run EXCEPT !.current = Nobody]
     IN \/ run' = Insert(r, t, Effective(task, lock, t))
        \/ \E k \in 1..(Len(run.lane) + 1) : run' = [r EXCEPT !.lane = InsertAt(@, k, t)]
  /\ UNCHANGED <<task, lock, past>>

\* reschedule(t, position): to the lane, or again into the heap.
Reschedule(t) ==
  /\ run.current # Nobody /\ t \in Queued(run)
  /\ LET r == Discard(run, t)
     IN \/ run' = Insert(r, t, Effective(task, lock, t))
        \/ \E k \in 1..(Len(r.lane) + 1) : run' = [r EXCEPT !.lane = InsertAt(@, k, t)]
  /\ UNCHANGED <<task, lock, past>>

Parked(t) == Known(t) /\ t # run.current /\ t \notin Queued(run)

\* The priority setter.  The link of a parked task is an Event, which has no
\* on_modified(): the priority is set, and the call fails.
SetPriority(t, p) ==
  /\ run.current # Nobody /\ Known(t) /\ p # task[t].base
  /\ task' = [task EXCEPT ![t].base = p]
  /\ run' = Modified(run, task', lock, t)
  /\ past' = [past EXCEPT !.changed = @ \/ Parked(t)]
  /\ UNCHANGED lock

(***************************************************************************)
(* The lock.                                                               *)
(***************************************************************************)
InOrder(t, l) == \A m \in task[t].owned : m < l

Woken(l) == {t \in Queued(run) : task[t].on = l}

\* sacquire(), up to its park: a free lock is taken, also when a task was
\* woken for it.
Acquire(l) ==
  LET t == run.current
  IN /\ t # Nobody /\ InOrder(t, l)
     /\ IF ~lock[l].locked
        THEN /\ task' = Take(task, t, l) /\ lock' = Taken(lock, t, l)
             /\ past' = [past EXCEPT !.barged = @ \/ Woken(l) # {}]
             /\ UNCHANGED run
        ELSE /\ task' = [task EXCEPT ![t].on = l]
             /\ lock' = [lock EXCEPT ![l].tasks = @ \cup {t}, ![l].queue = Append(@, t)]
             /\ run' = [Propagate(run, task', lock', l) EXCEPT !.current = Nobody]
             /\ UNCHANGED past

\* release(): only the owner may; the first waiter is woken.
Release(l) ==
  LET t == run.current
  IN /\ t # Nobody /\ lock[l].owner = t
     /\ task' = [task EXCEPT ![t].owned = @ \ {l}]
     /\ lock' = [lock EXCEPT ![l].owner = Nobody, ![l].locked = FALSE,
                             ![l].queue = IF @ = <<>> THEN @ ELSE Tail(@)]
     /\ run' = IF lock[l].queue = <<>> THEN run
               ELSE LET w == Head(lock[l].queue) IN Insert(run, w, Effective(task', lock', w))
     /\ UNCHANGED past

\* cancel() of a task in sacquire(), parked or woken: its wait ends, and the
\* owner loses what it inherited from it.  The caller is next to run.
Cancel(t) ==
  /\ run.current # Nobody /\ t # run.current /\ task[t].on # 0
  /\ LET l == task[t].on
         r == [Discard(run, t) EXCEPT !.current = t, !.lane = <<run.current>> \o @]
     IN /\ task' = [task EXCEPT ![t].on = 0]
        /\ lock' = [lock EXCEPT ![l].tasks = @ \ {t}, ![l].queue = RemoveFirst(@, t)]
        /\ run' = IF lock[l].locked THEN Propagate(r, task', lock', l) ELSE r
  /\ UNCHANGED past

Next ==
  \/ Pop \/ Yield
  \/ \E t \in Tasks : Reschedule(t) \/ Cancel(t)
                      \/ \E p \in Priorities : Spawn(t, p) \/ SetPriority(t, p)
  \/ \E l \in Locks : Acquire(l) \/ Release(l)

Spec == Init /\ [][Next]_vars

(***************************************************************************)
(* Properties.                                                             *)
(***************************************************************************)
\* The heap is ordered by the priorities that hold now: no change of a base
\* priority, of an owner or of a waiter leaves an entry behind, so that
\* pop_next() takes the best task.  Where the code loses this: a lock taken
\* from the task it was handed to, and a parked task's new priority.
HeapFresh ==
  past.barged \/ past.changed
    \/ \A k \in DOMAIN run.heap : run.heap[k].pri = Effective(task, lock, run.heap[k].task)

\* A task is in one place, and the books of locks and tasks agree.
BooksAgree ==
  /\ Len(run.heap) + Len(run.lane) = Cardinality(Queued(run)) /\ run.current \notin Queued(run)
  /\ ~past.barged =>
       \A l \in Locks, t \in Tasks :
         /\ lock[l].owner = t <=> l \in task[t].owned
         /\ t \in lock[l].tasks <=> task[t].on = l
         /\ lock[l].locked <=> lock[l].owner # Nobody
         /\ t \in Range(lock[l].queue) <=> task[t].on = l /\ Parked(t)
=============================================================================
