------------------------------- MODULE Futures -------------------------------
(***************************************************************************)
(* Futures and what combines them (tasks.py, scheduler.py): Future with    *)
(* its done callbacks, Shield, gather(), wait(), wait_for(),               *)
(* as_completed(), and the futures of run_in_executor().                   *)
(*                                                                         *)
(* A behaviour has one combinator over some children.  A child is a plain  *)
(* future, a task, or a call in an executor.  A done callback runs inside  *)
(* the step that completes the future; a task that was woken runs in a     *)
(* later step, so a timeout or a cancellation may come first.              *)
(***************************************************************************)
EXTENDS Naturals, Sequences, FiniteSets, SequencesExt

CONSTANTS Kinds,     \* the combinators of the model
          Shape      \* Shape[i] is "plain", "task" or "exec": child number i

VARIABLES kind,      \* the combinator of this behaviour
          st,        \* children, combinator and the task that runs it
          soon,      \* callbacks queued with call_soon
          worker,    \* worker[c]: the executor's thread for child c
          calls,     \* len(_pending_executor_calls)
          waiter     \* a task in wait() of the combinator's future

vars == <<kind, st, soon, worker, calls, waiter>>

Children == DOMAIN Shape
Outcomes == {"result", "error", "cancelled"}
Gathers == kind \in {"gather", "gather_all"}
Waits == kind \in {"wait_all", "wait_first", "wait_error"}
Iterates == Waits \/ kind = "as_completed"

\* wait_for() and shield() have one child: the first.
Used == IF kind \in {"wait_for", "shield"} THEN {1} ELSE Children
Pending(S) == {c \in Used : S.fut[c] = "pending"}

(***************************************************************************)
(* Completing a future.  `fut` and `out` are the outcomes of the children  *)
(* and of the combinator; `hooked` are the children whose callback list    *)
(* has the combinator's callback; `broken` marks a second set_result() or  *)
(* set_exception(), which raises InvalidStateError in the code.            *)
(***************************************************************************)
SetOut(S, o) ==
  IF S.out = "pending" THEN [S EXCEPT !.out = o] ELSE [S EXCEPT !.broken = TRUE]

\* Mutant: the last child to end does not look whether cancel() was asked for.
MutChildDone(S, c) ==
  LET T == [S EXCEPT !.left = @ - 1, !.results[c] = S.fut[c]]
  IN IF S.out # "pending" THEN S
     ELSE IF S.fut[c] # "result" /\ kind = "gather" THEN SetOut(S, S.fut[c])
     ELSE IF T.left > 0 THEN T ELSE SetOut(T, "result")

\* child_done() of gather().
ChildDone(S, c) ==
  LET T == [S EXCEPT !.left = @ - 1, !.results[c] = S.fut[c]]
  IN IF S.out # "pending" THEN S
     ELSE IF S.fut[c] # "result" /\ kind = "gather" THEN SetOut(S, S.fut[c])
     ELSE IF T.left > 0 THEN T
     ELSE SetOut(T, IF S.asked THEN "cancelled" ELSE "result")

\* complete_next() of _as_completed_futures(): the queue gets the child, and
\* the last child shuts it down; a getter that waits is woken.
CompleteNext(S, c) ==
  [S EXCEPT !.queue = Append(@, c), !.owed = @ \ {c}, !.shut = S.owed = {c},
            !.task = IF @ = "parked" THEN "woken" ELSE @]

\* _complete_from_child() of Shield.
CompleteFromChild(S, c) == IF S.out # "pending" THEN S ELSE SetOut(S, S.fut[c])

Callback(S, c) ==
  IF Gathers THEN ChildDone(S, c)
  ELSE IF kind = "shield" THEN CompleteFromChild(S, c)
  ELSE CompleteNext(S, c)

\* set_result() or set_exception(): the event wakes the task in wait_for(),
\* then the callbacks run.
SetDone(S, c, o) ==
  LET T == [S EXCEPT !.fut[c] = o, !.hooked = @ \ {c},
                     !.task = IF kind = "wait_for" /\ c = 1 /\ @ = "parked"
                              THEN "woken" ELSE @]
  IN IF S.fut[c] # "pending" THEN [S EXCEPT !.broken = TRUE]
     ELSE IF c \in S.hooked THEN Callback(T, c) ELSE T

\* cancel() of a child.  A task gets CancelledError thrown in and runs at
\* once: it ends, or it handles the exception and goes on (tough).
CancelChild(S, c, tough) ==
  IF S.fut[c] # "pending" \/ (Shape[c] = "task" /\ c \in tough) THEN S
  ELSE SetDone(S, c, "cancelled")

(***************************************************************************)
(* The task of wait(), wait_for() and as_completed().  It registers the    *)
(* callbacks when it first runs, and runs until it parks.                  *)
(***************************************************************************)
AddCallback(S, c) ==
  IF S.fut[c] # "pending" THEN Callback(S, c) ELSE [S EXCEPT !.hooked = @ \cup {c}]

InTurn(Op(_, _), S) == FoldLeft(Op, S, [c \in Children |-> c])

\* The way out of the generator removes the callbacks that are left; wait()
\* answers with the children that are done now.
EndTask(S, o) ==
  SetOut([S EXCEPT !.task = "ended", !.hooked = IF Iterates THEN {} ELSE @,
                   !.answer = IF Waits THEN Used \ Pending(S) ELSE @], o)

Stops(S, c) ==
  \/ kind = "wait_first"
  \/ kind = "wait_error" /\ S.fut[c] = "error"

\* One run of the task over what the queue has.  The user of as_completed()
\* gets one child at a time and may park in between.
RunTask(S) ==
  LET all == [S EXCEPT !.yielded = @ \o S.queue, !.queue = <<>>]
      one == [S EXCEPT !.yielded = Append(@, Head(S.queue)), !.queue = Tail(@),
                       !.task = "woken"]
  IN CASE kind = "wait_for" ->
            IF S.fut[1] = "pending" THEN [S EXCEPT !.task = "parked"]
            ELSE EndTask(S, S.fut[1])
       [] Waits /\ ((\E i \in DOMAIN S.queue : Stops(S, S.queue[i])) \/ S.shut) ->
            EndTask(all, "result")
       [] kind = "as_completed" /\ S.queue # <<>> -> one
       [] kind = "as_completed" /\ S.queue = <<>> /\ S.shut -> EndTask(S, "result")
       [] OTHER -> [all EXCEPT !.task = "parked"]

Set(S) == st' = S
Same == UNCHANGED <<kind, soon, worker, calls, waiter>>

\* The first run of the task.
Start ==
  /\ st.task = "new"
  /\ Set(RunTask(IF Iterates THEN InTurn(AddCallback, st) ELSE st))
  /\ Same

Run ==
  /\ st.task = "woken"
  /\ Set(RunTask(st))
  /\ Same

\* The timeout throws TimeoutError into the task, although it may have been
\* woken.  wait() answers; wait_for() cancels the child.
Timeout ==
  /\ st.task \in {"parked", "woken"}
  /\ \E tough \in SUBSET Children :
       Set(CASE Waits -> EndTask([st EXCEPT !.late = TRUE], "result")
             [] kind = "wait_for" -> CancelChild(EndTask(st, "timeout"), 1, tough)
             [] OTHER -> EndTask(st, "timeout"))
  /\ st' # st
  /\ Same

(***************************************************************************)
(* cancel() of the combinator's future.  _GatheringFuture cancels its      *)
(* children in turn; the task of the others gets CancelledError, and       *)
(* Future.wait() of wait_for()'s child queues the cancellation of it.      *)
(***************************************************************************)
CancelOut(tough) ==
  CASE st.out # "pending" -> st
    [] Gathers -> LET Op(S, c) == CancelChild(S, c, tough)
                  IN InTurn(Op, [st EXCEPT !.asked = TRUE])
    [] kind = "shield" -> SetOut(st, "cancelled")
    [] OTHER -> EndTask(st, "cancelled")

Passes == kind = "wait_for" /\ st.task \in {"parked", "woken"}

Cancel ==
  /\ st.out = "pending"
  /\ \E tough \in SUBSET Children : Set(CancelOut(tough))
  /\ soon' = IF Passes THEN soon \cup {"child"} ELSE soon
  /\ UNCHANGED <<kind, worker, calls, waiter>>

\* A task in wait() of the combinator: it returns, or CancelledError is
\* thrown into it and the future's cancel() is queued.
WaitEnds ==
  /\ waiter = "waits" /\ st.out # "pending"
  /\ waiter' = "returned"
  /\ UNCHANGED <<kind, st, soon, worker, calls>>

WaitCancelled ==
  /\ waiter = "waits"
  /\ waiter' = "cancelled"
  /\ soon' = soon \cup {"out"}
  /\ UNCHANGED <<kind, st, worker, calls>>

RunSoon ==
  \E cb \in soon, tough \in SUBSET Children :
    /\ Set(IF cb = "out" THEN CancelOut(tough) ELSE CancelChild(st, 1, tough))
    /\ soon' = (soon \ {cb})
         \cup (IF cb = "out" /\ st.out = "pending" /\ Passes THEN {"child"} ELSE {})
    /\ UNCHANGED <<kind, worker, calls, waiter>>

(***************************************************************************)
(* The children.  A plain future is completed by anyone, a task by its own *)
(* end; a call in an executor by its thread, through call_soon_threadsafe. *)
(***************************************************************************)
Settle(c, o) ==
  /\ Shape[c] # "exec" /\ st.fut[c] = "pending"
  /\ Set(SetDone(st, c, o))
  /\ Same

UserCancels(c) ==
  /\ Shape[c] = "exec" /\ st.fut[c] = "pending"
  /\ Set(CancelChild(st, c, {}))
  /\ Same

WorkerEnds(c, o) ==
  /\ worker[c] = "running"
  /\ worker' = [worker EXCEPT ![c] = o]
  /\ UNCHANGED <<kind, st, soon, calls, waiter>>

\* complete_result() or complete_exception() on the scheduler's thread.
Complete(c) ==
  /\ worker[c] \in {"result", "error"}
  /\ Set(IF st.fut[c] = "pending" THEN SetDone(st, c, worker[c]) ELSE st)
  /\ worker' = [worker EXCEPT ![c] = "over"]
  /\ calls' = calls - 1
  /\ UNCHANGED <<kind, soon, waiter>>

\* gather() and Shield hook the children when they are made, and take those
\* that are done already.
NewState(fut) ==
  [fut |-> fut, out |-> "pending", hooked |-> {}, left |-> Len(Shape), asked |-> FALSE,
   results |-> [c \in Children |-> "none"], queue |-> <<>>, owed |-> Children,
   shut |-> FALSE, yielded |-> <<>>, answer |-> {}, late |-> FALSE,
   broken |-> FALSE,
   task |-> IF Gathers \/ kind = "shield" THEN "none" ELSE "new"]

Init ==
  /\ kind \in Kinds
  /\ \E fut \in [Children -> {"pending", "error"}] :
       /\ \A c \in Children : Shape[c] = "exec" => fut[c] = "pending"
       /\ st = IF Gathers THEN InTurn(AddCallback, NewState(fut))
               ELSE IF kind = "shield" THEN AddCallback(NewState(fut), 1)
               ELSE NewState(fut)
  /\ soon = {}
  /\ worker = [c \in Children |-> IF Shape[c] = "exec" THEN "running" ELSE "over"]
  /\ calls = Cardinality({c \in Children : Shape[c] = "exec"})
  /\ waiter = "waits"

Next ==
  \/ Start \/ Run \/ Timeout \/ Cancel \/ WaitEnds \/ WaitCancelled \/ RunSoon
  \/ \E c \in Children :
       \/ \E o \in Outcomes : Settle(c, o)
       \/ \E o \in {"result", "error"} : WorkerEnds(c, o)
       \/ UserCancels(c) \/ Complete(c)

Spec == Init /\ [][Next]_vars

(***************************************************************************)
(* Properties.                                                             *)
(***************************************************************************)

\* What the combinator's future says is true of its children, whatever
\* order results, failures, timeouts and cancellations came in: nothing is
\* completed twice; gather() has its result when every child is done, and
\* each child's outcome in its place; wait() answers when its condition
\* holds; as_completed() hands every child out once; no callback is left on
\* a child after the end.
CombinesRight ==
  /\ ~st.broken
  /\ Gathers =>
       /\ st.out = "result" =>
            /\ Pending(st) = {} /\ ~st.asked
            /\ \A c \in Used : st.results[c] = st.fut[c]
       /\ st.out = "pending" => st.left = Cardinality(Pending(st)) /\ st.hooked = Pending(st)
       /\ st.out = "error" => \E c \in Used : st.fut[c] = "error"
  /\ Iterates =>
       /\ \A i, j \in DOMAIN st.yielded : st.yielded[i] = st.yielded[j] => i = j
       /\ st.task = "ended" => st.hooked = {}
       /\ st.task \in {"parked", "woken"} => st.owed = Pending(st)
  /\ Waits /\ st.out = "result" =>
       \/ st.late \/ st.answer = Used
       \/ kind = "wait_first" /\ st.answer # {}
       \/ kind = "wait_error" /\ \E c \in st.answer : st.fut[c] = "error"
  /\ kind = "as_completed" /\ st.out = "result" => ToSet(st.yielded) = Used
  /\ kind = "wait_for" /\ st.out \in Outcomes \ {"cancelled"} => st.fut[1] = st.out

\* len(_pending_executor_calls) counts the calls that will still complete:
\* run() does not return while one is under way, and stays for none.
CallsCounted == calls = Cardinality({c \in Children : worker[c] # "over"})

\* The child of wait_for() got the cancellation (a task may handle it).
CancelSeen == st.fut[1] # "pending" \/ Shape[1] = "task"
=============================================================================
