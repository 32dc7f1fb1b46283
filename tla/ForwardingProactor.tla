-------------------------- MODULE ForwardingProactor --------------------------
(***************************************************************************)
(* ForwardingProactor and TealetProactorEventLoop of tealetio.asyncio: an  *)
(* asyncio loop whose operations are those of a tealetio proactor.  Each   *)
(* is a future of the loop and an operation of the proactor.  A completion *)
(* comes on a worker of the proactor, or within the submit, and is handed  *)
(* to the loop, which sleeps in Proactor.wait().                           *)
(*                                                                         *)
(* External are the loop's queue, its self-pipe and the order in which it  *)
(* runs callbacks (asyncio), and the wait, whose wake_wait() is latched.   *)
(* The loop receives from its self-pipe through this proactor too, so that *)
(* a completion, which writes a byte to the pipe, is followed by another.  *)
(***************************************************************************)
EXTENDS Naturals, Sequences, SequencesExt

CONSTANTS
  Ops,      \* operations of the program
  Reads,    \* the receives of the self-pipe, two of which may overlap
  Empty,
  MaxRuns   \* bound: calls of run_forever()

VARIABLES
  future,   \* of each operation: "none", "pending", "result" (or an exception), "cancelled"
  op,       \* of each operation: "none", "live", "asked" (to be cancelled), or "done"
  ready,    \* _ready of the loop: callbacks <<what, operation, outcome>>
  loop,     \* at; reading: _self_reading_future; runs; owned: it closes its proactor (fixed)
  pipe,     \* a byte is in the self-pipe
  wake,     \* wake_wait() was called, and no wait() has returned for it
  worker    \* the completion the worker hands over: at, op, outcome

vars == <<future, op, ready, loop, pipe, wake, worker>>

All == Ops \cup Reads
Outcomes == {"result", "cancelled"}
Resting == [at |-> "idle", op |-> Empty, outcome |-> "result"]

Init ==
  /\ future = [o \in All |-> "none"] /\ op = [o \in All |-> "none"]
  /\ ready = <<>> /\ pipe = FALSE /\ wake = FALSE /\ worker = Resting
  /\ \E o \in BOOLEAN : loop = [at |-> "stopped", reading |-> Empty, runs |-> MaxRuns, owned |-> o]

Queued(o) == \E k \in DOMAIN ready : ready[k][2] = o
Free(o) == future[o] # "pending" /\ op[o] \in {"none", "done"} /\ ~Queued(o) /\ worker.op # o

(***************************************************************************)
(* recv() and _future_from_callback().                                     *)
(***************************************************************************)
Callback(what, o, outcome) == <<what, o, outcome>>

\* The operation is under way, or was completed on the stack of the submit:
\* then _marshal_operation_completion() has run already.
Submit(o, queue) ==
  /\ future' = [future EXCEPT ![o] = "pending"]
  /\ \/ /\ op' = [op EXCEPT ![o] = "live"] /\ ready' = queue
        /\ UNCHANGED <<pipe, wake>>
     \/ /\ o \in Reads => pipe
        /\ op' = [op EXCEPT ![o] = "done"] /\ pipe' = TRUE /\ wake' = TRUE
        /\ ready' = Append(queue, Callback("complete", o, "result"))

Call(o) ==
  /\ loop.at = "run" /\ future[o] = "none"
  /\ Submit(o, ready)
  /\ UNCHANGED <<loop, worker>>

\* Future.cancel(): the done callbacks are queued, cancel_operation() first.
DoneCallbacks(o) ==
  <<Callback("cancel", o, "cancelled")>>
    \o (IF o \in Reads THEN <<Callback("reread", o, "cancelled")>> ELSE <<>>)

Cancel(o) ==
  /\ loop.at = "run" /\ o \in Ops /\ future[o] = "pending"
  /\ future' = [future EXCEPT ![o] = "cancelled"]
  /\ ready' = ready \o DoneCallbacks(o)
  /\ UNCHANGED <<op, loop, pipe, wake, worker>>

(***************************************************************************)
(* The worker: on_done(), then _marshal_operation_completion().            *)
(***************************************************************************)
Complete(o, outcome) ==
  /\ worker.at = "idle" /\ op[o] \in {"live", "asked"}
  /\ outcome = "cancelled" <=> op[o] = "asked"
  /\ o \in Reads /\ outcome # "cancelled" => pipe
  /\ op' = [op EXCEPT ![o] = "done"]
  /\ pipe' = (pipe /\ ~(o \in Reads /\ outcome # "cancelled"))
  /\ worker' = [at |-> "publish", op |-> o, outcome |-> outcome]
  /\ UNCHANGED <<future, ready, loop, wake>>

\* A closed loop refuses call_soon_threadsafe(), and is not woken.
HandOver ==
  \/ /\ worker.at = "publish"
     /\ IF loop.at = "closed" THEN worker' = Resting /\ UNCHANGED <<ready, pipe>>
        ELSE /\ ready' = Append(ready, Callback("complete", worker.op, worker.outcome))
             /\ pipe' = TRUE /\ worker' = [worker EXCEPT !.at = "wake"]
     /\ UNCHANGED <<future, op, loop, wake>>
  \/ /\ worker.at = "wake" /\ wake' = TRUE /\ worker' = Resting
     /\ UNCHANGED <<future, op, ready, loop, pipe>>

(***************************************************************************)
(* The loop.                                                               *)
(***************************************************************************)
\* complete_future().
CompleteFuture(o, outcome) ==
  /\ IF future[o] = "cancelled" THEN UNCHANGED future /\ ready' = Tail(ready)
     ELSE /\ future' = [future EXCEPT ![o] = outcome]
          /\ ready' = Tail(ready) \o (IF outcome = "cancelled" THEN DoneCallbacks(o)
                                     ELSE IF o \in Reads THEN <<Callback("reread", o, outcome)>>
                                     ELSE <<>>)
  /\ UNCHANGED <<op, loop, pipe, wake>>

\* cancel_operation(): cancel_nowait(), which a completed operation ignores.
CancelOperation(o) ==
  /\ op' = [op EXCEPT ![o] = IF @ = "live" THEN "asked" ELSE @]
  /\ ready' = Tail(ready)
  /\ UNCHANGED <<future, loop, pipe, wake>>

\* _loop_self_reading(), as the done callback of a receive.
Reread(o) ==
  /\ IF future[o] = "cancelled" \/ loop.reading # o
     THEN ready' = Tail(ready) /\ UNCHANGED <<future, op, pipe, wake>>
     ELSE Submit(o, Tail(ready))
  /\ UNCHANGED loop

RunCallback ==
  /\ loop.at = "run" /\ ready # <<>>
  /\ LET o == Head(ready)[2]
     IN CASE Head(ready)[1] = "complete" -> CompleteFuture(o, Head(ready)[3])
          [] Head(ready)[1] = "cancel" -> CancelOperation(o)
          [] Head(ready)[1] = "reread" -> Reread(o)
  /\ UNCHANGED worker

\* select(): with callbacks to run wait() returns at once, and may take the
\* wakeup; else it sleeps.
Select ==
  /\ loop.at = "run"
  /\ IF ready # <<>> THEN wake /\ wake' = FALSE /\ UNCHANGED loop
     ELSE loop' = [loop EXCEPT !.at = "wait"] /\ UNCHANGED wake
  /\ UNCHANGED <<future, op, ready, pipe, worker>>

WaitReturns ==
  /\ loop.at = "wait" /\ wake
  /\ loop' = [loop EXCEPT !.at = "run"] /\ wake' = FALSE
  /\ UNCHANGED <<future, op, ready, pipe, worker>>

\* A timer of the loop is the deadline of the wait.
WaitTimesOut ==
  /\ loop.at = "wait"
  /\ loop' = [loop EXCEPT !.at = "run"]
  /\ UNCHANGED <<future, op, ready, pipe, wake, worker>>

\* run_forever(), and how it ends: the receive is cancelled, and what that
\* queues stays queued for the next run.
RunForever ==
  /\ loop.at = "stopped" /\ loop.runs > 0
  /\ \E o \in Reads :
       /\ Free(o) /\ Submit(o, ready)
       /\ loop' = [loop EXCEPT !.at = "run", !.reading = o, !.runs = @ - 1]
  /\ UNCHANGED worker

Stop ==
  /\ loop.at = "run"
  /\ LET o == loop.reading
     IN IF future[o] = "pending"
        THEN /\ future' = [future EXCEPT ![o] = "cancelled"]
             /\ ready' = ready \o DoneCallbacks(o)
        ELSE UNCHANGED <<future, ready>>
  /\ loop' = [loop EXCEPT !.at = "stopped", !.reading = Empty]
  /\ UNCHANGED <<op, pipe, wake, worker>>

\* close(): the queue is cleared; a proactor of its own is closed with it.
Close ==
  /\ loop.at = "stopped"
  /\ loop' = [loop EXCEPT !.at = "closed"]
  /\ ready' = <<>>
  /\ op' = IF loop.owned THEN [o \in All |-> IF op[o] = "none" THEN "none" ELSE "done"] ELSE op
  /\ UNCHANGED <<future, pipe, wake, worker>>

Next ==
  \/ \E o \in Ops : Call(o) \/ Cancel(o)
  \/ \E o \in All, x \in Outcomes : Complete(o, x)
  \/ HandOver \/ RunCallback \/ Select \/ WaitReturns \/ WaitTimesOut
  \/ RunForever \/ Stop \/ Close

Spec == Init /\ [][Next]_vars

(***************************************************************************)
(* Properties.                                                             *)
(***************************************************************************)
\* The loop does not sleep over a completion: one is queued only when the
\* wakeup is there, or the worker is about to give it.
LoopTold ==
  loop.at = "wait" /\ ready # <<>> => wake \/ worker.at = "wake"

\* A future is completed once: the callback for it finds it pending, or
\* cancelled meanwhile, and no second one follows; a future has its result
\* only when its operation is over.
CompletedOnce ==
  \A o \in All :
    LET mine == {k \in DOMAIN ready : ready[k][2] = o /\ ready[k][1] = "complete"}
    IN /\ mine # {} => /\ future[o] \in {"pending", "cancelled"} /\ op[o] = "done"
                       /\ worker.at = "publish" => worker.op # o
                       /\ \A j, k \in mine : j = k
       /\ future[o] = "result" => op[o] = "done"

\* The operation of a cancelled future is not left running: it was asked to
\* end, or the callback that asks is queued.  A loop that is closed before it
\* runs the callback leaves the operation to the proactor of the host.
CancelReaches ==
  \A o \in All :
    future[o] = "cancelled" /\ op[o] = "live" =>
      \/ loop.at = "closed" /\ ~loop.owned
      \/ Callback("cancel", o, "cancelled") \in Range(ready)

\* A future whose operation is over, while the loop runs.
Due(o) == future[o] = "pending" /\ op[o] = "done" /\ loop.at \in {"run", "wait"}
===============================================================================
