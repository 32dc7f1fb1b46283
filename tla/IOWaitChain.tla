---------------------------- MODULE IOWaitChain ----------------------------
(***************************************************************************)
(* IOWaitChain of tealetio.io_waiter: operations submitted one after the   *)
(* other, each from the completion of the one before, and a task that      *)
(* waits for the last (iowait_or_dispose).  Completions run in worker      *)
(* threads.  The chain makes one resource: the accepted socket, the opened *)
(* file, or the socket that is being connected.                            *)
(*                                                                         *)
(* A step is a critical section of the chain lock, or what a thread does   *)
(* between two.  Only one completion of a chain runs at a time, since the  *)
(* next operation is submitted by it; the cancel that follow() makes after *)
(* it released the lock may still be due when the next completion runs.    *)
(***************************************************************************)
EXTENDS Naturals, FiniteSets

CONSTANTS
  Legs,          \* the number of legs
  FirstOwns,     \* the resource exists before the first leg (sock_create)
  Attempts,      \* the attempts argument of iowait_or_dispose()
  MaxInterrupts  \* bound: exceptions thrown into the waiting task

VARIABLES
  closed,      \* _closed
  completion,  \* _completion: "none", "ok", "error"
  ready,       \* _ready is set
  tail,        \* _legs[-1], 0 for an empty list
  handle,      \* the legs that hold their operation handle
  flight,      \* the operations in flight
  cancelled,   \* the operations that were cancelled
  late,        \* the operations follow() is about to cancel
  worker,      \* the completion that runs: [at, leg]
  locked,      \* the completion holds the lock (it runs inside submit())
  owner,       \* the waiting task
  tries,       \* further wait() calls of iowait_or_dispose()
  interrupts,  \* exceptions thrown so far
  resource,    \* "none", "open", "closed"
  closes       \* times it was closed

chainVars == <<closed, completion, ready, tail, handle>>
opVars == <<flight, cancelled, late>>
ownerVars == <<owner, tries, interrupts>>
resVars == <<resource, closes>>
vars == <<chainVars, opVars, worker, locked, ownerVars, resVars>>

Idle == [at |-> "idle", leg |-> 0]

\* A leg with an on_cleanup hook.
HasCleanup(i) == FirstOwns \/ i > 1

Init ==
  /\ closed = FALSE /\ completion = "none" /\ ready = FALSE
  /\ tail = 0 /\ handle = {}
  /\ flight = {} /\ cancelled = {} /\ late = {}
  /\ worker = Idle /\ locked = FALSE
  /\ owner = "start" /\ tries = Attempts /\ interrupts = 0
  /\ resource = IF FirstOwns THEN "open" ELSE "none"
  /\ closes = 0

Close == resource' = "closed" /\ closes' = closes + 1

(***************************************************************************)
(* The waiting task.                                                       *)
(***************************************************************************)

\* new_leg(), the submit of the first operation and bind().  A completion
\* on this stack, or one that runs before bind(), is one that comes first.
Start ==
  /\ owner = "start"
  /\ owner' = "bind" /\ tail' = 1 /\ flight' = {1}
  /\ UNCHANGED <<closed, completion, ready, handle, cancelled, late, worker,
                 locked, tries, interrupts, resVars>>

\* The first submit raised: the socket that exists already is closed.
StartRaises ==
  /\ owner = "start"
  /\ owner' = "raised" /\ tail' = 1
  /\ IF FirstOwns THEN Close ELSE UNCHANGED resVars
  /\ UNCHANGED <<closed, completion, ready, handle, opVars, worker, locked,
                 tries, interrupts>>

Bind ==
  /\ owner = "bind"
  /\ owner' = "call" /\ handle' = handle \cup {1}
  /\ UNCHANGED <<closed, completion, ready, tail, opVars, worker, locked,
                 tries, interrupts, resVars>>

\* wait(): take what is stored, or park.
Wait ==
  /\ owner = "call"
  /\ owner' = IF completion = "none" THEN "parked" ELSE "result"
  /\ UNCHANGED <<chainVars, opVars, worker, locked, tries, interrupts, resVars>>

Wake ==
  /\ owner = "parked" /\ ready
  /\ owner' = "result"
  /\ UNCHANGED <<chainVars, opVars, worker, locked, tries, interrupts, resVars>>

\* An exception ends swait(): under the lock, close the chain unless it has
\* its result.
Interrupted ==
  /\ owner = "parked" /\ interrupts < MaxInterrupts /\ ~locked
  /\ interrupts' = interrupts + 1
  /\ closed' = (closed \/ completion = "none")
  /\ owner' = IF completion = "none" THEN "cancel" ELSE "release"
  /\ UNCHANGED <<completion, ready, tail, handle, opVars, worker, locked,
                 tries, resVars>>

\* _cancel_inflight() of the last leg.
CancelTail ==
  /\ owner = "cancel" /\ ~locked
  /\ owner' = "release"
  /\ cancelled' = cancelled \cup (handle \cap flight \cap {tail})
  /\ handle' = handle \ {tail}
  /\ UNCHANGED <<closed, completion, ready, tail, flight, late, worker, locked,
                 tries, interrupts, resVars>>

\* _release_legs(), and the next attempt of iowait_or_dispose().
Release ==
  /\ owner = "release" /\ ~locked
  /\ tail' = 0 /\ handle' = {}
  /\ owner' = IF tries > 0 THEN "call" ELSE "raised"
  /\ tries' = IF tries > 0 THEN tries - 1 ELSE 0
  /\ UNCHANGED <<closed, completion, ready, opVars, worker, locked, interrupts,
                 resVars>>

\* wait() returns or raises what is stored; after an interrupt the value is
\* disposed of and the interrupt raised.
Result ==
  /\ owner = "result" /\ ~locked
  /\ tail' = 0 /\ handle' = {}
  /\ owner' = IF completion = "ok" /\ interrupts = 0 THEN "returned" ELSE "raised"
  /\ IF completion = "ok" /\ interrupts > 0 THEN Close ELSE UNCHANGED resVars
  /\ UNCHANGED <<closed, completion, ready, opVars, worker, locked, tries,
                 interrupts>>

(***************************************************************************)
(* The completions.                                                        *)
(***************************************************************************)

\* An operation ends; IOWaitLeg.complete().
OpEnds(i, ok) ==
  /\ worker = Idle /\ i \in flight
  /\ flight' = flight \ {i}
  /\ worker' = [at |-> IF ok THEN "advance" ELSE "fail", leg |-> i]
  /\ IF ok /\ resource = "none" THEN resource' = "open" /\ UNCHANGED closes
     ELSE UNCHANGED resVars
  /\ UNCHANGED <<chainVars, cancelled, late, locked, ownerVars>>

\* _fail(): the hook, and then the error is the completion.
Fail ==
  /\ worker.at = "fail"
  /\ worker' = [worker EXCEPT !.at = "error"]
  /\ IF HasCleanup(worker.leg) THEN Close ELSE UNCHANGED resVars
  /\ UNCHANGED <<chainVars, opVars, locked, ownerVars>>

\* A mutant: no hook when the chain refuses the leg.
MutRefused ==
  /\ worker' = [worker EXCEPT !.at = "error"]
  /\ UNCHANGED <<tail, resVars>>

\* new_leg() raised: the hook of the leg that cannot start runs, unless a
\* completion owns the resource, and the chain ends as cancelled.
Refused ==
  /\ worker' = [worker EXCEPT !.at = "error"]
  /\ IF completion = "none" THEN Close ELSE UNCHANGED resVars
  /\ UNCHANGED tail

\* The advance hook of the last leg wraps the resource, which may raise, and
\* calls finish().
Publish ==
  /\ \/ worker' = [worker EXCEPT !.at = "finish"] /\ UNCHANGED resVars
     \/ worker' = [worker EXCEPT !.at = "error"] /\ Close
  /\ UNCHANGED tail

\* follow(): new_leg() under the lock.
NewLeg ==
  /\ worker' = [at |-> "submit", leg |-> worker.leg + 1]
  /\ tail' = worker.leg + 1
  /\ UNCHANGED resVars

Advance ==
  /\ worker.at = "advance"
  /\ IF worker.leg = Legs THEN Publish
     ELSE IF closed \/ completion # "none" THEN Refused ELSE NewLeg
  /\ UNCHANGED <<closed, completion, ready, handle, opVars, locked, ownerVars>>

\* submit() returned an operation in flight: its handle is stored, or it is
\* to be cancelled once the lock is released.
Submitted ==
  /\ flight' = flight \cup {worker.leg}
  /\ IF closed THEN late' = late \cup {worker.leg} /\ UNCHANGED handle
     ELSE handle' = handle \cup {worker.leg} /\ UNCHANGED late
  /\ worker' = Idle /\ locked' = FALSE
  /\ UNCHANGED resVars

\* submit() ran the completion on this stack, with the lock held.
CompletedInside(ok) ==
  /\ worker' = [worker EXCEPT !.at = IF ok THEN "advance" ELSE "fail"]
  /\ locked' = TRUE
  /\ UNCHANGED <<flight, handle, late, resVars>>

\* submit() raised: the hook, and the error is the completion (_succeed).
SubmitRaises ==
  /\ worker' = [worker EXCEPT !.at = "error"]
  /\ Close
  /\ UNCHANGED <<flight, handle, late, locked>>

\* follow(): the submit under the lock.
Submit ==
  /\ worker.at = "submit"
  /\ Submitted \/ SubmitRaises \/ \E ok \in BOOLEAN : CompletedInside(ok)
  /\ UNCHANGED <<closed, completion, ready, tail, cancelled, ownerVars>>

\* follow() cancels what it submitted to a closed chain.
LateCancel(i) ==
  /\ i \in late
  /\ late' = late \ {i}
  /\ cancelled' = cancelled \cup (flight \cap {i})
  /\ UNCHANGED <<chainVars, flight, worker, locked, ownerVars, resVars>>

\* _complete(): the first completion is stored; a finish() that comes later
\* closes its resource.
Complete ==
  /\ worker.at \in {"finish", "error"}
  /\ IF completion = "none"
     THEN /\ completion' = IF worker.at = "finish" THEN "ok" ELSE "error"
          /\ worker' = [worker EXCEPT !.at = "set"]
          /\ UNCHANGED <<resVars, locked>>
     ELSE /\ IF worker.at = "finish" THEN Close ELSE UNCHANGED resVars
          /\ worker' = Idle /\ locked' = FALSE
          /\ UNCHANGED completion
  /\ UNCHANGED <<closed, ready, tail, handle, opVars, ownerVars>>

SetReady ==
  /\ worker.at = "set"
  /\ ready' = TRUE
  /\ worker' = Idle /\ locked' = FALSE
  /\ UNCHANGED <<closed, completion, tail, handle, opVars, ownerVars, resVars>>

OwnerStep ==
  Start \/ StartRaises \/ Bind \/ Wait \/ Wake \/ CancelTail \/ Release \/ Result

WorkerStep ==
  \/ Fail \/ Advance \/ Submit \/ Complete \/ SetReady
  \/ \E i \in 1 .. Legs : LateCancel(i)

Next ==
  \/ OwnerStep \/ Interrupted \/ WorkerStep
  \/ \E i \in 1 .. Legs, ok \in BOOLEAN : OpEnds(i, ok)

Spec == Init /\ [][Next]_vars

(***************************************************************************)
(* Properties.                                                             *)
(***************************************************************************)

TypeOK ==
  /\ closed \in BOOLEAN /\ ready \in BOOLEAN /\ locked \in BOOLEAN
  /\ completion \in {"none", "ok", "error"}
  /\ tail \in 0 .. Legs
  /\ handle \subseteq 1 .. Legs /\ flight \subseteq 1 .. Legs
  /\ cancelled \subseteq 1 .. Legs /\ late \subseteq 1 .. Legs
  /\ worker \in [at : {"idle", "advance", "fail", "error", "submit", "finish",
                       "set"},
                 leg : 0 .. Legs]
  /\ owner \in {"start", "bind", "call", "parked", "cancel", "release",
                "result", "returned", "raised"}
  /\ tries \in 0 .. Attempts /\ interrupts \in 0 .. MaxInterrupts
  /\ resource \in {"none", "open", "closed"} /\ closes \in Nat

Ended == owner \in {"returned", "raised"}
Quiet == flight = {} /\ worker = Idle /\ late = {}

\* The resource is closed at most once, and not while the caller has it: a
\* hook, finish() and dispose_cb do not meet.
ClosedOnce ==
  /\ closes <= 1
  /\ owner = "returned" => resource = "open"

\* Nothing leaks: when the wait and the operations are over the resource is
\* open only if the caller got it, or if the task was interrupted in its last
\* attempt, when the result stays with the waiter.
NothingLeaks ==
  Ended /\ Quiet /\ resource = "open"
    => owner = "returned" \/ interrupts > Attempts

\* An interrupted wait leaves no operation running on: once it has made its
\* cancel, what is in flight was cancelled or follow() is about to do it.
CancelReaches ==
  closed /\ owner # "cancel" => flight \subseteq cancelled \cup late

\* No second completion: each step of the chain ends it or starts the next.
FinishAccepted == worker.at = "finish" => completion = "none"
============================================================================
