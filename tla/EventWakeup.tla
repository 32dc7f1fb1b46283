----------------------------- MODULE EventWakeup -----------------------------
(***************************************************************************)
(* EventWakeupManager: a threading.Event, and on an asyncio loop an        *)
(* asyncio.Event beside it (proactor.py; wakeup.py has the first half      *)
(* alone).  Threads leave work for the consumer and call wakeup(); the     *)
(* consumer looks for work and calls wait() or wait_async().  No lock      *)
(* covers two accesses, so each one is a step.                             *)
(***************************************************************************)
EXTENDS Naturals

CONSTANTS Signallers, MaxCalls

VARIABLES
  mode,    \* the consumer: "thread", or "unbound" and later "bound" to a loop
  flag,    \* _event
  waiter,  \* _async_waiter is set
  queued,  \* the calls of waiter.set() the loop has not run
  signal,  \* each signaller: "out", "left" (its work), "set" (_event)
  turn,    \* the consumer: "look", "idle", "taken", "unset", "asleep", "awaits"
  unseen,  \* there is work the consumer did not look at
  calls    \* the calls of wakeup() so far

vars == <<mode, flag, waiter, queued, signal, turn, unseen, calls>>

Init ==
  /\ mode \in {"thread", "unbound"}
  /\ flag = FALSE /\ waiter = FALSE /\ queued = 0
  /\ signal = [s \in Signallers |-> "out"]
  /\ turn = "look" /\ unseen = FALSE /\ calls = 0

Leave(s) ==
  /\ signal[s] = "out" /\ calls < MaxCalls
  /\ signal' = [signal EXCEPT ![s] = "left"]
  /\ unseen' = TRUE /\ calls' = calls + 1
  /\ UNCHANGED <<mode, flag, waiter, queued, turn>>

\* wakeup(): the event first, then, with a loop, its callback.
Wakeup(s) ==
  /\ signal[s] = "left"
  /\ flag' = TRUE
  /\ signal' = [signal EXCEPT ![s] = "set"]
  /\ UNCHANGED <<mode, waiter, queued, turn, unseen, calls>>

TellLoop(s) ==
  /\ signal[s] = "set"
  /\ queued' = IF mode = "bound" THEN queued + 1 ELSE queued
  /\ signal' = [signal EXCEPT ![s] = "out"]
  /\ UNCHANGED <<mode, flag, waiter, turn, unseen, calls>>

\* bind_loop(), before the first wait_async().
BindLoop ==
  /\ mode = "unbound" /\ turn = "idle"
  /\ mode' = "bound"
  /\ UNCHANGED <<flag, waiter, queued, signal, turn, unseen, calls>>

\* The driver looks for work before every wait.
Look ==
  /\ turn = "look"
  /\ turn' = "idle" /\ unseen' = FALSE
  /\ UNCHANGED <<mode, flag, waiter, queued, signal, calls>>

\* wait(): from the call, or from its sleep, to the event.
Wait ==
  /\ mode = "thread" /\ turn \in {"idle", "asleep"}
  /\ turn' = IF flag THEN "taken" ELSE "asleep"
  /\ UNCHANGED <<mode, flag, waiter, queued, signal, unseen, calls>>

\* poll(), up to the clear(); wait_async() begins with it.
Poll ==
  /\ mode # "unbound" /\ turn = "idle"
  /\ turn' = IF flag THEN "taken" ELSE IF mode = "bound" THEN "unset" ELSE "look"
  /\ UNCHANGED <<mode, flag, waiter, queued, signal, unseen, calls>>

\* The clear() that follows, in wait() and in poll().
Clear ==
  /\ turn = "taken"
  /\ flag' = FALSE /\ turn' = "look"
  /\ UNCHANGED <<mode, waiter, queued, signal, unseen, calls>>

\* The rest of wait_async(), to its await.
Await ==
  /\ turn = "unset"
  /\ waiter' = FALSE /\ turn' = "awaits"
  /\ UNCHANGED <<mode, flag, queued, signal, unseen, calls>>

\* The loop runs waiter.set() while the consumer is suspended.
RunSet ==
  /\ turn \in {"awaits", "idle"} /\ queued > 0
  /\ waiter' = TRUE /\ queued' = queued - 1
  /\ UNCHANGED <<mode, flag, signal, turn, unseen, calls>>

\* wait_async() goes on, and clears its event.
Resume ==
  /\ turn = "awaits" /\ waiter
  /\ waiter' = FALSE /\ turn' = "look"
  /\ UNCHANGED <<mode, flag, queued, signal, unseen, calls>>

\* The timeout of either, or an exception.
TimesOut ==
  /\ turn \in {"asleep", "awaits"}
  /\ waiter' = FALSE /\ turn' = "look"
  /\ UNCHANGED <<mode, flag, queued, signal, unseen, calls>>

Signals(s) == Wakeup(s) \/ TellLoop(s)

Consumes == BindLoop \/ Look \/ (mode = "thread" /\ Wait) \/ (mode = "bound" /\ Poll)
              \/ Clear \/ Await \/ Resume

Next ==
  \/ \E s \in Signallers : Leave(s) \/ Signals(s)
  \/ BindLoop \/ Look \/ Wait \/ Poll \/ Clear \/ Await \/ RunSet \/ Resume \/ TimesOut

Spec == Init /\ [][Next]_vars

(***************************************************************************)
(* Properties.                                                             *)
(***************************************************************************)

\* The consumer does not sleep over work: the event is set, or the signaller
\* has yet to set it; on a loop waiter.set() has run, is queued or will be.
\* The clear() of wait() and of poll() meets no wakeup() whose work is unseen,
\* and neither clear() of wait_async() one that is not in _event.
NeverSleepsOver ==
  /\ turn = "asleep" /\ unseen => flag \/ \E s \in Signallers : signal[s] = "left"
  /\ turn = "awaits" /\ unseen =>
       waiter \/ queued > 0 \/ \E s \in Signallers : signal[s] # "out"
=============================================================================
