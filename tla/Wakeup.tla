------------------------------- MODULE Wakeup -------------------------------
(***************************************************************************)
(* TokenHandoffWakeupManager of tealetio.wakeup: threads that signal, and  *)
(* one consumer that waits or polls.  Each step is what a thread does      *)
(* between taking and giving up the lock of the threading.Condition; a     *)
(* thread asleep on the condition runs again when it is notified, and looks *)
(* at its predicate.                                                       *)
(***************************************************************************)
EXTENDS Naturals, FiniteSets

CONSTANTS
  Signallers,  \* the threads that call wakeup()
  MaxToken     \* bound: tokens issued

VARIABLES
  waiting,   \* _waiting
  issued,    \* _issued_token
  received,  \* _received_token
  consumer,  \* the consumer: out, asleep in wait(), or notified
  signaller, \* each signaller: out, asleep in wakeup(), or notified
  token,     \* the token a signaller waits to see claimed
  interrupted  \* history: an exception ended a wait()

vars == <<waiting, issued, received, consumer, signaller, token, interrupted>>

Init ==
  /\ waiting = FALSE
  /\ issued = 0
  /\ received = 0
  /\ consumer = "out"
  /\ signaller = [s \in Signallers |-> "out"]
  /\ token = [s \in Signallers |-> 0]
  /\ interrupted = FALSE

\* notify_all()
Roused == [s \in Signallers |->
             IF signaller[s] = "asleep" THEN "notified" ELSE signaller[s]]

\* A mutant: the token is issued without a notify.
MutWakeupSilent(s) ==
  /\ signaller[s] = "out"
  /\ issued < MaxToken
  /\ issued' = IF issued = received THEN issued + 1 ELSE issued
  /\ token' = IF waiting THEN [token EXCEPT ![s] = issued'] ELSE token
  /\ signaller' = IF waiting THEN [signaller EXCEPT ![s] = "asleep"] ELSE signaller
  /\ UNCHANGED <<waiting, received, consumer, interrupted>>

\* wakeup(): issue a token unless one is out, and join the hand-off if the
\* consumer is in wait().
Wakeup(s) ==
  /\ signaller[s] = "out"
  /\ issued < MaxToken
  /\ issued' = IF issued = received THEN issued + 1 ELSE issued
  /\ consumer' = IF issued = received /\ waiting /\ consumer = "asleep"
                 THEN "notified" ELSE consumer
  /\ token' = IF waiting THEN [token EXCEPT ![s] = issued'] ELSE token
  /\ signaller' =
       LET woken == IF issued = received /\ waiting THEN Roused ELSE signaller
       IN  IF waiting THEN [woken EXCEPT ![s] = "asleep"] ELSE woken
  /\ UNCHANGED <<waiting, received, interrupted>>

\* A notified signaller looks whether its token was claimed.
WakeupReturns(s) ==
  /\ signaller[s] = "notified"
  /\ signaller' = [signaller EXCEPT ![s] = IF received >= token[s] THEN "out"
                                           ELSE "asleep"]
  /\ UNCHANGED <<waiting, issued, received, consumer, token, interrupted>>

\* wait() that finds a token: it claims it and lets the signallers go.
Claim ==
  /\ received' = issued
  /\ consumer' = "out"
  /\ waiting' = FALSE
  /\ signaller' = Roused
  /\ UNCHANGED <<issued, token, interrupted>>

\* wait(): from the call, or from a notify, to the claim or the sleep.
Wait ==
  /\ consumer \in {"out", "notified"}
  /\ IF issued > received THEN Claim
     ELSE /\ waiting' = TRUE
          /\ consumer' = "asleep"
          /\ UNCHANGED <<issued, received, signaller, token, interrupted>>

\* The timeout of wait(): wait_for() looks once more.
WaitTimesOut ==
  /\ consumer = "asleep"
  /\ IF issued > received THEN Claim
     ELSE /\ waiting' = FALSE
          /\ consumer' = "out"
          /\ UNCHANGED <<issued, received, signaller, token, interrupted>>

\* An exception ends wait(), before or after a token was issued.
WaitInterrupted ==
  /\ consumer \in {"asleep", "notified"}
  /\ waiting' = FALSE
  /\ consumer' = "out"
  /\ interrupted' = TRUE
  /\ UNCHANGED <<issued, received, signaller, token>>

\* poll()
Poll ==
  /\ consumer = "out"
  /\ received' = issued
  /\ UNCHANGED <<waiting, issued, consumer, signaller, token, interrupted>>

Next ==
  \/ \E s \in Signallers : Wakeup(s) \/ WakeupReturns(s)
  \/ Wait \/ WaitTimesOut \/ WaitInterrupted \/ Poll

Spec == Init /\ [][Next]_vars

(***************************************************************************)
(* Properties.                                                             *)
(***************************************************************************)

\* At most one token is out, and a signaller waits for one that was issued.
TypeOK ==
  /\ waiting \in BOOLEAN
  /\ received \in Nat /\ issued \in received .. received + 1
  /\ consumer \in {"out", "asleep", "notified"}
  /\ signaller \in [Signallers -> {"out", "asleep", "notified"}]
  /\ token \in [Signallers -> 0 .. issued] /\ interrupted \in BOOLEAN

\* A signaller sleeps only while its token is unclaimed: whoever claims the
\* token lets it go, unless wait() was left by an exception, when poll() may
\* claim it and notifies nobody.
SignallerReleased ==
  interrupted \/ \A s \in Signallers : signaller[s] = "asleep" => received < token[s]

\* The hand-off implements the latched flag: the consumer never sleeps over a
\* wakeup, and no wakeup is lost or taken twice.
Flag == INSTANCE WakeupFlag
          WITH pending <- issued > received, asleep <- consumer = "asleep"
Latched == Flag!Spec
=============================================================================
