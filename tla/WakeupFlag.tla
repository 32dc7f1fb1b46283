----------------------------- MODULE WakeupFlag -----------------------------
(***************************************************************************)
(* What a WakeupManager of tealetio.wakeup promises its consumer: a wakeup *)
(* is latched until a wait() or poll() takes it, wait() sleeps only while  *)
(* none is latched, and a wakeup ends the sleep.                           *)
(***************************************************************************)
VARIABLES
  pending,  \* a wakeup is latched
  asleep    \* the consumer sleeps in wait()

Init == ~pending /\ ~asleep

Signal == pending' = TRUE /\ asleep' = FALSE

Sleep == ~pending /\ ~asleep /\ asleep' = TRUE /\ UNCHANGED pending

GiveUp == asleep /\ asleep' = FALSE /\ UNCHANGED pending

Take == pending /\ ~asleep /\ pending' = FALSE /\ UNCHANGED asleep

Next == Signal \/ Sleep \/ GiveUp \/ Take

Spec == Init /\ [][Next]_<<pending, asleep>>
=============================================================================
