------------------------------ MODULE Channel ------------------------------
(***************************************************************************)
(* Channel of tealetio.scheduler: an unbuffered rendezvous of tasks of one *)
(* scheduler, some of which use async_send() and async_receive().          *)
(*                                                                         *)
(* A packet is the number of the send that offered it.  What became of it  *)
(* is recorded twice: what the sender was told, and how many receives got  *)
(* it, as a result or on the exception that ended them.                    *)
(***************************************************************************)
EXTENDS Integers, SequencesExt

CONSTANTS
  Tasks,
  AsyncTasks,  \* those of them that use the async operations
  Steals,      \* other tasks call Task.run() on a parked one
  MaxSends     \* bound: sends

NoPacket == 0
Packets == 1 .. MaxSends

VARIABLES
  waiters,  \* _waiters
  balance,  \* _balance
  preference, \* _preference: -1 runs the receiver at once, 1 the sender
  tempval,  \* the packet on a waiter
  at,       \* where each task is
  offer,    \* the packet of a task's send
  frame,    \* the packet a receive took before it ran the sender
  sends,    \* sends so far
  told,     \* what the sender of a packet was told
  got       \* how many receives got a packet

vars == <<waiters, balance, preference, tempval, at, offer, frame, sends, told,
          got>>

Init ==
  /\ waiters = <<>>
  /\ balance = 0
  /\ preference = -1
  /\ tempval = [t \in Tasks |-> NoPacket]
  /\ at = [t \in Tasks |-> "out"]
  /\ offer = [t \in Tasks |-> NoPacket]
  /\ frame = [t \in Tasks |-> NoPacket]
  /\ sends = 0
  /\ told = [p \in Packets |-> "nothing"]
  /\ got = [p \in Packets |-> 0]

\* _wake_sync(): a tealet is run at once if the preference says so.
Immediate(t, u, side) == preference = side /\ {t, u} \cap AsyncTasks = {}

\* send() and async_send() that find a receiver.
SendToReceiver(t, p) ==
  LET r == Head(waiters)
      now == Immediate(t, r, -1)
  IN  /\ balance < 0
      /\ waiters' = Tail(waiters)
      /\ balance' = balance + 1
      /\ tempval' = [tempval EXCEPT ![r] = p]
      /\ at' = [at EXCEPT ![r] = "received", ![t] = IF now THEN "handing" ELSE @]
      /\ offer' = IF now THEN [offer EXCEPT ![t] = p] ELSE offer
      /\ told' = IF now THEN told ELSE [told EXCEPT ![p] = "sent"]

\* send() and async_send() that wait: _link_sender().
SendWaits(t, p) ==
  /\ balance >= 0
  /\ waiters' = Append(waiters, t)
  /\ balance' = balance + 1
  /\ tempval' = [tempval EXCEPT ![t] = p]
  /\ at' = [at EXCEPT ![t] = "sending"]
  /\ offer' = [offer EXCEPT ![t] = p]
  /\ UNCHANGED told

Send(t) ==
  /\ at[t] = "out"
  /\ sends < MaxSends
  /\ sends' = sends + 1
  /\ SendToReceiver(t, sends') \/ SendWaits(t, sends')
  /\ UNCHANGED <<preference, frame, got>>

\* receive() and async_receive() that find a sender.
ReceiveFromSender(t) ==
  LET s == Head(waiters)
      p == tempval[s]
      now == Immediate(t, s, 1)
  IN  /\ balance > 0
      /\ waiters' = Tail(waiters)
      /\ balance' = balance - 1
      /\ tempval' = [tempval EXCEPT ![s] = NoPacket]
      /\ at' = [at EXCEPT ![s] = "sent", ![t] = IF now THEN "taking" ELSE @]
      /\ frame' = IF now THEN [frame EXCEPT ![t] = p] ELSE frame
      /\ got' = IF now THEN got ELSE [got EXCEPT ![p] = @ + 1]

\* receive() and async_receive() that wait: _link_receiver().
ReceiveWaits(t) ==
  /\ balance <= 0
  /\ waiters' = Append(waiters, t)
  /\ balance' = balance - 1
  /\ tempval' = [tempval EXCEPT ![t] = NoPacket]
  /\ at' = [at EXCEPT ![t] = "receiving"]
  /\ UNCHANGED <<frame, got>>

Receive(t) ==
  /\ at[t] = "out"
  /\ ReceiveFromSender(t) \/ ReceiveWaits(t)
  /\ UNCHANGED <<preference, offer, sends, told>>

\* The end of a call: the task is out, its packet is accounted for.
Leaves(t, tell, gets) ==
  /\ at' = [at EXCEPT ![t] = "out"]
  /\ offer' = [offer EXCEPT ![t] = NoPacket]
  /\ frame' = [frame EXCEPT ![t] = NoPacket]
  /\ told' = IF offer[t] = NoPacket THEN told ELSE [told EXCEPT ![offer[t]] = tell]
  /\ got' = IF gets = NoPacket THEN got ELSE [got EXCEPT ![gets] = @ + 1]
  /\ UNCHANGED <<preference, sends>>

\* The return of a call whose rendezvous took place; _pop_tempval().
Resume(t) ==
  /\ at[t] \in {"sent", "handing", "received", "taking"}
  /\ tempval' = [tempval EXCEPT ![t] = IF at[t] = "received" THEN NoPacket ELSE @]
  /\ Leaves(t, "sent", IF at[t] = "received" THEN tempval[t] ELSE frame[t])
  /\ UNCHANGED <<waiters, balance>>

\* _unlink_waiter()
Unlink(t) ==
  /\ waiters' = RemoveFirst(waiters, t)
  /\ balance' = IF ~Contains(waiters, t) THEN balance
                ELSE IF balance > 0 THEN balance - 1
                ELSE IF balance < 0 THEN balance + 1 ELSE balance

\* A mutant: the packet of an interrupted receiver is dropped.
MutAbortWait(t) ==
  /\ at[t] \in {"sending", "sent", "receiving", "received"}
  /\ Unlink(t)
  /\ tempval' = [tempval EXCEPT ![t] = NoPacket]
  /\ Leaves(t, IF tempval[t] = NoPacket THEN "moved" ELSE "kept", NoPacket)

\* An exception out of the wait: _abort_wait().
AbortWait(t) ==
  /\ at[t] \in {"sending", "sent", "receiving", "received"}
  /\ Unlink(t)
  /\ tempval' = [tempval EXCEPT ![t] = NoPacket]
  /\ Leaves(t, IF tempval[t] = NoPacket THEN "moved" ELSE "kept",
            IF at[t] = "received" THEN tempval[t] ELSE NoPacket)

\* An exception out of the run() of the peer.
AbortHandOff(t) ==
  /\ at[t] \in {"handing", "taking"}
  /\ Leaves(t, "moved", frame[t])
  /\ UNCHANGED <<waiters, balance, tempval>>

\* Task.run() of a parked task, which documents that the wait is not
\* completed: a send returns, a receive raises the AssertionError.
Steal(t) ==
  /\ Steals
  /\ at[t] \in {"sending", "receiving"} /\ t \notin AsyncTasks
  /\ Unlink(t)
  /\ Leaves(t, "stolen", NoPacket)
  /\ UNCHANGED tempval

\* The setter of preference.
SetPreference(p) ==
  /\ preference' = p
  /\ UNCHANGED <<waiters, balance, tempval, at, offer, frame, sends, told, got>>

Next ==
  \/ \E p \in -1 .. 1 : SetPreference(p)
  \/ \E t \in Tasks :
       \/ Send(t) \/ Receive(t) \/ Resume(t)
       \/ AbortWait(t) \/ AbortHandOff(t) \/ Steal(t)

Spec == Init /\ [][Next]_vars

(***************************************************************************)
(* Properties.                                                             *)
(***************************************************************************)

TypeOK ==
  /\ waiters \in Seq(Tasks) /\ IsInjective(waiters)
  /\ balance \in Int /\ preference \in -1 .. 1
  /\ tempval \in [Tasks -> Packets \cup {NoPacket}]
  /\ at \in [Tasks -> {"out", "sending", "sent", "handing",
                       "receiving", "received", "taking"}]
  /\ offer \in [Tasks -> Packets \cup {NoPacket}]
  /\ frame \in [Tasks -> Packets \cup {NoPacket}]
  /\ told \in [Packets -> {"nothing", "sent", "moved", "kept", "stolen"}]

\* The sign of the balance tells who waits, its size how many: senders and
\* receivers never wait side by side, and the list holds the parked tasks.
BalanceAgrees ==
  /\ Len(waiters) = IF balance < 0 THEN -balance ELSE balance
  /\ Range(waiters) = {t \in Tasks : at[t] \in {"sending", "receiving"}}
  /\ \A t \in Range(waiters) :
       at[t] = IF balance > 0 THEN "sending" ELSE "receiving"

\* The receive calls that hold packet p and have not returned.
Holders(p) ==
  {t \in Tasks : \/ at[t] = "received" /\ tempval[t] = p
                 \/ at[t] = "taking" /\ frame[t] = p}

\* No packet is received twice, by a result or on an exception.
AtMostOnce == \A p \in Packets : got[p] + Cardinality(Holders(p)) <= 1

\* What the sender is told is true: a send that returned, or whose exception
\* says success, handed its packet to a receive; one whose exception says
\* otherwise did not, so that it may send it again.
SenderKnows ==
  \A p \in Packets :
    /\ told[p] \in {"sent", "moved"} => got[p] + Cardinality(Holders(p)) = 1
    /\ told[p] \in {"kept", "stolen"} => got[p] + Cardinality(Holders(p)) = 0
=============================================================================
