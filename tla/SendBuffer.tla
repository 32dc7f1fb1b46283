----------------------------- MODULE SendBuffer -----------------------------
(***************************************************************************)
(* SendBuffer of tealetio.io_buffers and the WriterCore of streams on top: *)
(* tealets write bytes, which leave in legs, one at a time; drain() and    *)
(* flush() wait; write_eof() and wait_closed() end the stream.             *)
(*                                                                         *)
(* All of it runs on the scheduler, except the error of a send without a   *)
(* completion, which its worker thread reports.  A leg is reserved under   *)
(* the lock and submitted after it: hand is the call that is in between.   *)
(* A byte here stands for the bytes of one write(); wire is the order of   *)
(* the submits, which the proactor keeps for one socket.                   *)
(***************************************************************************)
EXTENDS Integers, Sequences

CONSTANTS
  Tealets,    \* the tealets that use the stream
  MinWrite,   \* _min_write
  Limits,     \* the pairs <<_low_water, _high_water>> in use
  MaxWrites,  \* bound: writes
  Nobody      \* no tealet

VARIABLES
  pending,        \* _pending
  inFlight,       \* _in_flight_bytes
  active,         \* _active
  sendError,      \* _send_error: "none", or where it came from
  closed,         \* _closed
  eofPending,     \* _eof_pending
  eofDone,        \* _write_eof_done
  closeWhenIdle,  \* _close_when_idle
  limits,         \* <<_low_water, _high_water>>
  closing,        \* WriterCore._closing
  teardown,       \* wait_closed(): "no", "done" (WriterCore._closed), "raised"
  hand,           \* the call in progress: [at, chunk, wait, then, who]
  leg,            \* a sock_sendall_cb leg is with the proactor
  nowaits,        \* sends without a completion that are with the proactor
  closer,         \* the error callback of one is about to close the socket
  doing,          \* per tealet: "run", or parked in "drain" or "flush"
  woken,          \* the parked tealets that were notified
  stranded,       \* history: bytes were held back while a tealet waits
  written,        \* the writes accepted
  wire,           \* the bytes submitted
  shutAt,         \* the length of wire when SHUT_WR was submitted, or -1
  closeAt         \* the same for the close of the socket

queueVars == <<pending, inFlight, active>>
eofVars == <<eofPending, eofDone>>
ioVars == <<leg, nowaits, closer>>
wireVars == <<wire, shutAt, closeAt>>
taskVars == <<doing, woken>>
writerVars == <<closing, teardown>>
vars == <<queueVars, sendError, closed, eofVars, closeWhenIdle, limits,
          writerVars, hand, ioVars, taskVars, stranded, written, wireVars>>

Call(at, chunk, wait, then, t) ==
  [at |-> at, chunk |-> chunk, wait |-> wait, then |-> then, who |-> t]
Idle == Call("idle", << >>, FALSE, "return", Nobody)

Init ==
  /\ pending = << >> /\ inFlight = 0 /\ active = FALSE
  /\ sendError = "none" /\ closed = FALSE
  /\ eofPending = FALSE /\ eofDone = FALSE /\ closeWhenIdle = FALSE
  /\ limits \in Limits
  /\ closing = FALSE /\ teardown = "no"
  /\ hand = Idle /\ leg = FALSE /\ nowaits = 0 /\ closer = FALSE
  /\ doing = [t \in Tealets |-> "run"] /\ woken = {}
  /\ stranded = FALSE /\ written = 0
  /\ wire = << >> /\ shutAt = -1 /\ closeAt = -1

\* The tealet has the scheduler and no call is in progress.
Runs(t) == doing[t] = "run" /\ hand = Idle

\* The tealet is parked in drain() or flush().
Waits(t) == doing[t] # "run"

SocketOpen == closeAt = -1
PendingBytes == Len(pending) + inFlight

NotifyAll == woken' = {t \in Tealets : Waits(t)}

\* sock_close() of a socket that is still there.
SockClose == closeAt' = IF SocketOpen THEN Len(wire) ELSE closeAt

(***************************************************************************)
(* The parts the operations share.                                         *)
(***************************************************************************)

\* _reserve_leg of the backlog p: whether a leg starts.
Reserves(p, force) ==
  ~active /\ sendError = "none" /\ p # << >> /\ (force \/ Len(p) >= MinWrite)

\* _take_pending, and the call that goes on to _submit_leg.
TakeInHand(p, wait, then, t) ==
  /\ active' = TRUE /\ pending' = << >> /\ inFlight' = Len(p)
  /\ hand' = Call("submit", p, wait, then, t)

\* The tail of an operation after its leg, if it has one.
GoesOn(then, t) ==
  hand' = IF then = "return" THEN Idle ELSE Call("wait", << >>, FALSE, then, t)

\* _maybe_shutdown with the queue idle, EOF pending as given and the lock
\* held.  sock_shutdown_nowait() may raise.
MaybeShutdown(eof, fails) ==
  LET now == eof /\ ~eofDone
  IN /\ fails => now
     /\ eofDone' = (eofDone \/ now)
     /\ shutAt' = IF now /\ ~fails /\ SocketOpen THEN Len(wire) ELSE shutAt

\* A mutant: the close that was asked for is left out.
MutLegsDone(fails) ==
  /\ active' = FALSE /\ inFlight' = 0 /\ UNCHANGED pending
  /\ IF pending = << >> THEN MaybeShutdown(eofPending, fails)
     ELSE ~fails /\ UNCHANGED <<eofDone, shutAt>>
  /\ UNCHANGED <<closeWhenIdle, closeAt>>

\* The queue is idle after a leg: shut down, then close if that was asked
\* for.  An exception of the first leaves the second out.
LegsDone(fails) ==
  /\ active' = FALSE /\ inFlight' = 0 /\ UNCHANGED pending
  /\ IF pending = << >> THEN MaybeShutdown(eofPending, fails)
     ELSE ~fails /\ UNCHANGED <<eofDone, shutAt>>
  /\ closeWhenIdle' = (closeWhenIdle /\ fails)
  /\ IF closeWhenIdle /\ ~fails THEN SockClose ELSE UNCHANGED closeAt

(***************************************************************************)
(* The operations of the tealets.                                          *)
(***************************************************************************)

Write(t) ==
  /\ Runs(t) /\ written < MaxWrites
  /\ ~closing /\ sendError = "none" /\ ~closed /\ ~eofPending
  /\ written' = written + 1
  /\ LET p == Append(pending, written')
     IN IF Reserves(p, FALSE)
        THEN TakeInHand(p, TRUE, "return", t) /\ UNCHANGED stranded
        ELSE /\ pending' = p
             /\ stranded' = (\/ stranded
                             \/ ~active /\ \E u \in Tealets : Waits(u))
             /\ UNCHANGED <<inFlight, active, hand>>
  /\ UNCHANGED <<sendError, closed, eofVars, closeWhenIdle, limits,
                 writerVars, ioVars, taskVars, wireVars>>

\* drain() and flush(): force the leg, then wait; drain() only above the high
\* water mark.
Force(t, then) ==
  /\ Runs(t) /\ sendError = "none"
  /\ IF Reserves(pending, TRUE) THEN TakeInHand(pending, FALSE, then, t)
     ELSE GoesOn(then, t) /\ UNCHANGED queueVars
  /\ UNCHANGED <<sendError, closed, eofVars, closeWhenIdle, limits,
                 writerVars, ioVars, taskVars, stranded, written, wireVars>>

Drain(t) == Force(t, IF PendingBytes > limits[2] THEN "drain" ELSE "return")
Flush(t) == Force(t, "flush")

WriteEof(t) ==
  /\ Runs(t) /\ ~closing /\ SocketOpen
  /\ ~closed /\ sendError = "none" /\ ~eofPending
  /\ eofPending' = TRUE
  /\ NotifyAll
  /\ IF Reserves(pending, TRUE)
     THEN /\ TakeInHand(pending, FALSE, "return", t)
          /\ UNCHANGED <<eofDone, shutAt, sendError>>
     ELSE /\ UNCHANGED <<queueVars, hand>>
          /\ IF ~active /\ pending = << >> /\ inFlight = 0
             THEN \E fails \in BOOLEAN :
                    /\ MaybeShutdown(TRUE, fails)
                    /\ sendError' = IF fails THEN "shutdown" ELSE "none"
             ELSE UNCHANGED <<eofDone, shutAt, sendError>>
  /\ UNCHANGED <<closed, closeWhenIdle, limits, writerVars, ioVars, doing,
                 stranded, written, wire, closeAt>>

\* WriterCore.close().
CloseWriter(t) ==
  /\ Runs(t) /\ ~closing
  /\ closing' = TRUE /\ closed' = TRUE
  /\ IF closed THEN UNCHANGED woken ELSE NotifyAll
  /\ UNCHANGED <<queueVars, sendError, eofVars, closeWhenIdle, limits,
                 teardown, hand, ioVars, doing, stranded, written, wireVars>>

\* WriterCore.wait_closed(): close(), steal_pending(), sock_send_close() or
\* arm_close_when_idle().  It ends with a send error that was recorded.
WaitClosed(t) ==
  /\ Runs(t) /\ teardown # "done"
  /\ closing' = TRUE /\ closed' = TRUE
  /\ IF closed THEN UNCHANGED woken ELSE NotifyAll
  /\ IF sendError # "none"
     THEN /\ teardown' = "raised"
          /\ UNCHANGED <<pending, closeWhenIdle, wire, closeAt>>
     ELSE /\ teardown' = "done"
          /\ IF active
             THEN closeWhenIdle' = TRUE /\ UNCHANGED <<pending, wire, closeAt>>
             ELSE /\ pending' = << >>
                  /\ wire' = IF SocketOpen THEN wire \o pending ELSE wire
                  /\ closeAt' = IF SocketOpen THEN Len(wire') ELSE closeAt
                  /\ UNCHANGED closeWhenIdle
  /\ UNCHANGED <<inFlight, active, sendError, eofVars, limits, hand, ioVars,
                 doing, stranded, written, shutAt>>

SetLimits(t, l) ==
  /\ Runs(t) /\ l # limits
  /\ limits' = l
  /\ NotifyAll
  /\ UNCHANGED <<queueVars, sendError, closed, eofVars, closeWhenIdle,
                 writerVars, hand, ioVars, doing, stranded, written,
                 wireVars>>

(***************************************************************************)
(* _submit_leg.                                                            *)
(***************************************************************************)

\* The submit raises: the bytes go back, ahead of what was queued meanwhile.
SubmitRaises ==
  /\ hand.at = "submit"
  /\ pending' = hand.chunk \o pending
  /\ active' = FALSE /\ inFlight' = 0 /\ sendError' = "submit"
  /\ NotifyAll
  /\ hand' = Idle
  /\ UNCHANGED <<closed, eofVars, closeWhenIdle, limits, writerVars, ioVars,
                 doing, stranded, written, wireVars>>

\* sock_sendall_cb, or sock_send_nowait, of an open socket.
Submit ==
  /\ hand.at = "submit" /\ SocketOpen
  /\ wire' = wire \o hand.chunk
  /\ IF hand.wait
     THEN leg' = TRUE /\ hand' = Idle /\ UNCHANGED nowaits
     ELSE /\ nowaits' = nowaits + 1 /\ hand' = [hand EXCEPT !.at = "settle"]
          /\ UNCHANGED leg
  /\ UNCHANGED <<queueVars, sendError, closed, eofVars, closeWhenIdle,
                 limits, writerVars, closer, taskVars, stranded, written,
                 shutAt, closeAt>>

\* A send without a completion is over when it is submitted.
Settle ==
  /\ hand.at = "settle"
  /\ NotifyAll
  /\ \/ /\ sendError # "none"
        /\ active' = FALSE /\ inFlight' = 0
        /\ GoesOn(hand.then, hand.who)
        /\ UNCHANGED <<pending, sendError, eofDone, closeWhenIdle, shutAt,
                       closeAt>>
     \/ /\ sendError = "none"
        /\ \E fails \in BOOLEAN :
             /\ LegsDone(fails)
             /\ sendError' = IF fails THEN "shutdown" ELSE "none"
             /\ IF fails THEN hand' = Idle ELSE GoesOn(hand.then, hand.who)
  /\ UNCHANGED <<closed, eofPending, limits, writerVars, ioVars, doing,
                 stranded, written, wire>>

\* _drain_ready and _flush_ready.
Ready(kind) ==
  IF kind = "drain" THEN PendingBytes <= limits[1]
  ELSE ~active /\ PendingBytes = 0

\* The wait of drain() and flush(): an error is raised, or the tealet parks.
EnterWait ==
  /\ hand.at = "wait"
  /\ hand' = Idle
  /\ doing' = [doing EXCEPT ![hand.who] =
                 IF sendError # "none" \/ Ready(hand.then) THEN "run"
                 ELSE hand.then]
  /\ UNCHANGED <<queueVars, sendError, closed, eofVars, closeWhenIdle,
                 limits, writerVars, ioVars, woken, stranded, written,
                 wireVars>>

\* swait_for() of a notified tealet looks again.
Recheck(t) ==
  /\ hand = Idle /\ t \in woken
  /\ woken' = woken \ {t}
  /\ doing' = IF sendError # "none" \/ Ready(doing[t])
              THEN [doing EXCEPT ![t] = "run"] ELSE doing
  /\ UNCHANGED <<queueVars, sendError, closed, eofVars, closeWhenIdle,
                 limits, writerVars, hand, ioVars, stranded, written,
                 wireVars>>

(***************************************************************************)
(* Completions.                                                            *)
(***************************************************************************)

\* _on_leg_complete, on the scheduler: the next leg, or idle.
OnLegComplete(ok) ==
  /\ hand = Idle /\ leg
  /\ leg' = FALSE
  /\ LET error == IF ok THEN sendError ELSE "send"
     IN IF error = "none" /\ pending # << >>
        THEN /\ TakeInHand(pending, TRUE, "return", Nobody)
             /\ UNCHANGED <<sendError, eofDone, closeWhenIdle, shutAt,
                            closeAt>>
        ELSE \E fails \in BOOLEAN :
               /\ LegsDone(fails)
               /\ sendError' = IF fails THEN "shutdown" ELSE error
               /\ UNCHANGED hand
  /\ NotifyAll
  /\ UNCHANGED <<closed, eofPending, limits, writerVars, nowaits, closer,
                 doing, stranded, written, wire>>

NowaitSent ==
  /\ nowaits > 0
  /\ nowaits' = nowaits - 1
  /\ UNCHANGED <<queueVars, sendError, closed, eofVars, closeWhenIdle,
                 limits, writerVars, hand, leg, closer, taskVars, stranded,
                 written, wireVars>>

\* _on_fire_forget_error, in a worker thread, under the lock.
OnFireForgetError ==
  /\ nowaits > 0 /\ ~closer
  /\ nowaits' = nowaits - 1
  /\ sendError' = IF sendError = "none" THEN "nowait" ELSE sendError
  /\ closed' = TRUE /\ active' = FALSE /\ inFlight' = 0
  /\ NotifyAll
  /\ closer' = TRUE
  /\ UNCHANGED <<pending, eofVars, closeWhenIdle, limits, writerVars, hand,
                 leg, doing, stranded, written, wireVars>>

\* The close of the socket after it.
FireForgetCloses ==
  /\ closer
  /\ closer' = FALSE
  /\ SockClose
  /\ UNCHANGED <<queueVars, sendError, closed, eofVars, closeWhenIdle,
                 limits, writerVars, hand, leg, nowaits, taskVars, stranded,
                 written, wire, shutAt>>

Operation(t) ==
  \/ Write(t) \/ Drain(t) \/ Flush(t) \/ WriteEof(t) \/ CloseWriter(t)
  \/ WaitClosed(t)
  \/ \E l \in Limits : SetLimits(t, l)

CallStep == SubmitRaises \/ Submit \/ Settle \/ EnterWait
CompletionStep == \E ok \in BOOLEAN : OnLegComplete(ok)
WorkerStep == NowaitSent \/ OnFireForgetError \/ FireForgetCloses

Next ==
  \/ \E t \in Tealets : Operation(t) \/ Recheck(t)
  \/ CallStep
  \/ CompletionStep
  \/ WorkerStep

(***************************************************************************)
(* Properties.                                                             *)
(***************************************************************************)

TypeOK ==
  /\ inFlight \in Nat /\ limits \in Limits /\ written \in 0 .. MaxWrites
  /\ sendError \in {"none", "send", "submit", "nowait", "shutdown"}
  /\ {active, closed, eofPending, eofDone, closeWhenIdle, closing, leg, closer,
      stranded} \subseteq BOOLEAN
  /\ teardown \in {"no", "done", "raised"}
  /\ hand.at \in {"idle", "submit", "settle", "wait"}
  /\ doing \in [Tealets -> {"run", "drain", "flush"}]
  /\ woken \subseteq Tealets
  /\ nowaits \in Nat /\ {shutAt, closeAt} \subseteq -1 .. MaxWrites

InHand == IF hand.at = "submit" THEN hand.chunk ELSE << >>

\* What was written is submitted once and in order, and the rest is in the
\* backlog or in the hands of the one call that submits it, also after a
\* submit that raised.
BytesInOrder == wire \o InHand \o pending = [i \in 1 .. written |-> i]

\* SHUT_WR is submitted behind everything that was written.  So is the close
\* of the socket, unless an error ended the stream; nothing follows it.
EndsComeLast ==
  /\ shutAt # -1 => shutAt = written /\ Len(wire) = written
  /\ closeAt # -1 => /\ closeAt = Len(wire)
                      /\ sendError = "none" => closeAt = written
=============================================================================
