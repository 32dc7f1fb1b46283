----------------------------- MODULE StreamServer -----------------------------
(***************************************************************************)
(* streams/server.py, with accept_sockets() of io_manager.py and           *)
(* run_accept_loop() of socket_helpers.py.                                 *)
(*                                                                         *)
(* A tealet runs the accept loop: it arms a request for connections, parks *)
(* until the request is disarmed, and arms the next.  The thread that      *)
(* delivers a connection opens a stream pair on it and posts the pair to   *)
(* the scheduler, which spawns a handler tealet, or discards the pair when *)
(* the server is closed.  close() marks the server and throws into the     *)
(* loop, at once or, from another thread, by a posted callback;            *)
(* wait_closed() waits for the loop and then for the handlers.             *)
(* What runs on the scheduler runs in turn; the deliveries, and a close()  *)
(* on another thread, interleave with it.                                  *)
(***************************************************************************)
EXTENDS Naturals, Sequences

CONSTANTS Conns,      \* connections
          MaxErrors   \* bound on the errors of the listening socket

VARIABLES server,     \* closed and inner: _closed of StreamServer and of its
                      \* Server; listening; the accept loop and its waiter's result
          arm,        \* the accept request: "none", "armed" or "cancelled"
          conn,       \* conn[c]: where a connection is
          queue,      \* callbacks posted to the scheduler
          waiter,     \* the tealet in wait_closed(): where, for which handlers,
                      \* and whether the server was closed before
          errors      \* errors so far

vars == <<server, arm, conn, queue, waiter, errors>>

\* A server as start_server() leaves it: bound, its accept tealet spawned.
Init ==
  /\ server = [closed |-> FALSE, inner |-> FALSE, listening |-> TRUE,
               loop |-> "new", result |-> "none"]
  /\ arm = "none" /\ conn = [c \in Conns |-> "none"] /\ queue = <<>>
  /\ waiter = [at |-> "none", for |-> {}, after |-> FALSE]
  /\ errors = 0

\* _handler_tasks: the handlers that were spawned and have not ended.
Handlers == {c \in Conns : conn[c] \in {"spawned", "shaking", "served"}}

Over == server.loop \in {"done", "failed"}

\* The scheduler's thread is not between the loop's test and its request.
Idle == server.loop # "arming"

(***************************************************************************)
(* The accept loop.                                                        *)
(***************************************************************************)
\* Server._finish_close(), which the loop runs in its finally clause.
Shut(s) == [s EXCEPT !.inner = TRUE, !.listening = FALSE]

Ended(s, how) == [Shut(s) EXCEPT !.loop = how]

\* while not is_closed(): the test before each accept_once().
Test(s) == IF s.inner THEN Ended(s, "done") ELSE [s EXCEPT !.loop = "arming"]

\* accept_task.cancel(): CancelledError is raised in the tealet, now.  A
\* tealet that never ran runs nothing, its finally clause included.
Cancelled(s) ==
  CASE s.loop = "new" -> [s EXCEPT !.loop = "done"]
    [] s.loop \in {"parked", "paused"} -> Ended(s, "done")
    [] OTHER -> s

\* The exceptional exit of wait() cancels the request.
Disarmed == IF arm = "armed" /\ server.loop = "parked" THEN "cancelled" ELSE arm

StartLoop ==
  /\ server.loop = "new"
  /\ server' = Test(server)
  /\ UNCHANGED <<arm, conn, queue, waiter, errors>>

\* accept_sockets(), and its wait().
ArmAccept ==
  /\ server.loop = "arming"
  /\ server' = [server EXCEPT !.loop = "parked", !.result = "none"]
  /\ arm' = "armed"
  /\ UNCHANGED <<conn, queue, waiter, errors>>

\* wait() ends: go on; skip an aborted client; pause when out of descriptors;
\* end on any other error, or when the server was closed meanwhile.
LoopResumes ==
  /\ server.loop = "parked" /\ server.result # "none"
  /\ server' =
       CASE server.result = "clean" -> Test(server)
         [] server.result # "clean" /\ server.inner -> Ended(server, "done")
         [] server.result = "aborted" /\ ~server.inner -> Test(server)
         [] server.result = "full" /\ ~server.inner -> [server EXCEPT !.loop = "paused"]
         [] server.result = "hard" /\ ~server.inner -> Ended(server, "failed")
  /\ UNCHANGED <<arm, conn, queue, waiter, errors>>

PauseEnds ==
  /\ server.loop = "paused"
  /\ server' = Test(server)
  /\ UNCHANGED <<arm, conn, queue, waiter, errors>>

Loop == StartLoop \/ ArmAccept \/ LoopResumes \/ PauseEnds

(***************************************************************************)
(* The delivery of connections (accept_sockets(): on_worker_delivery()).   *)
(***************************************************************************)
\* The proactor has a connection; a request may end with it, or go on.
Accept(c, more) ==
  /\ arm # "none" /\ conn[c] = "none"
  /\ conn' = [conn EXCEPT ![c] = IF more THEN "accepted" ELSE "last"]
  /\ arm' = IF more THEN arm ELSE "none"
  /\ UNCHANGED <<server, queue, waiter, errors>>

\* The delivery that disarms settles the waiter before it runs the handler.
Settle(c) ==
  /\ conn[c] = "last"
  /\ queue' = Append(queue, [op |-> "settle", as |-> "clean"])
  /\ conn' = [conn EXCEPT ![c] = "accepted"]
  /\ UNCHANGED <<server, arm, waiter, errors>>

\* thread_handler(): open the streams and post the pair, or close the socket.
Open(c) ==
  /\ conn[c] = "accepted"
  /\ \/ /\ conn' = [conn EXCEPT ![c] = "posted"]
        /\ queue' = Append(queue, [op |-> "deliver", as |-> c])
     \/ /\ conn' = [conn EXCEPT ![c] = "gone"]
        /\ UNCHANGED queue
  /\ UNCHANGED <<server, arm, waiter, errors>>

Deliver(c) == Settle(c) \/ Open(c)

\* The request ends with an error of the listening socket, or by its cancel.
AcceptFails(kind) ==
  /\ arm = "armed" /\ errors < MaxErrors
  /\ arm' = "none" /\ errors' = errors + 1
  /\ queue' = Append(queue, [op |-> "settle", as |-> kind])
  /\ UNCHANGED <<server, conn, waiter>>

CancelArrives ==
  /\ arm = "cancelled"
  /\ arm' = "none"
  /\ UNCHANGED <<server, conn, queue, waiter, errors>>

(***************************************************************************)
(* Callbacks and handlers on the scheduler.                                *)
(***************************************************************************)
\* IOWaiter._deliver() of the request the loop waits for.
RunSettle(m) ==
  /\ m.op = "settle"
  /\ server' = [server EXCEPT !.result = IF server.loop = "parked" THEN m.as ELSE @]
  /\ UNCHANGED <<arm, conn>>

RunCancel(m) ==
  /\ m.op = "cancel"
  /\ server' = Cancelled(server) /\ arm' = Disarmed
  /\ UNCHANGED conn

\* Mutant: a pair that comes after close() gets its handler.
MutRunDeliver(m) ==
  /\ m.op = "deliver"
  /\ \E to \in {"spawned", "gone"} : conn' = [conn EXCEPT ![m.as] = to]
  /\ UNCHANGED <<server, arm>>

\* deliver() and _on_accept(): discard the pair, or spawn its handler; a
\* spawn that fails discards it too.
RunDeliver(m) ==
  /\ m.op = "deliver"
  /\ \E to \in IF server.closed THEN {"gone"} ELSE {"spawned", "gone"} :
       conn' = [conn EXCEPT ![m.as] = to]
  /\ UNCHANGED <<server, arm>>

RunCallback ==
  /\ Idle /\ queue # <<>>
  /\ queue' = Tail(queue)
  /\ LET m == Head(queue) IN RunSettle(m) \/ RunCancel(m) \/ RunDeliver(m)
  /\ UNCHANGED <<waiter, errors>>

\* serve(): the handshake, then the client's handler, unless it is closed.
RunHandler(c) ==
  /\ Idle /\ conn[c] \in {"spawned", "shaking"}
  /\ conn' = [conn EXCEPT ![c] = IF server.closed THEN "gone"
                                 ELSE IF @ = "spawned" THEN "shaking" ELSE "served"]
  /\ UNCHANGED <<server, arm, queue, waiter, errors>>

\* The handshake fails, or the handler returns or raises: the writer is shut.
\* The exception is raised in wait_closed(), when it waits for this handler.
EndHandler(c, fails) ==
  /\ Idle /\ conn[c] \in {"shaking", "served"} /\ (conn[c] = "shaking" => fails)
  /\ conn' = [conn EXCEPT ![c] = "gone"]
  /\ \E at \in IF fails /\ waiter.at = "handlers" /\ c \in waiter.for
               THEN {"handlers", "raised"} ELSE {waiter.at} :
       waiter' = [waiter EXCEPT !.at = at]
  /\ UNCHANGED <<server, arm, queue, errors>>

Handle(c) == RunHandler(c) \/ \E fails \in BOOLEAN : EndHandler(c, fails)

(***************************************************************************)
(* close() and wait_closed().                                              *)
(***************************************************************************)
Close(foreign) ==
  /\ ~server.closed /\ (Idle \/ foreign)
  /\ LET marked == [server EXCEPT !.closed = TRUE, !.inner = TRUE]
     IN \/ /\ server.inner
           /\ server' = marked /\ UNCHANGED <<arm, queue>>
        \/ /\ ~server.inner /\ ~foreign
           /\ server' = Cancelled(marked) /\ arm' = Disarmed /\ UNCHANGED queue
        \/ /\ ~server.inner /\ foreign
           /\ server' = marked /\ UNCHANGED arm
           /\ queue' = Append(queue, [op |-> "cancel", as |-> "loop"])
  /\ UNCHANGED <<conn, waiter, errors>>

WaitClosed ==
  /\ Idle /\ waiter.at = "none"
  /\ waiter' = [waiter EXCEPT !.at = IF Over THEN "joined" ELSE "loop",
                              !.after = server.closed]
  /\ UNCHANGED <<server, arm, conn, queue, errors>>

\* accept_task.wait() ends; any error but CancelledError is raised.
LoopJoined ==
  /\ waiter.at = "loop" /\ Over
  /\ waiter' = [waiter EXCEPT !.at = IF server.loop = "failed" THEN "raised" ELSE "joined"]
  /\ UNCHANGED <<server, arm, conn, queue, errors>>

\* _finish_close(), and the look at which handlers there are.
LookHandlers ==
  /\ waiter.at = "joined"
  /\ server' = Shut(server)
  /\ waiter' = [waiter EXCEPT !.at = "handlers", !.for = Handlers]
  /\ UNCHANGED <<arm, conn, queue, errors>>

HandlersJoined ==
  /\ waiter.at = "handlers" /\ waiter.for \cap Handlers = {}
  /\ waiter' = [waiter EXCEPT !.at = "returned"]
  /\ UNCHANGED <<server, arm, conn, queue, errors>>

Waiting == LoopJoined \/ LookHandlers \/ HandlersJoined

Next ==
  \/ Loop \/ CancelArrives \/ RunCallback \/ WaitClosed \/ Waiting
  \/ \E c \in Conns : Deliver(c) \/ Handle(c) \/ \E more \in BOOLEAN : Accept(c, more)
  \/ \E kind \in {"aborted", "full", "hard"} : AcceptFails(kind)
  \/ \E foreign \in BOOLEAN : Close(foreign)

Spec == Init /\ [][Next]_vars

\* What the scheduler runs, the delivery threads deliver, and handlers do.
Progress == Loop \/ RunCallback \/ Waiting \/ \E c \in Conns : Deliver(c) \/ Handle(c)

(***************************************************************************)
(* Properties.                                                             *)
(***************************************************************************)
\* When a wait_closed() that follows close() has returned, the listening
\* socket is shut, the accept loop has exited and no handler runs; and none
\* runs later, however late a connection is delivered.
ServerDrained ==
  waiter.after /\ waiter.at = "returned" => Over /\ ~server.listening /\ Handlers = {}
=============================================================================
