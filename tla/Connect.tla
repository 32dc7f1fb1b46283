-------------------------------- MODULE Connect --------------------------------
(***************************************************************************)
(* connect_tcp() (happy_eyeballs.py) and open_connection() (streams/       *)
(* connect.py) over sock_create() and sock_fastopen() (io_manager.py).     *)
(*                                                                         *)
(* The addresses of a host are tried one at a time, or raced: an attempt   *)
(* is a child tealet of a TaskGroup, the next one starts when the last has *)
(* failed or a delay is over, and the first to connect cancels the others. *)
(* The winner writes the initial bytes and opens a stream.  An attempt     *)
(* waits for a chain of operations that another thread completes, and may  *)
(* be cancelled before, between and after them.  throw() runs its target   *)
(* at once, so that a cancel() is one step.                                *)
(***************************************************************************)
EXTENDS Integers, Sequences, SequencesExt, FiniteSets, FiniteSetsExt

CONSTANTS Hosts       \* what resolution may give: sequences of families

VARIABLES call,       \* the caller, and the options of the call
          task,       \* task[i]: the attempt at address i
          sock,       \* sock[i]: its socket
          group       \* the TaskGroup: aborting, an attempt's error, and the
                      \* abort it posted

vars == <<call, task, sock, group>>

Addrs == DOMAIN task

(***************************************************************************)
(* _interleave_addrinfos(): addresses by family, round-robin.              *)
(***************************************************************************)
\* The position of address n among those of its family, and the family's place.
Nth(infos, n) == Cardinality({m \in 1..n : infos[m] = infos[n]})

Place(infos, n) == CHOOSE m \in 1..n : infos[m] = infos[n] /\ Nth(infos, m) = 1

\* The round in which zip_longest() takes address n; round 0 is the start that
\* the first family has when the count is above 1.
Round(infos, count, n) ==
  IF infos[n] = infos[1] THEN Max({0, Nth(infos, n) - (count - 1)}) ELSE Nth(infos, n)

Before(infos, count, j, k) ==
  \/ Round(infos, count, j) < Round(infos, count, k)
  \/ /\ Round(infos, count, j) = Round(infos, count, k)
     /\ \/ Place(infos, j) < Place(infos, k)
        \/ Place(infos, j) = Place(infos, k) /\ j < k

InterleaveAddrinfos(infos, count) ==
  IF count = 0 THEN [k \in DOMAIN infos |-> k]
  ELSE SetToSortSeq(DOMAIN infos, LAMBDA j, k : Before(infos, count, j, k))

(***************************************************************************)
(* The call.                                                               *)
(***************************************************************************)
Init ==
  /\ \E infos \in Hosts, count \in 0..2, race \in BOOLEAN, initial \in BOOLEAN, fastopen \in BOOLEAN :
       call = [at |-> "start", i |-> 0, winner |-> 0, why |-> "none", infos |-> infos,
               count |-> count,
               order |-> InterleaveAddrinfos(infos, count), race |-> race /\ Len(infos) > 1,
               initial |-> initial, fastopen |-> initial /\ fastopen]
  /\ task = [i \in DOMAIN call.infos |-> "none"]
  /\ sock = [i \in DOMAIN call.infos |-> "none"]
  /\ group = [aborting |-> FALSE, error |-> FALSE, posted |-> FALSE]

Live(i) == task[i] \in {"new", "wait", "ready"}

\* The waits of S end with an exception: a socket that its chain has stored is
\* dropped, and a chain that has nothing yet refuses another leg.
Interrupt(S, t) == [i \in Addrs |-> IF i \in S /\ Live(i) THEN "done" ELSE t[i]]

DropStored(S, s) == [i \in Addrs |-> IF i \in S /\ s[i] = "stored" THEN "dropped" ELSE s[i]]

\* _abort_children(), but for the child that calls it.
Abort(self) == Addrs \ {self}


\* Everything raised in connect_tcp() closes the winner on its way.
CloseWinner(s) == [i \in Addrs |-> IF i = call.winner THEN "closed" ELSE s[i]]

Raise(why) ==
  /\ call' = [call EXCEPT !.at = "raised", !.why = why]
  /\ sock' = CloseWinner(sock)
  /\ UNCHANGED <<task, group>>

(***************************************************************************)
(* An attempt: _connect_tcp_attempt(), its chain, and what it does then.   *)
(***************************************************************************)
\* No local address of the family, no socket, no bind: an error at once.
\* Otherwise the connect is submitted.
StartAttempt(i) ==
  /\ task[i] = "new"
  /\ \/ /\ task' = [task EXCEPT ![i] = "ready"] /\ UNCHANGED sock
     \/ /\ task' = [task EXCEPT ![i] = "wait"] /\ sock' = [sock EXCEPT ![i] = "connecting"]
  /\ UNCHANGED <<call, group>>

\* The chain stores its result, socket or error, for the wait or for nobody.
Stored(i) == IF Live(i) THEN "stored" ELSE "dropped"

Ready(i) == task' = [task EXCEPT ![i] = IF Live(i) THEN "ready" ELSE @]

\* finish_connected() and advance_connected(): store the socket, or follow with
\* the send, which a chain that was closed refuses.
Connected(i) ==
  /\ sock[i] = "connecting"
  /\ IF call.fastopen
     THEN sock' = [sock EXCEPT ![i] = IF Live(i) THEN "sending" ELSE "closed"] /\ UNCHANGED task
     ELSE sock' = [sock EXCEPT ![i] = Stored(i)] /\ Ready(i)
  /\ UNCHANGED <<call, group>>

Sent(i) ==
  /\ sock[i] = "sending"
  /\ sock' = [sock EXCEPT ![i] = Stored(i)] /\ Ready(i)
  /\ UNCHANGED <<call, group>>

\* A leg fails, or is cancelled: close_on_fail().
LegFails(i) ==
  /\ sock[i] \in {"connecting", "sending"}
  /\ sock' = [sock EXCEPT ![i] = "closed"] /\ Ready(i)
  /\ UNCHANGED <<call, group>>

Complete(i) == Connected(i) \/ Sent(i) \/ LegFails(i)

\* The attempt of a race resumes: the first wins and cancels the others; a
\* later one closes its socket; a failed one is over.
Resume(i) ==
  /\ call.race /\ task[i] = "ready"
  /\ \/ /\ sock[i] # "stored"
        /\ task' = [task EXCEPT ![i] = "done"]
        /\ UNCHANGED <<call, sock, group>>
     \/ /\ sock[i] = "stored"
        /\ IF call.winner # 0
           THEN /\ task' = [task EXCEPT ![i] = "done"]
                /\ sock' = [sock EXCEPT ![i] = "closed"]
                /\ UNCHANGED <<call, group>>
           ELSE /\ call' = [call EXCEPT !.winner = i]
                /\ task' = [Interrupt(Abort(i), task) EXCEPT ![i] = "done"]
                /\ sock' = [DropStored(Abort(i), sock) EXCEPT ![i] = "won"]
                /\ group' = [group EXCEPT !.aborting = TRUE]

\* An attempt raises something else than OSError: the group posts its abort.
Break(i) ==
  /\ call.race /\ task[i] = "new"
  /\ task' = [task EXCEPT ![i] = "done"]
  /\ group' = [group EXCEPT !.error = TRUE, !.posted = group.posted \/ ~group.aborting]
  /\ UNCHANGED <<call, sock>>

\* _request_abort(): cancel the children, and the body unless it is exiting.
RunAbort ==
  /\ group.posted
  /\ group' = [group EXCEPT !.posted = FALSE, !.aborting = TRUE]
  /\ task' = Interrupt(Addrs, task) /\ sock' = DropStored(Addrs, sock)
  /\ call' = [call EXCEPT !.at = IF @ = "delay" THEN "join" ELSE @]

(***************************************************************************)
(* The caller.                                                             *)
(***************************************************************************)
\* The loop over the addresses: spawn the next attempt, and wait for it.
Advance ==
  /\ call.race /\ call.at \in {"start", "delay"}
  /\ \/ /\ call.winner # 0
        /\ call' = [call EXCEPT !.at = "join"] /\ UNCHANGED task
     \/ /\ call.winner = 0
        /\ call' = [call EXCEPT !.i = @ + 1, !.at = IF call.i + 1 = Len(call.order) THEN "join" ELSE "delay"]
        /\ task' = [task EXCEPT ![call.order[call.i + 1]] = "new"]
  /\ UNCHANGED <<sock, group>>

\* The group's exit, when every child has gone.
Joined ==
  /\ call.at = "join" /\ \A i \in Addrs : ~Live(i)
  /\ \/ /\ group.error /\ Raise("group")
     \/ /\ ~group.error /\ call.why = "cancelled" /\ Raise("cancelled")
     \/ /\ ~group.error /\ call.why = "none" /\ call.winner = 0 /\ Raise("errors")
     \/ /\ ~group.error /\ call.why = "none" /\ call.winner # 0
        /\ call' = [call EXCEPT !.at = IF call.initial THEN "tail" ELSE "open"]
        /\ UNCHANGED <<task, sock, group>>

\* _connect_tcp_sequential(): the next address, in this tealet, or the end.
NextAddress ==
  /\ ~call.race /\ call.at = "start"
  /\ IF call.i = Len(call.order) THEN Raise("errors")
     ELSE /\ call' = [call EXCEPT !.i = @ + 1, !.at = "attempt"]
          /\ task' = [task EXCEPT ![call.order[call.i + 1]] = "new"]
          /\ UNCHANGED <<sock, group>>

Attempted(i) ==
  /\ call.at = "attempt" /\ task[i] = "ready"
  /\ task' = [task EXCEPT ![i] = "done"]
  /\ IF sock[i] = "stored"
     THEN /\ call' = [call EXCEPT !.winner = i, !.at = IF call.initial THEN "tail" ELSE "open"]
          /\ sock' = [sock EXCEPT ![i] = "won"]
     ELSE call' = [call EXCEPT !.at = "start"] /\ UNCHANGED sock
  /\ UNCHANGED group

\* _send_unsent_tail(): an error closes the socket, and the next address is
\* tried when they are tried one at a time.
SendTail ==
  /\ call.at = "tail"
  /\ \/ /\ call' = [call EXCEPT !.at = "open"]
        /\ UNCHANGED <<task, sock, group>>
     \/ /\ call.race /\ Raise("send")
     \/ /\ ~call.race
        /\ call' = [call EXCEPT !.at = "start", !.winner = 0]
        /\ sock' = CloseWinner(sock)
        /\ UNCHANGED <<task, group>>

\* _streams_on_socket(): open the pair, or close the socket.
OpenStreams ==
  /\ call.at = "open"
  /\ \/ Raise("open")
     \/ /\ call' = [call EXCEPT !.at = "handshake"]
        /\ UNCHANGED <<task, sock, group>>

\* _handshake_connected_pair(): the pair is returned, or its writer shut down.
Handshake ==
  /\ call.at = "handshake"
  /\ \/ Raise("handshake")
     \/ /\ call' = [call EXCEPT !.at = "returned"]
        /\ UNCHANGED <<task, sock, group>>

\* The caller is cancelled where it is parked.
Cancel ==
  \/ /\ call.at \in {"delay", "join"}
     /\ call' = [call EXCEPT !.at = "join", !.why = "cancelled"]
     /\ task' = Interrupt(Addrs, task) /\ sock' = DropStored(Addrs, sock)
     /\ group' = [group EXCEPT !.aborting = TRUE]
  \/ /\ call.at = "attempt"
     /\ call' = [call EXCEPT !.at = "raised", !.why = "cancelled"]
     /\ task' = Interrupt(Addrs, task) /\ sock' = DropStored(Addrs, sock)
     /\ UNCHANGED group
  \/ call.at \in {"tail", "handshake"} /\ Raise("cancelled")

Attempt(i) == StartAttempt(i) \/ Resume(i) \/ Attempted(i)

Body == Advance \/ Joined \/ NextAddress \/ SendTail \/ OpenStreams \/ Handshake

Next ==
  \/ Body \/ RunAbort \/ Cancel
  \/ \E i \in Addrs : Attempt(i) \/ Complete(i) \/ Break(i)

Spec == Init /\ [][Next]_vars

\* What the scheduler runs, and the ends of connects and sends.
Scheduled == Body \/ RunAbort \/ \E i \in Addrs : Attempt(i)
Completes == \E i \in Addrs : Complete(i)

(***************************************************************************)
(* Properties.                                                             *)
(***************************************************************************)
Ended == call.at \in {"returned", "raised"}


\* The call has ended, and so have the operations of every attempt.
Settled == Ended /\ \A i \in Addrs : sock[i] \in {"none", "won", "closed", "dropped"}

\* The race tries every address once, the addresses of a family in the order
\* of resolution, and with interleave=1 it changes family whenever another
\* family still has an address left.
OrderFair ==
  LET o == call.order
  IN /\ Len(o) = Len(call.infos) /\ {o[k] : k \in DOMAIN o} = DOMAIN call.infos
     /\ \A j, k \in DOMAIN o : j < k /\ call.infos[o[j]] = call.infos[o[k]] => o[j] < o[k]
     /\ call.count = 1 =>
          \A k \in 2..Len(o) : call.infos[o[k - 1]] = call.infos[o[k]] =>
            \A j \in k..Len(o) : call.infos[o[j]] = call.infos[o[k]]
=============================================================================
