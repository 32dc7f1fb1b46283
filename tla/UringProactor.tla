---------------------------- MODULE UringProactor ----------------------------
(***************************************************************************)
(* UringProactor (proactor.py): the scheduler's thread prepares requests   *)
(* on an io_uring and parks in wait(); service threads reap completions    *)
(* and run their handlers, which queue deliveries for the scheduler; the   *)
(* scheduler puts the deliveries of a stream in order (ReorderBuffer) and  *)
(* hands them to the user (ProactorIOManager.poll_many, IOHandle).         *)
(*                                                                         *)
(* A stream is a multishot request ("many"), or a single one, which has    *)
(* one completion.  Without multishot poll, poll_many is emulated: the     *)
(* handler of each completed leg prepares the next one, and stop_poll()    *)
(* abandons the chain of legs under _multi_leg_lock.                       *)
(* The ring itself (uring_api and the kernel) is external: prepared        *)
(* requests start when a thread submits them, a request that is stopped    *)
(* posts an error, and a service thread that leaves prepared requests      *)
(* behind submits them when the driver has announced that it waits.        *)
(***************************************************************************)
EXTENDS Naturals, Sequences, FiniteSets

CONSTANTS Streams,     \* requests with completions
          Nowait,      \* requests without completion: close, shutdown, send
          Workers,     \* how many service threads there are
          MaxShots     \* bound on the completions of a stream

VARIABLES ring,        \* sq: prepared requests; armed: streams in the kernel;
                       \* count: completions posted; cq: completions to reap;
                       \* done: nowait requests that were issued
          worker,      \* of each service thread that has a CQE, where it is
          poll,        \* poll[s]: the kind of a request, and the completion
                       \* and _next_index of the holder of an emulated poll
          host,        \* the scheduler's thread: at, noted (driver_waiting),
                       \* woken (break_wait), queue (call_on_scheduler),
                       \* begun and stopped streams, closed
          order        \* order[s]: the ReorderBuffer; out is what the user got

vars == <<ring, worker, poll, host, order>>

Arm(s) == [op |-> "arm", of |-> s]
Stop(s) == [op |-> "stop", of |-> s]
Issue(n) == [op |-> "nowait", of |-> n]
Emulated == {s \in Streams : poll[s].kind = "emulated"}
Delivery(n, ok, more) == [n |-> n, ok |-> ok, more |-> more]

(***************************************************************************)
(* The ring: submitting starts what is prepared; a stop ends its target,   *)
(* if that is still there.  Requests complete with readiness, data or an   *)
(* error; a multishot request stays armed after a success, a leg does not. *)
(***************************************************************************)
Submit(r) ==
  LET armed == r.armed \cup {s \in Streams : Arm(s) \in r.sq}
      ended == {s \in armed : Stop(s) \in r.sq}
  IN [sq |-> {}, armed |-> armed \ ended,
      count |-> [s \in Streams |-> r.count[s] + IF s \in ended THEN 1 ELSE 0],
      cq |-> r.cq \cup {[of |-> s, d |-> Delivery(r.count[s], FALSE, FALSE)] : s \in ended},
      done |-> r.done \cup {n \in Nowait : Issue(n) \in r.sq}]

Complete(s, ok, more) ==
  /\ s \in ring.armed /\ host.closed # "closed"
  /\ more => ok /\ poll[s].kind = "many"
  /\ ring.count[s] + (IF more \/ (ok /\ s \in Emulated) THEN 1 ELSE 0) < MaxShots
  /\ ring' = [ring EXCEPT !.armed = IF more THEN @ ELSE @ \ {s},
                          !.cq = @ \cup {[of |-> s, d |-> Delivery(ring.count[s], ok, more)]},
                          !.count[s] = @ + 1]
  /\ UNCHANGED <<worker, poll, host, order>>

Prepare(e) == ring' = [ring EXCEPT !.sq = @ \cup {e}]

\* Mutant: deliveries are handed over as they come.
MutOrder(rb, d) == [rb EXCEPT !.out = Append(@, d), !.next = @ + 1]

(***************************************************************************)
(* ReorderBuffer.deliver(): a delivery whose turn has come is handed over, *)
(* with those on the heap that follow it; another waits on the heap.  What *)
(* comes a second time for an index stays on top of the heap.              *)
(***************************************************************************)
Order(rb, d) ==
  LET held(n) == \E x \in rb.heap : x.n = n
      stuck == \E x \in rb.heap : x.n =< rb.next
      last == CHOOSE m \in rb.next .. (rb.next + Cardinality(rb.heap)) :
                (\A i \in (rb.next + 1) .. m : held(i)) /\ ~held(m + 1)
      turn == [i \in 1 .. ((IF stuck THEN rb.next ELSE last) - rb.next + 1) |->
                 IF i = 1 THEN d ELSE CHOOSE x \in rb.heap : x.n = rb.next + i - 1]
  IN IF d.n # rb.next THEN [rb EXCEPT !.heap = @ \cup {d}]
     ELSE [next |-> rb.next + Len(turn), out |-> rb.out \o turn,
           heap |-> rb.heap \ {turn[i] : i \in DOMAIN turn}]

\* IOHandle.closed: the terminal delivery has been handed over.
Closed(s) == order[s].out # <<>> /\ ~order[s].out[Len(order[s].out)].more

(***************************************************************************)
(* The scheduler's thread.  It acts only while it is not in wait().        *)
(***************************************************************************)
Out == host.at = "out" /\ host.closed = "open"

Begin(s) ==
  /\ Out /\ s \notin host.begun
  /\ host' = [host EXCEPT !.begun = @ \cup {s}]
  /\ Prepare(Arm(s))
  /\ UNCHANGED worker

\* recv_many() and accept_many().
StartMany(s) ==
  /\ Begin(s) /\ poll[s].kind = "many"
  /\ UNCHANGED <<poll, order>>

\* recv(), send_all() and the other requests of one completion, among them
\* recv_many() and accept_many() without multishot.
StartSingle(s) ==
  /\ Begin(s) /\ poll[s].kind = "single"
  /\ UNCHANGED <<poll, order>>

\* Nothing to do (no data, a socket that is closed): the callback runs at
\* once and no request is made.
AnswerAtOnce(s) ==
  /\ Out /\ s \notin host.begun /\ poll[s].kind = "single"
  /\ host' = [host EXCEPT !.begun = @ \cup {s}]
  /\ order' = [order EXCEPT ![s] = Order(@, Delivery(0, TRUE, FALSE))]
  /\ UNCHANGED <<ring, worker, poll>>

\* poll_many(): the first leg, held for stop_poll().
StartLegs(s) ==
  /\ Begin(s) /\ s \in Emulated
  /\ poll' = [poll EXCEPT ![s].leg = "armed"]
  /\ UNCHANGED order

\* close(), shutdown(), sendmsg_nowait(): prepared and forgotten.
StartNowait(n) ==
  /\ Out /\ n \notin ring.done /\ Issue(n) \notin ring.sq
  /\ Prepare(Issue(n))
  /\ UNCHANGED <<worker, poll, host, order>>

\* cancel(), and stop_poll() of a multishot poll.
StopStream(s) ==
  /\ Out /\ s \in host.begun \ (host.stopped \cup Emulated) /\ ~Closed(s)
  /\ host' = [host EXCEPT !.stopped = @ \cup {s}]
  /\ Prepare(Stop(s))
  /\ UNCHANGED <<worker, poll, order>>

\* stop_poll() of an emulated poll takes the leg from its holder under the
\* lock; after the lock it delivers a terminal at the holder's next index and
\* prepares a cancel of the leg.
Abandon(s) ==
  /\ Out /\ s \in (host.begun \cap Emulated) \ host.stopped /\ ~Closed(s)
  /\ LET live == poll[s].leg = "armed"
     IN /\ poll' = [poll EXCEPT ![s].leg = IF live THEN "abandoned" ELSE @]
        /\ host' = [host EXCEPT !.stopped = @ \cup {s}, !.at = IF live THEN "stop" ELSE @,
                                !.of = IF live THEN s ELSE @]
  /\ UNCHANGED <<ring, worker, order>>

Terminalise ==
  /\ host.at = "stop"
  /\ order' = [order EXCEPT ![host.of] = Order(@, Delivery(poll[host.of].index, FALSE, FALSE))]
  /\ Prepare(Stop(host.of))
  /\ host' = [host EXCEPT !.at = "out", !.of = "none"]
  /\ UNCHANGED <<worker, poll>>

\* The scheduler runs the oldest callback queued with call_on_scheduler().
RunCallback ==
  /\ Out /\ host.queue # <<>>
  /\ LET c == Head(host.queue) IN order' = [order EXCEPT ![c.of] = Order(@, c.d)]
  /\ host' = [host EXCEPT !.queue = Tail(@)]
  /\ UNCHANGED <<ring, worker, poll>>

\* _wait_workers(): announce the park, submit, park until break_wait() or the
\* deadline, and take the announcement back.
Announce ==
  /\ Out /\ host.queue = <<>>
  /\ host' = [host EXCEPT !.at = "noted", !.noted = TRUE]
  /\ UNCHANGED <<ring, worker, poll, order>>

Park ==
  /\ host.at = "noted"
  /\ ring' = Submit(ring)
  /\ host' = [host EXCEPT !.at = "parked"]
  /\ UNCHANGED <<worker, poll, order>>

\* wait() with a deadline that has passed submits and returns.
Flush ==
  /\ Out /\ ring.sq # {}
  /\ ring' = Submit(ring)
  /\ UNCHANGED <<worker, poll, host, order>>

Unpark ==
  /\ host.at = "parked" /\ host.woken
  /\ host' = [host EXCEPT !.at = "out", !.noted = FALSE, !.woken = FALSE]
  /\ UNCHANGED <<ring, worker, poll, order>>

TimeOut ==
  /\ host.at = "parked" /\ ~host.woken
  /\ host' = [host EXCEPT !.at = "out", !.noted = FALSE]
  /\ UNCHANGED <<ring, worker, poll, order>>

\* close(): no service thread reaps again; those that run a handler end; what
\* is still prepared is submitted; the ring goes.
CloseRing ==
  /\ Out
  /\ host' = [host EXCEPT !.closed = "stopping"]
  /\ UNCHANGED <<ring, worker, poll, order>>

JoinWorkers ==
  /\ host.closed = "stopping" /\ worker = {}
  /\ ring' = Submit(ring)
  /\ host' = [host EXCEPT !.closed = "closed"]
  /\ UNCHANGED <<worker, poll, order>>

(***************************************************************************)
(* The service threads.  A completion of a multishot request is emitted.   *)
(* One of an emulated poll runs _poll_many_oneshot_cqe(): look whether the *)
(* poll was abandoned, emit, move the index, and under the lock prepare    *)
(* the next leg.  A thread then submits what is prepared if the driver     *)
(* waits, and reaps again.                                                 *)
(***************************************************************************)
Reap ==
  /\ Cardinality(worker) < Workers /\ host.closed = "open"
  /\ \E c \in ring.cq :
       /\ ring' = [ring EXCEPT !.cq = @ \ {c}]
       /\ worker' = worker \cup
            {[at |-> IF c.of \in Emulated /\ c.d.ok THEN "look" ELSE "emit", of |-> c.of, d |-> c.d]}
  /\ UNCHANGED <<poll, host, order>>

Emit(s, d) == host' = [host EXCEPT !.queue = Append(@, [of |-> s, d |-> d]), !.woken = TRUE]
GoTo(w, at) == worker' = (worker \ {w}) \cup {[w EXCEPT !.at = at]}

\* A completion of a multishot request, numbered by the ring.
EmitShot(w) ==
  /\ w.at = "emit" /\ poll[w.of].kind = "many"
  /\ Emit(w.of, w.d) /\ GoTo(w, "back")
  /\ UNCHANGED <<ring, poll, order>>

\* The completion of a single request.
EmitResult(w) ==
  /\ w.at = "emit" /\ poll[w.of].kind = "single"
  /\ Emit(w.of, w.d) /\ GoTo(w, "back")
  /\ UNCHANGED <<ring, poll, order>>

LookLeg(w) ==
  /\ w.at = "look"
  /\ GoTo(w, IF poll[w.of].leg = "abandoned" THEN "lock" ELSE "ready")
  /\ UNCHANGED <<ring, poll, host, order>>

EmitLeg(w) ==
  /\ w.at = "ready"
  /\ Emit(w.of, Delivery(poll[w.of].index, TRUE, TRUE)) /\ GoTo(w, "count")
  /\ UNCHANGED <<ring, poll, order>>

CountLeg(w) ==
  /\ w.at = "count"
  /\ poll' = [poll EXCEPT ![w.of].index = @ + 1]
  /\ GoTo(w, "lock")
  /\ UNCHANGED <<ring, host, order>>

\* Under the lock: an abandoned poll ends here.
Acknowledge(w) ==
  /\ w.at = "lock" \/ (w.at = "emit" /\ w.of \in Emulated)
  /\ poll[w.of].leg = "abandoned"
  /\ poll' = [poll EXCEPT ![w.of].leg = "none"]
  /\ GoTo(w, "back")
  /\ UNCHANGED <<ring, host, order>>

\* Under the lock: prepare the next leg, which may fail.
Rearm(w) ==
  /\ w.at = "lock" /\ poll[w.of].leg # "abandoned"
  /\ \/ Prepare(Arm(w.of)) /\ GoTo(w, "back")
     \/ UNCHANGED ring /\ GoTo(w, "failed")
  /\ UNCHANGED <<poll, host, order>>

\* A leg, or the preparation of the next, failed: the terminal delivery.
FailLeg(w) ==
  /\ \/ /\ w.at = "emit" /\ w.of \in Emulated /\ poll[w.of].leg # "abandoned"
        /\ UNCHANGED poll
     \/ /\ w.at = "failed"
        /\ poll' = [poll EXCEPT ![w.of].leg = "none"]
  /\ Emit(w.of, Delivery(poll[w.of].index, FALSE, FALSE))
  /\ GoTo(w, "back")
  /\ UNCHANGED <<ring, order>>

Back(w) ==
  /\ w.at = "back"
  /\ ring' = IF host.noted THEN Submit(ring) ELSE ring
  /\ worker' = worker \ {w}
  /\ UNCHANGED <<poll, host, order>>

Handle(w) == EmitShot(w) \/ EmitResult(w) \/ LookLeg(w) \/ EmitLeg(w) \/ CountLeg(w)
             \/ Acknowledge(w) \/ Rearm(w) \/ FailLeg(w) \/ Back(w)

Serve == Reap \/ \E w \in worker : Handle(w)

Init ==
  /\ ring = [sq |-> {}, armed |-> {}, count |-> [s \in Streams |-> 0], cq |-> {}, done |-> {}]
  /\ worker = {}
  /\ \E kind \in [Streams -> {"many", "single", "emulated"}] :
       poll = [s \in Streams |-> [kind |-> kind[s], leg |-> "none", index |-> 0]]
  /\ host = [at |-> "out", of |-> "none", noted |-> FALSE, woken |-> FALSE, queue |-> <<>>,
             begun |-> {}, stopped |-> {}, closed |-> "open"]
  /\ order = [s \in Streams |-> [next |-> 0, out |-> <<>>, heap |-> {}]]

Drive == RunCallback \/ Announce \/ Park \/ Unpark \/ Terminalise \/ JoinWorkers

Next ==
  \/ \E s \in Streams : StartMany(s) \/ StartSingle(s) \/ AnswerAtOnce(s)
                        \/ StartLegs(s) \/ StopStream(s) \/ Abandon(s)
                        \/ \E ok, more \in BOOLEAN : Complete(s, ok, more)
  \/ \E n \in Nowait : StartNowait(n)
  \/ Drive \/ Flush \/ TimeOut \/ CloseRing
  \/ Serve

Spec == Init /\ [][Next]_vars

\* A stream is delivered in the order of its indices without a gap, and
\* nothing follows its terminal delivery (ReorderBuffer, _poll_many_cqe).
StreamsOrdered ==
  \A s \in Streams : LET out == order[s].out IN
    /\ \A i \in DOMAIN out : out[i].n = i - 1
    /\ \A i \in 1 .. (Len(out) - 1) : out[i].more

\* A prepared request does not stay behind while the driver sleeps and no
\* service thread is about (_wait_workers), and none is left when the ring is
\* closed (close).
RequestsSubmitted ==
  /\ host.at = "parked" /\ ring.sq # {} => worker # {}
  /\ host.closed = "closed" => ring.sq = {}

=============================================================================
