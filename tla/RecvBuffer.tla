----------------------------- MODULE RecvBuffer -----------------------------
(***************************************************************************)
(* RecvIterBuffer of tealetio.io_buffers, with the ReorderBuffer and the   *)
(* PulseEvent under it and the ReaderCore of streams on top: recv_many     *)
(* legs deliver numbered chunks from the threads of the proactor, in any   *)
(* order; a tealet takes them in order with take_next().                   *)
(*                                                                         *)
(* Everything but the kernel runs on the scheduler, so a delivery, a       *)
(* take_next() and a close() are steps.  A completion on the stack of the  *)
(* submit is one whose delivery follows at once.                           *)
(***************************************************************************)
EXTENDS Integers, Sequences, FiniteSets, SequencesExt

CONSTANTS
  Chunks,  \* bound: chunks the peer sends before it ends the stream
  Slots    \* buffer_count of the pool

VARIABLES
  shared,     \* the pool is shared with other streams (fixed)
  others,     \* its buffers that other streams have leased
  arrived,    \* chunks the kernel has delivered
  legs,       \* the running recv_many legs: [base, next, cancelled]
  transit,    \* deliveries between the threads and the scheduler
  delivered,  \* _reorder_buffer._delivered
  heap,       \* _reorder_buffer._heap
  ready,      \* _ready
  pressure,   \* _pressure_pending
  nextBase,   \* _next_base
  op,         \* the base of the leg in _current_operation, or NoLeg
  recvEnded,  \* _recv_ended
  closed,     \* _closed
  overtaken,  \* history: a leg ended with data, and its end came after close()
  reader,     \* "run", "parked", "woken", "eof", "raised"
  got         \* history: the chunks the reader has

kernelVars == <<others, arrived, legs>>
reorderVars == <<delivered, heap>>
bufferVars == <<ready, pressure, nextBase, op, recvEnded>>
vars == <<shared, kernelVars, transit, reorderVars, bufferVars, closed,
          overtaken, reader, got>>

NoLeg == -1
Leg(base) == [base |-> base, next |-> base, cancelled |-> FALSE]

\* A MultishotDelivery.  kind: "data", "eof", "enobufs", "error", "cancel".
Delivery(i, kind, more, chunk) ==
  [index |-> i, kind |-> kind, more |-> more, chunk |-> chunk]

IsData(d) == d.kind = "data"

\* leased_count: the views in the hands of this stream, and of others.
Views == {d \in transit \cup heap \cup Range(ready) : IsData(d)}
Leased(views) == Cardinality(views) + others

\* _pool_at_low_water.
LowWater(views) == 2 * Leased(views) < Slots

\* __init__: the first leg is started.
Init ==
  /\ shared \in BOOLEAN /\ others = 0
  /\ arrived = 0 /\ legs = {Leg(0)}
  /\ transit = {} /\ delivered = 0 /\ heap = {}
  /\ ready = << >> /\ pressure = FALSE /\ nextBase = 0 /\ op = 0
  /\ recvEnded = FALSE /\ closed = FALSE /\ overtaken = FALSE
  /\ reader = "run" /\ got = << >>

(***************************************************************************)
(* The kernel and the other users of the pool.                             *)
(***************************************************************************)

\* A running leg completes once: with more the leg goes on.
Complete(leg, kind, more) ==
  /\ leg \in legs
  /\ kind = "data" => arrived < Chunks /\ Leased(Views) < Slots
  /\ kind = "eof" => arrived = Chunks
  /\ kind = "enobufs" => arrived < Chunks /\ Leased(Views) = Slots
  /\ kind = "cancel" => leg.cancelled
  /\ more => kind = "data"
  /\ arrived' = IF kind = "data" THEN arrived + 1 ELSE arrived
  /\ transit' = transit \cup {Delivery(leg.next, kind, more, arrived')}
  /\ legs' = (legs \ {leg})
              \cup (IF more THEN {[leg EXCEPT !.next = @ + 1]} ELSE {})
  /\ UNCHANGED <<shared, others, reorderVars, bufferVars, closed, overtaken,
                 reader, got>>

OthersLease ==
  /\ shared /\ Leased(Views) < Slots
  /\ others' = others + 1
  /\ UNCHANGED <<shared, arrived, legs, transit, reorderVars, bufferVars,
                 closed, overtaken, reader, got>>

OthersRelease ==
  /\ others > 0
  /\ others' = others - 1
  /\ UNCHANGED <<shared, arrived, legs, transit, reorderVars, bufferVars,
                 closed, overtaken, reader, got>>

(***************************************************************************)
(* Deliveries on the scheduler.                                            *)
(***************************************************************************)

\* The state a run of callbacks works on.
Buffer == [delivered |-> delivered, ready |-> ready, pressure |-> pressure,
           nextBase |-> nextBase, op |-> op, ended |-> recvEnded,
           closed |-> closed, cut |-> overtaken, set |-> FALSE]

\* _schedule_resubmit: arm_next_index() makes the increment that follows the
\* callback land on base.
ScheduleResubmit(b, base) ==
  [b EXCEPT !.nextBase = base, !.op = NoLeg, !.delivered = base - 1]

\* _on_ordered_delivery, then the increment of _deliver_now.  The last leg of
\* the stream is one that ended without data, or after close().
OnOrderedDelivery(b, d) ==
  LET queued(e) == [b EXCEPT !.ready = Append(@, e), !.set = TRUE]
      resubmits == d.kind = "enobufs" \/ (IsData(d) /\ ~d.more)
      after ==
        CASE d.kind = "enobufs" /\ ~b.closed ->
               [ScheduleResubmit(b, d.index) EXCEPT
                  !.pressure = TRUE, !.set = @ \/ ~b.pressure]
          [] d.kind = "enobufs" /\ b.closed ->
               [queued([d EXCEPT !.kind = "cancel"]) EXCEPT
                  !.op = NoLeg, !.ended = TRUE]
          [] d.kind # "enobufs" /\ resubmits /\ ~b.closed ->
               ScheduleResubmit(queued(d), d.index + 1)
          [] d.kind # "enobufs" /\ ~(resubmits /\ ~b.closed) ->
               IF d.more THEN queued(d)
               ELSE [queued(d) EXCEPT !.op = NoLeg, !.ended = TRUE,
                                      !.cut = @ \/ IsData(d)]
  IN [after EXCEPT !.delivered = @ + 1]

\* A mutant: hand off in the order of arrival.
MutDeliverTo(b, d) == [buffer |-> OnOrderedDelivery(b, d), heap |-> heap]

\* ReorderBuffer.deliver: hand off in index order, or keep.
DeliverTo(b, d) ==
  IF d.index # b.delivered
  THEN [buffer |-> b, heap |-> heap \cup {d}]
  ELSE LET sorted == SetToSortSeq(heap, LAMBDA x, y : x.index < y.index)
           step(s, e) ==
             IF e.index = s.buffer.delivered
             THEN [buffer |-> OnOrderedDelivery(s.buffer, e),
                   heap |-> s.heap \ {e}]
             ELSE s
           now == [buffer |-> OnOrderedDelivery(b, d), heap |-> heap]
       IN FoldLeft(step, now, sorted)

\* What a run of callbacks leaves; PulseEvent.set() wakes the parked reader.
Becomes(r) ==
  /\ delivered' = r.buffer.delivered /\ heap' = r.heap
  /\ ready' = r.buffer.ready /\ pressure' = r.buffer.pressure
  /\ nextBase' = r.buffer.nextBase /\ op' = r.buffer.op
  /\ recvEnded' = r.buffer.ended /\ overtaken' = r.buffer.cut
  /\ reader' = IF r.buffer.set /\ reader = "parked" THEN "woken" ELSE reader

\* on_result, marshalled to the scheduler: the deliveries of several threads
\* arrive in any order.
OnResult(d) ==
  /\ d \in transit
  /\ transit' = transit \ {d}
  /\ Becomes(DeliverTo(Buffer, d))
  /\ UNCHANGED <<shared, kernelVars, closed, got>>

(***************************************************************************)
(* The reader.                                                             *)
(***************************************************************************)

\* consume_pressure_resume would start a leg, with these views leased and
\* this much ready.
Resumes(queue, views) ==
  /\ ~closed /\ ~recvEnded /\ op = NoLeg
  /\ queue = << >> /\ heap = {} /\ LowWater(views)

\* _start_recv_many: set_op publishes the handle.
StartRecvMany ==
  /\ op' = nextBase
  /\ legs' = legs \cup {Leg(nextBase)}

\* _take_next_ready has something: the pressure mark goes before the queue.
Taken == pressure \/ ready # << >>
Rest == IF pressure \/ ready = << >> THEN ready ELSE Tail(ready)

\* take_next() resumes before it looks, or after it has taken something.
ResumesFirst == reader = "run" /\ Resumes(ready, Views)
ResumesSecond == Taken /\ ~ResumesFirst /\ Resumes(Rest, Views)

\* take_next() of a reader that runs, or goes on after the pulse: resume, then
\* _take_next_ready until it has something, then resume.  The chunk is copied
\* and released after that.
TakeNext ==
  /\ reader \in {"run", "woken"}
  /\ IF ResumesFirst \/ ResumesSecond THEN StartRecvMany
     ELSE UNCHANGED <<op, legs>>
  /\ ready' = Rest /\ pressure' = FALSE
  /\ CASE ~Taken -> reader' = "parked" /\ got' = got
       [] pressure -> reader' = "run" /\ got' = got
       [] Taken /\ ~pressure ->
            /\ reader' = CASE IsData(Head(ready)) -> "run"
                           [] Head(ready).kind = "eof" -> "eof"
                           [] OTHER -> "raised"
            /\ got' = IF IsData(Head(ready))
                      THEN Append(got, Head(ready).chunk) ELSE got
  /\ UNCHANGED <<shared, others, arrived, transit, reorderVars, nextBase,
                 recvEnded, closed, overtaken>>

\* recv_many() raises when a leg is resumed: take_next() ends with that, and
\* what it has taken before the second resume is gone.
ResumeRaises ==
  /\ reader \in {"run", "woken"}
  /\ \/ ResumesFirst /\ UNCHANGED <<ready, pressure>>
     \/ ResumesSecond /\ ready' = Rest /\ pressure' = FALSE
  /\ reader' = "raised"
  /\ UNCHANGED <<shared, kernelVars, transit, reorderVars, nextBase, op,
                 recvEnded, closed, overtaken, got>>

\* close(), by any tealet: cancel the leg, or end the stream at the next index.
\* A leg that has ended meanwhile is not there to be cancelled.
Close ==
  /\ ~closed
  /\ closed' = TRUE
  /\ IF op # NoLeg
     THEN /\ legs' = {[l EXCEPT !.cancelled = @ \/ l.base = op] : l \in legs}
          /\ op' = NoLeg
          /\ pressure' = FALSE
          /\ UNCHANGED <<reorderVars, ready, nextBase, recvEnded, overtaken,
                         reader>>
     ELSE /\ LET b == [Buffer EXCEPT !.pressure = FALSE, !.closed = TRUE]
             IN Becomes(DeliverTo(b, Delivery(delivered, "cancel", FALSE, 0)))
          /\ UNCHANGED legs
  /\ UNCHANGED <<shared, others, arrived, transit, got>>

Kinds == {"data", "eof", "enobufs", "error", "cancel"}

KernelStep ==
  \E l \in legs, k \in Kinds, more \in BOOLEAN : Complete(l, k, more)
DeliveryStep == \E d \in transit : OnResult(d)

Next ==
  \/ KernelStep
  \/ OthersLease
  \/ OthersRelease
  \/ DeliveryStep
  \/ TakeNext
  \/ ResumeRaises
  \/ Close

(***************************************************************************)
(* Properties.                                                             *)
(***************************************************************************)

TypeOK ==
  /\ shared \in BOOLEAN /\ others \in 0 .. Slots /\ arrived \in 0 .. Chunks
  /\ Leased(Views) <= Slots
  /\ \A d \in transit \cup heap \cup Range(ready) :
       d.kind \in Kinds /\ (d.more => IsData(d)) /\ d.index \in Nat
  /\ delivered \in Nat /\ nextBase \in Nat /\ op \in Nat \cup {NoLeg}
  /\ {pressure, recvEnded, closed, overtaken} \subseteq BOOLEAN
  /\ reader \in {"run", "parked", "woken", "eof", "raised"}

Ended == reader \in {"eof", "raised"}

\* The reader gets the chunks of the peer in their order, and as long as it
\* reads none is lost between the legs, the threads and the heap.
ChunksInOrder ==
  /\ got = [i \in 1 .. Len(got) |-> i]
  /\ ~Ended => Len(got) + Cardinality(Views) = arrived

\* One recv_many leg at a time reads the socket, and a leg starts when all
\* that the last one delivered has been handed on: the numbers go on.
OneLeg ==
  /\ Cardinality(legs) <= 1
  /\ \A l \in legs : \A d \in transit \cup heap :
       l.base <= d.index /\ d.index < l.next
=============================================================================
