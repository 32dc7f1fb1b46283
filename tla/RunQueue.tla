------------------------------ MODULE RunQueue ------------------------------
(***************************************************************************)
(* FifoRunnableQueue of scheduler.py: the default policy of the runnable   *)
(* set.  The deque _items is a sequence; the companion _set, kept in step  *)
(* with it by every method, is its range.  A position is an integer that   *)
(* indexes the deque the way Python indexes it (0 is the head, -1 the end, *)
(* anything too large is the end), or AtEnd for "position is None".        *)
(***************************************************************************)
EXTENDS Integers, Sequences, Functions

CONSTANT AtEnd   \* the Python value None passed as a position

\* An insertion index: negative positions count from the end, -1 = append.
NormaliseInsertPosition(position, length) ==
  IF position >= 0 THEN position
  ELSE IF length + position + 1 >= 0 THEN length + position + 1 ELSE 0

\* t becomes the k-th element.
InsertBefore(q, k, t) == SubSeq(q, 1, k - 1) \o <<t>> \o SubSeq(q, k, Len(q))

\* deque.insert: an index past the end appends.
DequeInsert(q, index, t) ==
  InsertBefore(q, 1 + (IF index <= Len(q) THEN index ELSE Len(q)), t)

Place(q, t, position) ==
  IF position = AtEnd THEN Append(q, t)
  ELSE DequeInsert(q, NormaliseInsertPosition(position, Len(q)), t)

\* add(): a task that is already queued stays where it is.
Add(q, t, position) ==
  IF t \in Range(q) THEN q ELSE Place(q, t, position)

\* discard(): a task is queued once.
Discard(q, t) ==
  IF t \in Range(q)
  THEN LET k == CHOOSE i \in 1 .. Len(q) : q[i] = t
       IN  SubSeq(q, 1, k - 1) \o SubSeq(q, k + 1, Len(q))
  ELSE q

\* reschedule(): t must be queued.
Reschedule(q, t, position) == Place(Discard(q, t), t, position)

\* yield_to(): the target moves to the head and the caller is queued behind
\* it, at a position counted among the tasks after the target.
YieldTo(q, target, current, position) ==
  LET r == Discard(Reschedule(q, target, 0), current)
      index == 1 + NormaliseInsertPosition(position, Len(r) - 1)
  IN  IF position = AtEnd THEN Append(r, current) ELSE Add(r, current, index)

PopNext(q) == Tail(q)
=============================================================================
