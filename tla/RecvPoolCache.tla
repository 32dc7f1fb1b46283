---------------------------- MODULE RecvPoolCache ----------------------------
(***************************************************************************)
(* RecvBufferPoolCache of tealetio.io_manager, and the pools it keeps: the *)
(* buffer groups of io_uring (external: what close(), in_use() and         *)
(* group_id do) and SyntheticRecvBufferPool of tealetio.proactor.          *)
(*                                                                         *)
(* Each stream is a thread of its own: it takes a pool, receives into it,  *)
(* and gives it back, perhaps with a receive armed and a buffer leased.    *)
(* The cache asks in_use() outside its lock, so that another checkout, a   *)
(* release or the close() of the cache falls between.                      *)
(***************************************************************************)
EXTENDS Naturals, Sequences, FiniteSets, SequencesExt

CONSTANTS Streams, Pools, MaxFree, Empty

VARIABLES
  kind,    \* of pool: "ring", "synthetic", or "plain": synthetic, before Python 3.12 (fixed)
  pool,    \* made; live: group_id is not 0; shut: close() was called; foreign: not of the
           \* cache; armed, views: the streams with a receive, with a view; leased: leased_count
  cache,   \* free: _free; parked: _parked; out: _checked_out; away: _away; closed: _closed
  stream,  \* at; pool; left: the groups the loop of acquire() has still to try
  past     \* reused: the id of a dropped pool, still in _checked_out, named another pool

vars == <<kind, pool, cache, stream, past>>

New(foreign) ==
  [made |-> TRUE, live |-> TRUE, shut |-> FALSE, foreign |-> foreign,
   armed |-> {}, views |-> {}, leased |-> 0]

\* A cache that is new, or that an earlier stream has left a pool in.
Init ==
  /\ kind \in {"ring", "synthetic", "plain"}
  /\ \E first \in Pools \cup {Empty} :
       /\ pool = [p \in Pools |-> [New(FALSE) EXCEPT !.made = p = first]]
       /\ cache = [free |-> IF first = Empty THEN <<>> ELSE <<first>>, parked |-> {first} \ {Empty},
                   out |-> {}, away |-> 0, closed |-> FALSE]
  /\ stream = [s \in Streams |-> [at |-> "new", pool |-> Empty, left |-> 0]]
  /\ past = [reused |-> FALSE]

Goes(s, at) == stream' = [stream EXCEPT ![s].at = at]

(***************************************************************************)
(* The pools.                                                              *)
(***************************************************************************)
\* BufGroup.close() unregisters an idle ring at once, an armed one with its
\* last receive.  SyntheticRecvBufferPool.close() does nothing.
Shut(b) == [b EXCEPT !.shut = TRUE, !.live = @ /\ (kind # "ring" \/ b.armed # {})]
ShutAll(ps) == [p \in Pools |-> IF p \in ps THEN Shut(pool[p]) ELSE pool[p]]

InUse(p) == pool[p].leased # 0 \/ (kind = "ring" /\ pool[p].armed # {})

\* recv_many() on the pool of the stream.
Arm(s) ==
  /\ stream[s].at = "have"
  /\ LET p == stream[s].pool
     IN /\ s \notin pool[p].armed /\ ~pool[p].shut
        /\ pool' = [pool EXCEPT ![p].armed = @ \cup {s}]
  /\ UNCHANGED <<kind, cache, stream, past>>

\* A chunk is delivered: the ring, or lease_delivery_chunk(), leases a buffer.
Lease(s) ==
  \E p \in Pools :
    /\ s \in pool[p].armed /\ s \notin pool[p].views
    /\ pool' = [pool EXCEPT ![p].views = @ \cup {s},
                            ![p].leased = IF kind = "plain" THEN @ ELSE @ + 1]
    /\ UNCHANGED <<kind, cache, stream, past>>

\* The view is released: _LeasedChunk.__release_buffer__(), _note_unleased().
Unlease(s) ==
  \E p \in Pools :
    /\ s \in pool[p].views
    /\ pool' = [pool EXCEPT ![p].views = @ \ {s}, ![p].leased = IF @ > 0 THEN @ - 1 ELSE 0]
    /\ UNCHANGED <<kind, cache, stream, past>>

\* The receive ends, by itself or cancelled.
Disarm(s) ==
  \E p \in Pools :
    /\ s \in pool[p].armed
    /\ pool' = [pool EXCEPT ![p].armed = @ \ {s},
                            ![p].live = @ /\ ~(kind = "ring" /\ pool[p].shut /\ pool[p].armed = {s})]
    /\ UNCHANGED <<kind, cache, stream, past>>

(***************************************************************************)
(* acquire().                                                              *)
(***************************************************************************)
Acquire(s) ==
  /\ stream[s].at = "new"
  /\ stream' = [stream EXCEPT ![s].at = IF cache.closed THEN "refused" ELSE "scan",
                              ![s].left = Len(cache.free)]
  /\ UNCHANGED <<kind, pool, cache, past>>

PopFront(s) ==
  /\ stream[s].at = "scan"
  /\ IF stream[s].left = 0 \/ cache.free = <<>>
     THEN /\ stream' = [stream EXCEPT ![s].at = "allocate", ![s].left = 0]
          /\ UNCHANGED cache
     ELSE /\ stream' = [stream EXCEPT ![s].at = "popped", ![s].pool = Head(cache.free),
                                      ![s].left = @ - 1]
          /\ cache' = [cache EXCEPT !.free = Tail(@), !.away = @ + 1]
  /\ UNCHANGED <<kind, pool, past>>

\* _group_unregistered(), then in_use(), neither under the lock.
AskRegistered(s) ==
  /\ stream[s].at = "popped"
  /\ Goes(s, IF pool[stream[s].pool].live THEN "registered" ELSE "gone")
  /\ UNCHANGED <<kind, pool, cache, past>>

AskInUse(s) ==
  /\ stream[s].at = "registered"
  /\ Goes(s, IF InUse(stream[s].pool) THEN "busy" ELSE "idle")
  /\ UNCHANGED <<kind, pool, cache, past>>

\* _drain_locked().
Drained(c) == [c EXCEPT !.free = <<>>, !.parked = @ \ Range(c.free)]

\* The group goes to the back; when the cache was closed meanwhile, it is
\* drained.  next: where a checkout of an open cache goes on.
Requeue(s, next) ==
  LET p == stream[s].pool
      c == [cache EXCEPT !.away = @ - 1, !.parked = @ \cup {p}, !.free = Append(@, p)]
  IN /\ cache' = IF c.closed THEN Drained(c) ELSE c
     /\ pool' = IF c.closed THEN ShutAll(Range(c.free)) ELSE pool
     /\ stream' = [stream EXCEPT ![s].at = IF c.closed THEN "refused" ELSE next,
                                 ![s].pool = Empty]

Rotate(s) == stream[s].at = "busy" /\ Requeue(s, "scan") /\ UNCHANGED <<kind, past>>

\* in_use() raises.
AskFails(s) == stream[s].at = "registered" /\ Requeue(s, "refused") /\ UNCHANGED <<kind, past>>

Skip(s) ==
  /\ stream[s].at = "gone"
  /\ cache' = [cache EXCEPT !.away = @ - 1, !.parked = @ \ {stream[s].pool}]
  /\ stream' = [stream EXCEPT ![s].at = "scan", ![s].pool = Empty]
  /\ UNCHANGED <<kind, pool, past>>

HandOut(s) ==
  /\ stream[s].at = "idle"
  /\ IF cache.closed THEN Requeue(s, "refused")
     ELSE /\ cache' = [cache EXCEPT !.away = @ - 1, !.parked = @ \ {stream[s].pool},
                                    !.out = @ \cup {stream[s].pool}]
          /\ stream' = [stream EXCEPT ![s].at = "have", ![s].left = 0]
          /\ UNCHANGED pool
  /\ UNCHANGED <<kind, past>>

\* A pool object that nothing holds is freed, and its id names the next one.
Held(p) ==
  \/ p \in Range(cache.free) \/ pool[p].armed # {} \/ pool[p].views # {}
  \/ \E s \in Streams : stream[s].pool = p

\* _allocate(), up to its second check.
Allocate(s) ==
  /\ stream[s].at = "allocate"
  /\ IF cache.closed THEN Goes(s, "refused") /\ UNCHANGED pool
     ELSE \E p \in Pools :
            /\ ~Held(p)
            /\ pool' = [pool EXCEPT ![p] = New(FALSE)]
            /\ stream' = [stream EXCEPT ![s].at = "made", ![s].pool = p]
  /\ UNCHANGED <<kind, cache, past>>

CheckOut(s) ==
  /\ stream[s].at = "made"
  /\ LET p == stream[s].pool
     IN IF cache.closed
        THEN /\ pool' = ShutAll({p})
             /\ stream' = [stream EXCEPT ![s].at = "refused", ![s].pool = Empty]
             /\ UNCHANGED cache
        ELSE /\ cache' = [cache EXCEPT !.out = @ \cup {p}]
             /\ Goes(s, "have") /\ UNCHANGED pool
  /\ UNCHANGED <<kind, past>>

\* create_recv_buffer_pool(): a pool of another size, not of the cache.
CreateForeign(s) ==
  /\ stream[s].at = "new" /\ ~cache.closed
  /\ \E p \in Pools :
       /\ ~Held(p)
       /\ pool' = [pool EXCEPT ![p] = New(TRUE)]
       /\ stream' = [stream EXCEPT ![s].at = "have", ![s].pool = p]
       /\ past' = [past EXCEPT !.reused = @ \/ p \in cache.out]
  /\ UNCHANGED <<kind, cache>>

(***************************************************************************)
(* release() and close().                                                  *)
(***************************************************************************)
\* _at_cap().
AtCap == Len(cache.free) + cache.away >= MaxFree

Return(p) ==
  LET out == p \in cache.out
      keep == out /\ ~cache.closed /\ ~AtCap
  IN IF ~pool[p].live THEN cache' = [cache EXCEPT !.out = @ \ {p}] /\ UNCHANGED pool
     ELSE IF p \in cache.parked THEN UNCHANGED <<cache, pool>>
     ELSE /\ cache' = [cache EXCEPT !.out = @ \ {p},
                                    !.parked = IF keep THEN @ \cup {p} ELSE @,
                                    !.free = IF keep THEN Append(@, p) ELSE @]
          /\ pool' = IF keep THEN pool ELSE ShutAll({p})

Release(s) ==
  /\ stream[s].at = "have"
  /\ Return(stream[s].pool)
  /\ Goes(s, "released")
  /\ UNCHANGED <<kind, past>>

\* A second release() while the pool is on the deque, or off it to be asked.
ReleaseAgain(s) ==
  /\ stream[s].at = "released" /\ stream[s].pool \in cache.parked
  /\ Return(stream[s].pool)
  /\ stream' = [stream EXCEPT ![s].at = "ended", ![s].pool = Empty]
  /\ UNCHANGED <<kind, past>>

\* The stream drops its reference, perhaps without a release().
Drop(s) ==
  /\ \/ stream[s].at = "released"
     \/ stream[s].at = "have" /\ pool[stream[s].pool].shut
  /\ stream' = [stream EXCEPT ![s].at = "ended", ![s].pool = Empty]
  /\ UNCHANGED <<kind, pool, cache, past>>

\* The holder destroys its pool: pool.close().
Destroy(s) ==
  /\ stream[s].at = "have" /\ ~pool[stream[s].pool].shut
  /\ pool' = ShutAll({stream[s].pool})
  /\ UNCHANGED <<kind, cache, stream, past>>

Close ==
  /\ ~cache.closed
  /\ cache' = [Drained(cache) EXCEPT !.closed = TRUE]
  /\ pool' = ShutAll(Range(cache.free))
  /\ UNCHANGED <<kind, stream, past>>

Next ==
  \/ Close
  \/ \E s \in Streams :
       \/ Acquire(s) \/ PopFront(s) \/ AskRegistered(s) \/ AskInUse(s) \/ AskFails(s)
       \/ Rotate(s) \/ Skip(s) \/ HandOut(s) \/ Allocate(s) \/ CheckOut(s) \/ CreateForeign(s)
       \/ Arm(s) \/ Lease(s) \/ Unlease(s) \/ Disarm(s)
       \/ Release(s) \/ ReleaseAgain(s) \/ Drop(s) \/ Destroy(s)

Spec == Init /\ [][Next]_vars

(***************************************************************************)
(* Properties.                                                             *)
(***************************************************************************)
Asked == {stream[s].pool : s \in {t \in Streams : stream[t].at \in {"popped", "registered", "gone", "busy", "idle"}}}
Has(s) == stream[s].at = "have"

\* The books of the cache: a pool is queued once; it is parked while it is
\* queued or asked; the idle cap counts both; a closed cache queues nothing;
\* and, but for an id that named a dropped pool, only pools of the cache are
\* queued.
CacheBooks ==
  /\ IsInjective(cache.free) /\ cache.parked = Range(cache.free) \cup Asked
  /\ Range(cache.free) \cap Asked = {}
  /\ Len(cache.free) + cache.away <= MaxFree
  /\ cache.closed => cache.free = <<>>
  /\ ~past.reused => \A p \in cache.parked : ~pool[p].foreign

\* A stream that has a pool has it alone, and no receive and no buffer of an
\* earlier stream is left in its ring (a synthetic pool is not armed: a late
\* chunk, a copy, may still take a lease of it).  The ring is registered,
\* unless the holder, or an earlier one, called close().
PoolAlone ==
  \A s \in Streams : Has(s) =>
    LET p == stream[s].pool
    IN /\ \A t \in Streams : Has(t) /\ stream[t].pool = p => t = s
       /\ p \notin cache.parked
       /\ kind = "ring" => pool[p].armed \cup pool[p].views \subseteq {s}
       /\ ~pool[p].shut => pool[p].live

\* No pool is lost: one that the cache or a stream does not have was closed,
\* so that its ring is, or will be, unregistered.
PoolsEnd ==
  \A p \in Pools : pool[p].made =>
    \/ pool[p].shut \/ p \in cache.parked
    \/ \E s \in Streams : stream[s].pool = p /\ stream[s].at \in {"made", "have"}
==============================================================================
