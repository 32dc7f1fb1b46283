-------------------------- MODULE ForwardingSelector --------------------------
(***************************************************************************)
(* ForwardingSelector of tealetio.asyncio: an asyncio loop that runs in a  *)
(* tealet selects on this facade.  What it registers becomes reader and    *)
(* writer callbacks of the SelectorScheduler; they mark what is ready, and *)
(* an Event wakes the tealet that parks in select().                       *)
(*                                                                         *)
(* The loop has the thread until it parks, or until the task that          *)
(* run_asyncio_in_tealet() adds (the yielder) sleeps in the scheduler.     *)
(* Other tealets, which run then, may register with the loop too.          *)
(***************************************************************************)
EXTENDS Naturals, FiniteSets

CONSTANTS Files, MaxReady, MaxBusy, MaxChanges

VARIABLES
  keys,   \* _keys: the events of each file, none when it is not registered
  masks,  \* _ready_masks
  event,  \* _ready is set
  sched,  \* slots: the callbacks the scheduler has; soon: the queued ones
  able,   \* now: what the files are ready for; left: how often they may become so
  loop,   \* at; timer: a call_later() of select(); got: what select() returned;
          \* yielder (fixed); busy, changes: what the bounds leave
  past    \* broken: files with a register() or modify() that failed; closed: _closed

vars == <<keys, masks, event, sched, able, loop, past>>

Events == {"r", "w"}
Pairs == Files \X Events
None == [f \in Files |-> {}]
Of(m) == {p \in Pairs : p[2] \in m[p[1]]}

Init ==
  /\ keys = None /\ masks = None /\ event = FALSE
  /\ sched = [slots |-> None, soon |-> {}]
  /\ able = [now |-> {}, left |-> MaxReady]
  /\ \E y \in BOOLEAN :
       loop = [at |-> "run", timer |-> FALSE, got |-> {}, yielder |-> y,
               busy |-> MaxBusy, changes |-> MaxChanges]
  /\ past = [broken |-> {}, closed |-> FALSE]

(***************************************************************************)
(* register(), unregister(), modify() and close().                         *)
(***************************************************************************)
\* _sync_scheduler_registration(): the callbacks of the events that go are
\* removed, then those of the new ones added.
Synced(f, old, new) == (sched.slots[f] \ (old \ new)) \cup (new \ old)
SyncRegistration(f, old, new) == sched' = [sched EXCEPT !.slots[f] = Synced(f, old, new)]

Change == ~past.closed /\ loop.changes > 0 /\ loop' = [loop EXCEPT !.changes = @ - 1]

Register(f, events) ==
  /\ keys[f] = {} /\ Change
  /\ keys' = [keys EXCEPT ![f] = events]
  /\ SyncRegistration(f, {}, events)
  /\ UNCHANGED <<masks, event, able, past>>

\* The scheduler took the reader and refuses the writer: the key goes, the
\* reader's callback stays.
RegisterFails(f) ==
  /\ keys[f] = {} /\ Change
  /\ SyncRegistration(f, {}, {"r"})
  /\ past' = [past EXCEPT !.broken = @ \cup {f}]
  /\ UNCHANGED <<keys, masks, event, able>>

Unregister(f) ==
  /\ keys[f] # {} /\ Change
  /\ keys' = [keys EXCEPT ![f] = {}]
  /\ masks' = [masks EXCEPT ![f] = {}]
  /\ SyncRegistration(f, keys[f], {})
  /\ past' = [past EXCEPT !.broken = IF Synced(f, keys[f], {}) = {} THEN @ \ {f} ELSE @]
  /\ UNCHANGED <<event, able>>

Modify(f, events) ==
  /\ keys[f] \notin {{}, events} /\ Change
  /\ keys' = [keys EXCEPT ![f] = events]
  /\ SyncRegistration(f, keys[f], events)
  /\ UNCHANGED <<masks, event, able, past>>

\* The scheduler refuses what is added; what modify() removed is gone.
ModifyFails(f, events) ==
  /\ keys[f] # {} /\ events \ keys[f] # {} /\ Change
  /\ SyncRegistration(f, keys[f], keys[f] \cap events)
  /\ past' = [past EXCEPT !.broken = @ \cup {f}]
  /\ UNCHANGED <<keys, masks, event, able>>

Close ==
  /\ loop.at = "run" /\ ~past.closed
  /\ keys' = None /\ masks' = None
  /\ sched' = [sched EXCEPT !.slots = [f \in Files |-> Synced(f, keys[f], {})]]
  /\ past' = [broken |-> {f \in Files : Synced(f, keys[f], {}) # {}}, closed |-> TRUE]
  /\ UNCHANGED <<event, able, loop>>

(***************************************************************************)
(* select().                                                               *)
(***************************************************************************)
\* _drain_ready(): the marks of events that are still registered.
DrainReady(l) ==
  /\ loop' = [l EXCEPT !.at = "run", !.timer = FALSE,
                       !.got = Of(masks) \cap Of(keys)]
  /\ masks' = None /\ event' = FALSE

\* asyncio handles what it got before it selects again.
Idle == loop.at = "run" /\ loop.got = {} /\ ~past.closed

\* A loop with callbacks to run does not wait.  The yielder is one always,
\* and gives the thread to the scheduler.
SelectNow ==
  /\ Idle /\ loop.busy > 0 /\ ~loop.yielder
  /\ DrainReady([loop EXCEPT !.busy = @ - 1])
  /\ UNCHANGED <<keys, sched, able, past>>

Yield ==
  /\ Idle /\ loop.yielder
  /\ loop' = [loop EXCEPT !.at = "yields"]
  /\ UNCHANGED <<keys, masks, event, sched, able, past>>

SelectAfterYield ==
  /\ loop.at = "yielded"
  /\ DrainReady(loop)
  /\ UNCHANGED <<keys, sched, able, past>>

Select(timed) ==
  /\ Idle /\ ~loop.yielder
  /\ IF Of(masks) # {} THEN DrainReady(loop)
     ELSE /\ loop' = [loop EXCEPT !.at = "parked", !.timer = timed]
          /\ event' = FALSE /\ UNCHANGED masks
  /\ UNCHANGED <<keys, sched, able, past>>

Resume ==
  /\ loop.at = "woken"
  /\ DrainReady(loop)
  /\ UNCHANGED <<keys, sched, able, past>>

\* The tealet of the loop is cancelled in its wait; the loop may run again.
Interrupt ==
  /\ loop.at \in {"parked", "woken"} /\ loop.changes > 0
  /\ loop' = [loop EXCEPT !.at = "run", !.timer = FALSE, !.changes = @ - 1]
  /\ UNCHANGED <<keys, masks, event, sched, able, past>>

\* A callback of the loop takes what its file was ready for.
Handle(p) ==
  /\ loop.at = "run" /\ p \in loop.got
  /\ loop' = [loop EXCEPT !.got = @ \ {p}]
  /\ able' = [able EXCEPT !.now = @ \ {p}]
  /\ UNCHANGED <<keys, masks, event, sched, past>>

(***************************************************************************)
(* The scheduler, while the loop does not have the thread.                 *)
(***************************************************************************)
\* _mark_ready(), of the callbacks that are queued.
Marked == sched.soon \cap Of(keys)

\* A turn of the driver: the queued callbacks run, and the timer of select()
\* when it is due; then the selector is polled.
Turn(due) ==
  /\ loop.at # "run" /\ (due => loop.timer)
  /\ masks' = [f \in Files |-> masks[f] \cup {e \in Events : <<f, e>> \in Marked}]
  /\ LET sets == due \/ Marked # {}
     IN /\ event' = (event \/ sets)
        /\ loop' = [loop EXCEPT !.timer = @ /\ ~due,
                                !.at = CASE @ = "yields" -> "yielded"
                                         [] @ = "parked" /\ sets -> "woken"
                                         [] OTHER -> @]
  /\ sched' = [sched EXCEPT !.soon = Of(sched.slots) \cap able.now]
  /\ UNCHANGED <<keys, able, past>>

Becomes(p) ==
  /\ p \notin able.now /\ able.left > 0
  /\ able' = [now |-> able.now \cup {p}, left |-> able.left - 1]
  /\ UNCHANGED <<keys, masks, event, sched, loop, past>>

Run == SelectNow \/ Yield \/ SelectAfterYield \/ Resume \/ \E p \in Pairs : Handle(p)

Next ==
  \/ \E f \in Files : Unregister(f) \/ RegisterFails(f) \/ \E e \in SUBSET Events \ {{}} :
                        Register(f, e) \/ Modify(f, e) \/ ModifyFails(f, e)
  \/ Close \/ Run \/ (\E timed \in BOOLEAN : Select(timed)) \/ Interrupt
  \/ (\E due \in BOOLEAN : Turn(due)) \/ \E p \in Pairs : Becomes(p)

Spec == Init /\ [][Next]_vars

(***************************************************************************)
(* Properties.                                                             *)
(***************************************************************************)
\* The loop parks on what it has registered: the scheduler has a callback for
\* each event of each key and no other, also after close(), except where
\* register() or modify() failed half-way; and select() does not sleep over a mark.
SelectsWhatItAsks ==
  /\ \A f \in Files : sched.slots[f] = keys[f] \/ f \in past.broken
  /\ loop.at = "parked" => Of(masks) = {} /\ ~event

\* An event that is registered and there.  asyncio is told, so that it takes
\* the event, or it gives the event up.
Due(f, e) == e \in keys[f] /\ <<f, e>> \in able.now /\ f \notin past.broken /\ ~past.closed
===============================================================================
