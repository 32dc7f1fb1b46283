-------------------------- MODULE SelectorScheduler --------------------------
(***************************************************************************)
(* SelectorMixin, SyncSelectorScheduler and AsyncSelectorScheduler         *)
(* (selector.py): a tealet that finds a socket not ready puts a callback,  *)
(* wake(), in a slot of the descriptor and parks; the driver selects, and  *)
(* queues the callbacks of what is ready with call_soon().  The callback   *)
(* may be stale when it runs, or queued twice, by two selects of turn().   *)
(*                                                                         *)
(* The driver sleeps in select(), or is a coroutine that has the asyncio   *)
(* loop watch the descriptors registered at that time; then code of the    *)
(* loop may register more.  A slot holds one callback: as with asyncio,    *)
(* the program has one tealet wait for a direction of a descriptor.        *)
(***************************************************************************)
EXTENDS Naturals, Sequences, SequencesExt, FiniteSets

CONSTANTS Fibers, Files, Empty,
          MaxWaits,  \* bound: waits of each tealet
          MaxReady,  \* bound: times a descriptor becomes ready
          MaxSoon    \* bound: queued callbacks

VARIABLES slots,   \* _fd_callbacks: of each file, the callback of each direction
          mask,    \* the directions the selector watches
          soon,    \* _ready_callbacks
          able,    \* what each file is ready for, and how often it became so
          fiber,   \* at; the call: file, dirs, probe: it takes nothing; gen and active of its wake()
          drive,   \* at: the driver; watch: what the asyncio loop watches for it
          pipe     \* a byte is in the socketpair

vars == <<slots, mask, soon, able, fiber, drive, pipe>>

Dirs == {"r", "w"}
User == <<Empty, 0>>  \* a callback the program added itself

Done == [at |-> "done", file |-> Empty, dirs |-> {}, probe |-> FALSE,
         gen |-> 0, active |-> FALSE]

Init ==
  /\ slots = [f \in Files |-> [d \in Dirs |-> Empty]]
  /\ mask = [f \in Files |-> {}]
  /\ soon = <<>>
  /\ able = [now |-> [f \in Files |-> {}], left |-> MaxReady]
  /\ fiber = [t \in Fibers |-> Done]
  /\ drive = [at |-> "turn", watch |-> {}]
  /\ pipe = FALSE

Over(t) == [Done EXCEPT !.gen = fiber[t].gen]
InUse(f) == UNION {fiber[t].dirs : t \in {u \in Fibers : fiber[u].at # "done" /\ fiber[u].file = f}}
              \cup {d \in Dirs : slots[f][d] = User}

(***************************************************************************)
(* add_reader(), remove_reader() and their twins: the slots change, then   *)
(* _update_selector_registration() and _wake_selector().                   *)
(***************************************************************************)
SelectorMask(s, f) == {d \in Dirs : s[f][d] # Empty}

\* Mutant: the waiting driver is not told.
MutRegister(s) ==
  /\ slots' = s
  /\ mask' = [f \in Files |-> SelectorMask(s, f)]
  /\ UNCHANGED pipe

Register(s) ==
  /\ slots' = s
  /\ mask' = [f \in Files |-> SelectorMask(s, f)]
  /\ pipe' = TRUE

Added(f, ds, callback) == [slots EXCEPT ![f] = [d \in Dirs |-> IF d \in ds THEN callback ELSE @[d]]]
Removed(f, ds) == Added(f, ds, Empty)

(***************************************************************************)
(* The calls of a tealet.                                                  *)
(***************************************************************************)
Running == drive.at = "turn"

\* sock_recv(), sock_sendto(), sock_accept() and their kin, or a round of
\* sock_sendall(), on one direction, or poll() of both.  asyncio code may start one while the
\* driver waits; spawn() breaks the wait.
Start(t, f) ==
  /\ fiber[t].at = "done"
  /\ \E ds \in {{"r"}, {"w"}, Dirs} :
       /\ ds \cap InUse(f) = {}
       /\ fiber' = [fiber EXCEPT ![t] = [Over(t) EXCEPT !.at = "try", !.file = f, !.dirs = ds,
                                           !.probe = (ds = Dirs)]]
  /\ pipe' = (pipe \/ ~Running)
  /\ UNCHANGED <<slots, mask, soon, able, drive>>

Hit(t) == fiber[t].dirs \cap able.now[fiber[t].file]

\* The socket call succeeds, and takes what was there; a probe leaves it.
Succeed(t) ==
  /\ Running /\ fiber[t].at = "try" /\ Hit(t) # {}
  /\ able' = IF fiber[t].probe THEN able
             ELSE [able EXCEPT !.now[fiber[t].file] = @ \ fiber[t].dirs]
  /\ fiber' = [fiber EXCEPT ![t] = Over(t)]
  /\ UNCHANGED <<slots, mask, soon, drive, pipe>>

\* It would block: wait_readable(), wait_writable() or _wait_poll_fd() puts
\* its wake() in the slots and parks.
Arm(t) ==
  /\ Running /\ fiber[t].at = "try" /\ Hit(t) = {} /\ fiber[t].gen < MaxWaits[t]
  /\ fiber' = [fiber EXCEPT ![t].at = "parked", ![t].gen = @ + 1, ![t].active = TRUE]
  /\ Register(Added(fiber[t].file, fiber[t].dirs, <<t, fiber[t].gen + 1>>))
  /\ UNCHANGED <<soon, able, drive>>

\* The selector refuses: the slot is rolled back and the call raises.
ArmFails(t) ==
  /\ Running /\ fiber[t].at = "try" /\ Hit(t) = {}
  /\ fiber' = [fiber EXCEPT ![t] = Over(t)]
  /\ Register(slots)
  /\ UNCHANGED <<soon, able, drive>>

\* sock_connect(): the first wait comes before the first look.
Connect(t, f) ==
  /\ Running /\ fiber[t].at = "done" /\ "w" \notin InUse(f) /\ fiber[t].gen < MaxWaits[t]
  /\ fiber' = [fiber EXCEPT ![t] = [Over(t) EXCEPT !.at = "parked", !.file = f, !.dirs = {"w"},
                                      !.probe = TRUE, !.gen = @ + 1, !.active = TRUE]]
  /\ Register(Added(f, {"w"}, <<t, fiber[t].gen + 1>>))
  /\ UNCHANGED <<soon, able, drive>>

\* The event of a parked tealet was set: it tries again.
Resume(t) ==
  /\ Running /\ fiber[t].at = "ready"
  /\ fiber' = [fiber EXCEPT ![t].at = "try"]
  /\ UNCHANGED <<slots, mask, soon, able, drive, pipe>>

Due(t) == fiber[t].at = "parked" /\ Hit(t) # {}

\* Cancelled: the finally clause takes the callback out, unless wake() did.
Cancel(t) ==
  /\ Running /\ fiber[t].at \in {"parked", "ready"}
  /\ fiber' = [fiber EXCEPT ![t] = Over(t)]
  /\ IF fiber[t].active THEN Register(Removed(fiber[t].file, fiber[t].dirs))
     ELSE UNCHANGED <<slots, mask, pipe>>
  /\ UNCHANGED <<soon, able, drive>>

(***************************************************************************)
(* A reader the program adds itself, which stays until it is removed.      *)
(***************************************************************************)
AddUser(f) ==
  /\ drive.at # "select" /\ "r" \notin InUse(f)
  /\ Register(Added(f, {"r"}, User))
  /\ UNCHANGED <<soon, able, fiber, drive>>

RemoveUser(f) ==
  /\ drive.at # "select" /\ slots[f]["r"] = User
  /\ Register(Removed(f, {"r"}))
  /\ UNCHANGED <<soon, able, fiber, drive>>

(***************************************************************************)
(* The driver.                                                             *)
(***************************************************************************)
\* A queued callback runs.  That of a wait which is over does nothing, and
\* that of a poll looks again; otherwise the slots are emptied and the event
\* is set.
RunSoon ==
  /\ Running /\ soon # <<>>
  /\ soon' = Tail(soon)
  /\ LET t == Head(soon)[1]
         g == Head(soon)[2]
         due == /\ Head(soon) # User /\ fiber[t].active /\ fiber[t].gen = g
                /\ fiber[t].dirs = Dirs => Hit(t) # {}
     IN /\ IF due
           THEN /\ fiber' = [fiber EXCEPT ![t].at = "ready", ![t].active = FALSE]
                /\ Register(Removed(fiber[t].file, fiber[t].dirs))
           ELSE UNCHANGED <<slots, mask, fiber, pipe>>
        /\ able' = IF Head(soon) # User THEN able
                   ELSE [able EXCEPT !.now = [f \in Files |-> {d \in @[f] : slots[f][d] # User}]]
  /\ UNCHANGED drive

\* _process_selector_events() for a file: the callback that is in both slots
\* is queued once.
Queued(f) ==
  LET hit == mask[f] \cap able.now[f]
      ds == IF slots[f]["r"] = slots[f]["w"] THEN <<"r">>
            ELSE SelectSeq(<<"r", "w">>, LAMBDA d : d \in hit)
  IN IF hit = {} THEN <<>> ELSE [k \in DOMAIN ds |-> slots[f][ds[k]]]

Select ==
  /\ \E order \in SetToSeqs(Files) : soon' = soon \o FlattenSeq([k \in DOMAIN order |-> Queued(order[k])])
  /\ pipe' = FALSE
  /\ UNCHANGED <<slots, mask, able, fiber>>

Seen == pipe \/ \E f \in Files : mask[f] \cap able.now[f] # {}

\* _poll_io(), between two batches or at both ends of turn().
PollIO == Running /\ Len(soon) < MaxSoon /\ Seen /\ Select /\ UNCHANGED drive

\* Nothing is ready to run: _wait_thread(), or _driver_wait() of the asyncio
\* scheduler, which registers what the selector has.
Park ==
  /\ Running /\ soon = <<>> /\ \A t \in Fibers : fiber[t].at \in {"done", "parked"}
  /\ \/ drive' = [at |-> "select", watch |-> {}]
     \/ drive' = [at |-> "hosted", watch |-> {<<f, d>> \in Files \X Dirs : d \in mask[f]}]
  /\ UNCHANGED <<slots, mask, soon, able, fiber, pipe>>

Watched == pipe \/ \E w \in drive.watch : w[2] \in able.now[w[1]]

WaitReturns ==
  /\ \/ drive.at = "select" /\ Seen
     \/ drive.at = "hosted" /\ Watched
  /\ Select
  /\ drive' = [at |-> "turn", watch |-> {}]

\* A timer is due: the wait ends by its timeout.
TimerDue ==
  /\ ~Running
  /\ Select
  /\ drive' = [at |-> "turn", watch |-> {}]

\* External: a descriptor becomes ready.
Becomes(f, d) ==
  /\ able.left > 0 /\ d \notin able.now[f]
  /\ able' = [able EXCEPT !.now[f] = @ \cup {d}, !.left = @ - 1]
  /\ UNCHANGED <<slots, mask, soon, fiber, drive, pipe>>

Step(t) == Succeed(t) \/ Arm(t) \/ ArmFails(t) \/ Resume(t)

DriverIO == PollIO \/ Park \/ WaitReturns

Next ==
  \/ RunSoon \/ PollIO \/ Park \/ WaitReturns \/ TimerDue
  \/ \E t \in Fibers : Step(t) \/ Cancel(t) \/ \E f \in Files : Start(t, f) \/ Connect(t, f)
  \/ \E f \in Files : AddUser(f) \/ RemoveUser(f) \/ \E d \in Dirs : Becomes(f, d)

Spec == Init /\ [][Next]_vars

(***************************************************************************)
(* Properties.                                                             *)
(***************************************************************************)
\* A tealet parked for a descriptor has its wake() in every slot it waits for,
\* a slot has no callback of a wait that is over, and the selector watches
\* what the slots ask for.
SlotsExact ==
  /\ \A t \in Fibers :
       fiber[t].at = "parked" =>
         \A d \in fiber[t].dirs : slots[fiber[t].file][d] = <<t, fiber[t].gen>>
  /\ \A f \in Files, d \in Dirs :
       slots[f][d] \notin {Empty, User} =>
         \E t \in Fibers : /\ slots[f][d] = <<t, fiber[t].gen>> /\ fiber[t].active
                           /\ fiber[t].file = f /\ d \in fiber[t].dirs /\ fiber[t].at = "parked"
  /\ \A f \in Files : mask[f] = SelectorMask(slots, f)

\* While the asyncio loop watches for the driver, what is registered meanwhile
\* is watched too, or a byte is there that ends the wait; and a tealet that
\* was started has it end.
HostTold ==
  drive.at = "hosted" =>
    \/ pipe
    \/ /\ \A f \in Files, d \in Dirs : slots[f][d] # Empty => <<f, d>> \in drive.watch
       /\ \A t \in Fibers : fiber[t].at \in {"done", "parked"}
=============================================================================
