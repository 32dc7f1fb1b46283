-------------------------------- MODULE MCIO --------------------------------
(***************************************************************************)
(* Small instances, for TLC, of the hand-offs between the scheduler and    *)
(* what does its IO: the wakeup of the scheduler by tokens (Wakeup) or by  *)
(* events (EventWakeup), tealets that wait for threads (CrossThread), an   *)
(* IO wait with three legs (IOWaitChain), the proactor's worker with a     *)
(* selector that does not see what is added while it sleeps                *)
(* (SelectorProactor), the uring proactor with two service threads         *)
(* (UringProactor), the scheduler that selects itself (SelectorScheduler), *)
(* the asyncio loops that select on a scheduler (ForwardingSelector) or    *)
(* wait for a proactor (ForwardingProactor), and the receive buffer pools  *)
(* that streams hand on to each other (RecvPoolCache).  Each behaviour is  *)
(* about one of them, which the initial state picks; the variables of the  *)
(* others stay Unused.                                                     *)
(***************************************************************************)
EXTENDS Naturals, Sequences, FiniteSets, TLC

CONSTANTS w1, w2, w3, fd, recv, send, request, forgotten, group1, group2, Unused

VARIABLES
  part,
  waiting, issued, received, consumer, signaller, token, interrupted,
  made, chainClosed, completion, chainReady, tail, handle, flight, cancelled,
  late, worker, locked, owner, tries, interrupts, resource, closes,
  slot, queue, reg, status, left, calls, cancels, lock, stack, poll, watch,
  got, woken, stop, closed, ready, order, log,
  ring, service, leg, host, reorder,
  slots, mask, soon, able, fiber, drive, pipe,
  kind, pool, cache, stream, past,
  keys, masks, event, sched, files, facade, broken,
  future, op, soonest, loop, selfpipe, wake, hander,
  mode, flag, waiter, queued, signal, turn, unseen, signals,
  holder, events, sets, items, published, consumers, thread, producer, lost

wakeupVars == <<waiting, issued, received, consumer, signaller, token, interrupted>>
chainVars == <<made, chainClosed, completion, chainReady, tail, handle, flight,
               cancelled, late, worker, locked, owner, tries, interrupts,
               resource, closes>>
proactorVars == <<slot, queue, reg, status, left, calls, cancels, lock, stack,
                  poll, watch, got, woken, stop, closed, ready, order, log>>
uringVars == <<ring, service, leg, host, reorder>>
selectVars == <<slots, mask, soon, able, fiber, drive, pipe>>
poolVars == <<kind, pool, cache, stream, past>>
forwardVars == <<keys, masks, event, sched, files, facade, broken>>
futureVars == <<future, op, soonest, loop, selfpipe, wake, hander>>
eventVars == <<mode, flag, waiter, queued, signal, turn, unseen, signals>>
crossVars == <<holder, events, sets, items, published, consumers, thread, producer, lost>>
threadVars == <<chainVars, proactorVars, uringVars>>
signalVars == <<wakeupVars, eventVars, crossVars>>
driverVars == <<signalVars, selectVars, forwardVars, futureVars, poolVars>>
vars == <<part, threadVars, driverVars>>

Signallers == {w1, w2, w3}
Legs == 1 .. 3
Ops == {recv, send}

W == INSTANCE Wakeup WITH MaxToken <- 4

\* The first leg makes the resource, or it is there before (made).
Chain(first) ==
  INSTANCE IOWaitChain WITH Legs <- 3, FirstOwns <- first, Attempts <- 2,
    MaxInterrupts <- 3, closed <- chainClosed, ready <- chainReady

P == INSTANCE SelectorProactor WITH
       Fds <- {fd}, Kind <- recv :> "recv" @@ send :> "send",
       Fd <- [o \in Ops |-> fd], Units <- [o \in Ops |-> 1],
       FromCallback <- {}, MaxCancels <- 1, Epoll <- FALSE, None <- Unused

U == INSTANCE UringProactor WITH
       Streams <- {request}, Nowait <- {forgotten}, Workers <- 2,
       MaxShots <- 3, worker <- service, poll <- leg, order <- reorder

S == INSTANCE SelectorScheduler WITH
       Fibers <- {w1, w2}, Files <- {fd}, Empty <- Unused,
       MaxWaits <- w1 :> 2 @@ w2 :> 1, MaxReady <- 2, MaxSoon <- 2

B == INSTANCE RecvPoolCache WITH
       Streams <- {w1, w2}, Pools <- {group1, group2}, MaxFree <- 1, Empty <- Unused

F == INSTANCE ForwardingSelector WITH
       Files <- {fd}, MaxReady <- 2, MaxBusy <- 1, MaxChanges <- 3,
       able <- files, loop <- facade, past <- broken

A == INSTANCE ForwardingProactor WITH
       Ops <- {recv}, Reads <- {w1, w2}, Empty <- Unused, MaxRuns <- 2,
       ready <- soonest, pipe <- selfpipe, worker <- hander

E == INSTANCE EventWakeup WITH Signallers <- {w1, w2}, MaxCalls <- 4, calls <- signals

X == INSTANCE CrossThread WITH
       Consumers <- {w1, w2}, Producers <- {recv, send}, MaxItems <- 2, MaxWaits <- 2,
       Nobody <- Unused, queue <- events, soon <- sets, made <- published,
       fiber <- consumers

NoWakeup ==
  /\ waiting = Unused /\ issued = Unused /\ received = Unused
  /\ consumer = Unused /\ signaller = Unused /\ token = Unused
  /\ interrupted = Unused
NoChain ==
  /\ made = Unused /\ chainClosed = Unused /\ completion = Unused
  /\ chainReady = Unused /\ tail = Unused /\ handle = Unused
  /\ flight = Unused /\ cancelled = Unused /\ late = Unused
  /\ worker = Unused /\ locked = Unused /\ owner = Unused /\ tries = Unused
  /\ interrupts = Unused /\ resource = Unused /\ closes = Unused
NoProactor ==
  /\ slot = Unused /\ queue = Unused /\ reg = Unused /\ status = Unused
  /\ left = Unused /\ calls = Unused /\ cancels = Unused /\ lock = Unused
  /\ stack = Unused /\ poll = Unused /\ watch = Unused /\ got = Unused
  /\ woken = Unused /\ stop = Unused /\ closed = Unused /\ ready = Unused
  /\ order = Unused /\ log = Unused

NoUring ==
  /\ ring = Unused /\ service = Unused /\ leg = Unused /\ host = Unused
  /\ reorder = Unused
NoSelect ==
  /\ slots = Unused /\ mask = Unused /\ soon = Unused /\ able = Unused
  /\ fiber = Unused /\ drive = Unused /\ pipe = Unused
NoPools ==
  kind = Unused /\ pool = Unused /\ cache = Unused /\ stream = Unused /\ past = Unused

NoForward ==
  /\ keys = Unused /\ masks = Unused /\ event = Unused /\ sched = Unused
  /\ files = Unused /\ facade = Unused /\ broken = Unused
NoFutures ==
  /\ future = Unused /\ op = Unused /\ soonest = Unused /\ loop = Unused
  /\ selfpipe = Unused /\ wake = Unused /\ hander = Unused
NoEvent ==
  /\ mode = Unused /\ flag = Unused /\ waiter = Unused /\ queued = Unused
  /\ signal = Unused /\ turn = Unused /\ unseen = Unused /\ signals = Unused
NoCross ==
  /\ holder = Unused /\ events = Unused /\ sets = Unused /\ items = Unused
  /\ published = Unused /\ consumers = Unused /\ thread = Unused
  /\ producer = Unused /\ lost = Unused
NoSignal == NoWakeup /\ NoEvent /\ NoCross
NoThread == NoChain /\ NoProactor /\ NoUring
NoDriver == NoSignal /\ NoSelect /\ NoForward /\ NoFutures /\ NoPools

Init ==
  \/ /\ NoThread
     /\ \/ /\ NoSelect /\ NoForward /\ NoFutures /\ NoPools
           /\ \/ part = "wakeup" /\ W!Init /\ NoEvent /\ NoCross
              \/ part = "event" /\ E!Init /\ NoWakeup /\ NoCross
              \/ part = "cross" /\ X!Init /\ NoWakeup /\ NoEvent
        \/ /\ NoSignal
           /\ \/ part = "select" /\ S!Init /\ NoForward /\ NoFutures /\ NoPools
              \/ part = "forward" /\ F!Init /\ NoSelect /\ NoFutures /\ NoPools
              \/ part = "asyncio" /\ A!Init /\ NoSelect /\ NoForward /\ NoPools
              \/ part = "pools" /\ B!Init /\ NoSelect /\ NoForward /\ NoFutures
  \/ /\ NoDriver
     /\ \/ \E first \in BOOLEAN :
             part = "chain" /\ made = first /\ Chain(first)!Init /\ NoProactor /\ NoUring
        \/ part = "proactor" /\ P!Init /\ NoChain /\ NoUring
        \/ part = "uring" /\ U!Init /\ NoChain /\ NoProactor

NotSignal == UNCHANGED <<part, threadVars, selectVars, forwardVars, futureVars, poolVars>>
OnlyWakeup == NotSignal /\ UNCHANGED <<eventVars, crossVars>>
OnlyEvent == NotSignal /\ UNCHANGED <<wakeupVars, crossVars>>
OnlyCross == NotSignal /\ UNCHANGED <<wakeupVars, eventVars>>
OnlySelect == UNCHANGED <<part, threadVars, signalVars, forwardVars, futureVars, poolVars>>
OnlyForward == UNCHANGED <<part, threadVars, signalVars, selectVars, futureVars, poolVars>>
OnlyFutures == UNCHANGED <<part, threadVars, signalVars, selectVars, forwardVars, poolVars>>
OnlyPools == UNCHANGED <<part, threadVars, signalVars, selectVars, forwardVars, futureVars>>
OnlyChain == UNCHANGED <<part, made, driverVars, proactorVars, uringVars>>
OnlyProactor == UNCHANGED <<part, driverVars, chainVars, uringVars>>
OnlyUring == UNCHANGED <<part, driverVars, chainVars, proactorVars>>

Next ==
  \/ part = "wakeup" /\ W!Next /\ OnlyWakeup
  \/ part = "event" /\ E!Next /\ OnlyEvent
  \/ part = "cross" /\ X!Next /\ OnlyCross
  \/ \E first \in BOOLEAN :
       part = "chain" /\ made = first /\ Chain(first)!Next /\ OnlyChain
  \/ part = "proactor" /\ P!Next /\ OnlyProactor
  \/ part = "uring" /\ U!Next /\ OnlyUring
  \/ part = "select" /\ S!Next /\ OnlySelect
  \/ part = "forward" /\ F!Next /\ OnlyForward
  \/ part = "asyncio" /\ A!Next /\ OnlyFutures
  \/ part = "pools" /\ B!Next /\ OnlyPools

(***************************************************************************)
(* Fairness.  The driver comes back to its wait and a notified signaller   *)
(* runs; a signaller leaves wakeup(), a loop runs its callbacks; a thread  *)
(* that published notifies, and the scheduler of the tealets goes on; the  *)
(* threads of a chain go on, where only a cancelled operation is sure to   *)
(* end; the threads of the proactor go on; so do the driver of the uring   *)
(* proactor and its service threads, of which a completion finds one; a    *)
(* scheduler that selects runs its tealets and its callbacks, and comes to *)
(* select; so do an asyncio loop on a scheduler and the scheduler below    *)
(* it, and one on a proactor and the worker that completes for it.  The    *)
(* part never changes, so the k-th condition is the k-th of each part.     *)
(***************************************************************************)
Signaller(k) == <<w1, w2, w3>>[k]

Turn(k) ==
  \/ part = "wakeup" /\ W!WakeupReturns(Signaller(k)) /\ OnlyWakeup
  \/ /\ part = "event"
     /\ IF k = 3 THEN E!RunSet ELSE E!Signals(Signaller(k))
     /\ OnlyEvent
  \/ /\ part = "cross"
     /\ \/ k = 1 /\ X!RunSoon
        \/ k > 1 /\ X!Notify(<<recv, send>>[k - 1])
     /\ OnlyCross
  \/ /\ part = "chain" /\ k \in cancelled
     /\ \E ok \in BOOLEAN : Chain(TRUE)!OpEnds(k, ok)
     /\ OnlyChain
  \/ /\ part = "proactor"
     /\ IF k = 3 THEN P!Poll ELSE P!Run(<<P!App, P!Worker>>[k])
     /\ OnlyProactor
  \/ /\ part = "uring" /\ k < 3
     /\ IF k = 1 THEN U!Drive ELSE U!Serve
     /\ OnlyUring
  \/ part = "select" /\ k < 3 /\ (IF k = 1 THEN S!DriverIO ELSE S!RunSoon) /\ OnlySelect
  \/ /\ part = "forward"
     /\ \/ k = 1 /\ \E due \in BOOLEAN : F!Turn(due)
        \/ k = 2 /\ F!Run
        \/ k = 3 /\ \E timed \in BOOLEAN : F!Select(timed)
     /\ OnlyForward
  \/ /\ part = "asyncio"
     /\ \/ k = 1 /\ A!HandOver
        \/ k = 2 /\ A!RunCallback
        \/ k = 3 /\ (A!Select \/ A!WaitReturns)
     /\ OnlyFutures

Fairness ==
  /\ WF_vars(\/ part = "wakeup" /\ W!Wait /\ OnlyWakeup
             \/ part = "event" /\ E!Consumes /\ OnlyEvent
             \/ part = "cross" /\ X!Step(w1) /\ OnlyCross
             \/ \E first \in BOOLEAN :
                  part = "chain" /\ made = first /\ Chain(first)!OwnerStep /\ OnlyChain
             \/ part = "select" /\ S!Step(w1) /\ OnlySelect)
  /\ WF_vars(\/ \E first \in BOOLEAN :
                  part = "chain" /\ made = first /\ Chain(first)!WorkerStep /\ OnlyChain
             \/ part = "cross" /\ X!Step(w2) /\ OnlyCross
             \/ part = "select" /\ S!Step(w2) /\ OnlySelect)
  /\ \A k \in 1 .. 3 : WF_vars(Turn(k))

Spec == Init /\ [][Next]_vars /\ Fairness

(***************************************************************************)
(* The properties, each of the part it is about.                           *)
(***************************************************************************)

\* A signaller of TokenHandoffWakeupManager sleeps only while its token is
\* unclaimed, unless wait() was left by an exception.  The consumer of
\* EventWakeupManager does not sleep over work a signaller left, although the
\* event is read and cleared in two steps.  The notification of a thread finds
\* the event of the tealet's wait (CrossThreadCondition), and no tealet stays
\* parked while there is an item for it.  A driver that waits on
\* the asyncio loop is woken for a descriptor registered, and a tealet
\* started, while it waits.  An asyncio loop in a tealet parks on what it
\* registered and over no mark (ForwardingSelector), and one on a proactor
\* over no completion (_marshal_operation_completion).
WakeupsReach ==
  /\ part = "wakeup" => W!TypeOK /\ W!SignallerReleased
  /\ part = "event" => E!NeverSleepsOver
  /\ part = "cross" => X!EventsReach /\ X!ItemsServed
  /\ part = "select" => S!HostTold
  /\ part = "forward" => F!SelectsWhatItAsks
  /\ part = "asyncio" => A!LoopTold

\* TokenHandoffWakeupManager implements the latched flag of WakeupFlag: the
\* consumer never sleeps over a wakeup, and none is lost or taken twice.
Flag == INSTANCE WakeupFlag WITH
          pending <- part = "wakeup" /\ issued > received,
          asleep <- part = "wakeup" /\ consumer = "asleep"
Latched == Flag!Spec

\* The resource of an IO chain is closed at most once, and not while the
\* caller has it: on_cleanup, finish() and dispose_cb do not meet.  When the
\* wait and the operations are over it is open only if the caller of
\* iowait_or_dispose() got it, or was interrupted in its last attempt.
\* An interrupted wait leaves no operation running on: what is in flight was
\* cancelled, or follow() is about to do it; and finish() never meets a
\* completion that is stored already.  The slots of a descriptor hold the
\* callbacks of the waits that go on, and no others, however one ends.
\* A receive buffer pool has one holder, and nothing of the stream that had it
\* before; the cache keeps no pool twice, none past its cap and none after
\* its close(), and loses none.  A future of an asyncio loop is completed once,
\* and a cancelled one leaves no operation running.
ResourceOwned ==
  /\ part = "chain" => /\ Chain(TRUE)!TypeOK
                       /\ Chain(TRUE)!ClosedOnce /\ Chain(TRUE)!NothingLeaks
                       /\ Chain(TRUE)!CancelReaches /\ Chain(TRUE)!FinishAccepted
  /\ part = "select" => S!SlotsExact
  /\ part = "pools" => B!CacheBooks /\ B!PoolAlone /\ B!PoolsEnd
  /\ part = "asyncio" => A!CompletedOnce /\ A!CancelReaches

\* The deliveries of a uring stream reach the user in the order of their
\* indices, with no gap and nothing after the terminal one, although two
\* service threads handle them (ReorderBuffer); and the driver never sleeps
\* over a request that is only prepared, and close() leaves none
\* (_wait_workers, driver_waiting).
StreamsOrdered == part = "uring" => U!StreamsOrdered /\ U!RequestsSubmitted

(***************************************************************************)
(* Every wait ends. wakeup() returns: once it joined the hand-off, the     *)
(* consumer lets it go.  Work left before a wakeup() of EventWakeupManager *)
(* is seen, and a tealet whose CrossThreadEvent is set runs.  An           *)
(* interrupted wait ends: the cancelled operation brings the completion    *)
(* the next attempt waits for.  An operation of the selector proactor      *)
(* whose direction is ready is stepped by the worker, although it was      *)
(* registered while the worker slept (the wakeup byte of                   *)
(* _after_selector_registration_changed), until the proactor is closed.    *)
(* The stop of a uring request leaves nothing of it in the ring            *)
(* (_abandon_emulated_oneshot_leg), and ends it for the user: the terminal *)
(* delivery comes (not for an emulated poll: see the README).  A tealet    *)
(* that waits for a descriptor which is ready is resumed, or another took  *)
(* what was there.  An event an asyncio loop registered is taken, and a    *)
(* future of it whose operation is over is completed, while it runs.       *)
(* Nothing tells the signallers apart, nor the receives of the self-pipe,  *)
(* so one stands for all; of the tealets it is the one that waits twice.   *)
(***************************************************************************)
Op(k) == <<recv, send>>[k]
Direction(k) == <<"r", "w">>[k]
Receive(k) == <<recv, w1>>[k]

Waits(k) ==
  \/ part = "wakeup" /\ k = 1 /\ signaller[w1] # "out"
  \/ part = "event" /\ k = 1 /\ unseen
  \/ part = "cross" /\ k = 1 /\ X!Due(w1)
  \/ part = "chain" /\ k = 1 /\ chainClosed
  \/ part = "proactor" /\ slot[fd][Direction(k)] = Op(k) /\ Direction(k) \in ready[fd]
  \/ /\ part = "uring" /\ request \in host.stopped
     /\ IF k = 1 THEN request \notin U!Emulated ELSE TRUE
  \/ part = "select" /\ k = 1 /\ S!Due(w1)
  \/ part = "forward" /\ F!Due(fd, Direction(k))
  \/ part = "asyncio" /\ A!Due(Receive(k))

WaitOver(k) ==
  \/ part = "wakeup" /\ (signaller[w1] = "out" \/ interrupted)
  \/ part = "event" /\ ~unseen
  \/ part = "cross" /\ ~X!Due(w1)
  \/ part = "chain" /\ Chain(TRUE)!Ended
  \/ /\ part = "proactor"
     /\ slot[fd][Direction(k)] # Op(k) \/ Direction(k) \notin ready[fd] \/ stop
  \/ /\ part = "uring"
     /\ \/ host.closed # "open"
        \/ IF k = 1 THEN U!Closed(request)
           ELSE request \notin ring.armed /\ U!Arm(request) \notin ring.sq
  \/ part = "select" /\ ~S!Due(w1)
  \/ part = "forward" /\ ~F!Due(fd, Direction(k))
  \/ part = "asyncio" /\ ~A!Due(Receive(k))

HandoffsEnd == \A k \in 1 .. 2 : Waits(k) ~> WaitOver(k)
=============================================================================
