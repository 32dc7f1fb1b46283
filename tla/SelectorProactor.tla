-------------------------- MODULE SelectorProactor --------------------------
(***************************************************************************)
(* SelectorProactor and ThreadedSelectorProactor (proactor.py): the table  *)
(* of operations per file descriptor, the queue of writes behind the one   *)
(* in flight, cancellation, and the worker thread that polls.              *)
(*                                                                         *)
(* The threads share one re-entrant lock.  Callbacks run with it held, and *)
(* may call the proactor again.  So each thread has a stack of what it has *)
(* still to do, innermost call first, and a step is the piece of code up   *)
(* to the next callback, lock operation or loop test.                      *)
(***************************************************************************)
EXTENDS Naturals, Sequences, FiniteSets, SequencesExt

CONSTANTS
  Fds,           \* the file descriptors
  Ops,           \* the operations that are submitted
  Kind,          \* of each: see Kinds
  Fd,            \* of each: its descriptor
  Units,         \* of each: what a send_all has to send
  FromCallback,  \* the operations that callbacks submit
  MaxCancels,    \* bound: the calls of cancel()
  Epoll,         \* the selector sees descriptors that are added during select
  None

App == "app"
Worker == "worker"
Threads == {App, Worker}

Kinds == {"recv", "connect", "send", "sync", "poll", "recvmany", "pollmany"}

ASSUME KindAssumption == Kind \in [Ops -> Kinds] /\ Fd \in [Ops -> Fds]
ASSUME UnitsAssumption == Units \in [Ops -> Nat \ {0}] /\ MaxCancels \in Nat
ASSUME OtherAssumption ==
  FromCallback \subseteq Ops /\ Epoll \in BOOLEAN /\ None \notin Ops

\* The directions an operation waits for: what it passes for its event.
Dirs(o) == CASE Kind[o] \in {"recv", "recvmany", "pollmany"} -> {"r"}
             [] Kind[o] \in {"connect", "send", "sync"} -> {"w"}
             [] Kind[o] = "poll" -> {"r", "w"}

\* What is stepped until it is done: recv_many() is after one result, and so is
\* accept_many(); poll_many() goes on.
Stream(o) == Kind[o] \in {"recvmany", "pollmany"}

VARIABLES
  slot,      \* slot[fd][d]: the operation registered for a direction
  queue,     \* queue[fd]: the writes behind it
  reg,       \* reg[fd]: the directions the selector has
  status,    \* "idle", "called", "live", "done" or "refused"
  left,      \* what is left to send
  calls,     \* how often the callback was given its last result
  cancels,   \* the calls of cancel() so far
  lock,      \* the owner and the depth of the lock
  stack,     \* what each thread has to do
  poll,      \* where the worker is in _poll()
  watch,     \* the directions select() waits for
  got,       \* what it returned
  woken,     \* the wakeup socket has data
  stop,      \* _worker_stop
  closed,    \* _closed
  ready,     \* ready[fd]: what the kernel would report
  order,     \* history: the writes in the order of the calls
  log        \* history: the writes in the order they reached the kernel

vars == <<slot, queue, reg, status, left, calls, cancels, lock, stack, poll,
          watch, got, woken, stop, closed, ready, order, log>>

table == <<slot, queue, reg>>
polling == <<poll, watch, got, woken>>
closing == <<stop, closed>>
history == <<order, log>>

Init ==
  /\ slot = [f \in Fds |-> [d \in {"r", "w"} |-> None]]
  /\ queue = [f \in Fds |-> <<>>]
  /\ reg = [f \in Fds |-> {}]
  /\ status = [o \in Ops |-> "idle"]
  /\ left = Units
  /\ calls = [o \in Ops |-> 0]
  /\ cancels = 0
  /\ lock = [owner |-> None, depth |-> 0]
  /\ stack = [t \in Threads |-> <<>>]
  /\ poll = "top"
  /\ watch = reg /\ got = reg
  /\ woken = FALSE /\ stop = FALSE /\ closed = FALSE
  /\ ready = [f \in Fds |-> {}]
  /\ order = [f \in Fds |-> <<>>]
  /\ log = [f \in Fds |-> <<>>]

(***************************************************************************)
(* The lock and the stacks.                                                *)
(***************************************************************************)

Can(t) == lock.owner \in {None, t}

Lock(t) == [owner |-> t, depth |-> lock.depth + 1]

Unlocked == IF lock.depth = 1 THEN [owner |-> None, depth |-> 0]
            ELSE [lock EXCEPT !.depth = @ - 1]

F(name, x) == [name |-> name, x |-> x]

Top(t, name) == stack[t] # <<>> /\ Head(stack[t]).name = name

Arg(t) == Head(stack[t]).x

\* The frame on top is done, and leaves these to do.
Then(t, frames) == stack' = [stack EXCEPT ![t] = frames \o Tail(@)]

(***************************************************************************)
(* The table.                                                              *)
(***************************************************************************)

\* _selector_mask_for_fd()
Mask(s, f) == {d \in {"r", "w"} : s[f][d] # None}

\* _update_selector_registration()
Registered(s, f) == IF closed THEN reg ELSE [reg EXCEPT ![f] = Mask(s, f)]

\* A mutant: it forgets the queue.
MutWriteBusy(f) == slot[f]["w"] # None

\* _write_busy()
WriteBusy(f) == slot[f]["w"] # None \/ queue[f] # <<>>

\* _check_fd_slot_available()
Available(o) == \A d \in Dirs(o) : slot[Fd[o]][d] = None

\* _reserve_fd_slot(), _reserve_fd_poll_slot()
Reserved(o) ==
  [slot EXCEPT ![Fd[o]] = [d \in {"r", "w"} |-> IF d \in Dirs(o) THEN o ELSE @[d]]]

InTable(o) ==
  slot[Fd[o]]["r"] = o \/ slot[Fd[o]]["w"] = o \/ o \in Range(queue[Fd[o]])

(***************************************************************************)
(* The attempt of an operation: what it gets from the kernel.              *)
(***************************************************************************)

Outcomes(o) ==
  LET now == ready[Fd[o]] IN
  IF Dirs(o) \cap now = {}
    THEN {[ok |-> FALSE, sent |-> 0, ready |-> now]}
  ELSE IF Kind[o] = "send"
    THEN {[ok |-> n = left[o], sent |-> n,
           ready |-> IF n = left[o] THEN now ELSE now \ {"w"}] : n \in 1 .. left[o]}
  ELSE IF Kind[o] \in {"recv", "recvmany"}
    THEN {[ok |-> TRUE, sent |-> 0, ready |-> r] : r \in {now, now \ {"r"}}}
  ELSE {[ok |-> TRUE, sent |-> 0, ready |-> now]}

Attempted(o, a) ==
  /\ ready' = [ready EXCEPT ![Fd[o]] = a.ready]
  /\ left' = [left EXCEPT ![o] = @ - a.sent]
  /\ log' = [log EXCEPT ![Fd[o]] = IF a.sent > 0 THEN Append(@, o) ELSE @]

(***************************************************************************)
(* Submitting.                                                             *)
(***************************************************************************)

Refuse(t, o) ==
  /\ status' = [status EXCEPT ![o] = "refused"]
  /\ Then(t, <<>>)
  /\ UNCHANGED <<table, left, calls, lock, ready, log>>

\* _prepare_socket_operation() and _prepare_fd_operation(): it tries at once,
\* and registers what would block.
Attempt(t, o) ==
  \E a \in Outcomes(o) :
    /\ Attempted(o, a)
    /\ status' = [status EXCEPT ![o] = "live"]
    /\ UNCHANGED <<queue, calls>>
    /\ IF a.ok
       THEN /\ lock' = Lock(t)
            /\ Then(t, <<F("finish", o), F("unlock", None)>>)
            /\ UNCHANGED <<slot, reg>>
       ELSE /\ slot' = Reserved(o)
            /\ reg' = Registered(slot', Fd[o])
            /\ Then(t, <<F("wake", None)>>)
            /\ UNCHANGED lock

\* _prepare_socket_continuous_operation(), _prepare_fd_continuous_operation():
\* it has the slot first; poll_many() takes a step before it registers.
Stand(t, o) ==
  /\ slot' = Reserved(o)
  /\ status' = [status EXCEPT ![o] = "live"]
  /\ IF Kind[o] = "pollmany"
     THEN /\ lock' = Lock(t)
          /\ UNCHANGED reg
          /\ Then(t, <<F("first", o), F("update", Fd[o]), F("unlock", None), F("wake", None)>>)
     ELSE /\ reg' = Registered(slot', Fd[o])
          /\ Then(t, <<F("wake", None)>>)
          /\ UNCHANGED lock
  /\ UNCHANGED <<queue, left, calls, ready, log>>

Prepare(t, o) ==
  IF closed \/ ~Available(o) THEN Refuse(t, o)
  ELSE IF Stream(o) THEN Stand(t, o) ELSE Attempt(t, o)

Enqueue(t, o) ==
  /\ queue' = [queue EXCEPT ![Fd[o]] = Append(@, o)]
  /\ status' = [status EXCEPT ![o] = "live"]
  /\ Then(t, <<>>)
  /\ UNCHANGED <<slot, reg, left, calls, lock, ready, log>>

\* recv(), poll(), connect() and the streams
Submit(t) ==
  /\ Top(t, "submit") /\ Kind[Arg(t)] \notin {"send", "sync"} /\ Can(t)
  /\ Prepare(t, Arg(t))
  /\ UNCHANGED <<cancels, polling, closing, order>>

\* send(), send_all(), send_nowait()
SubmitSend(t) ==
  /\ Top(t, "submit") /\ Kind[Arg(t)] = "send" /\ Can(t)
  /\ LET o == Arg(t) IN
     /\ IF ~closed /\ WriteBusy(Fd[o]) THEN Enqueue(t, o) ELSE Prepare(t, o)
     /\ order' = [order EXCEPT ![Fd[o]] = Append(@, o)]
  /\ UNCHANGED <<cancels, polling, closing>>

\* shutdown(), close_socket() and their nowait forms: _run_or_enqueue_write()
SubmitSync(t) ==
  /\ Top(t, "submit") /\ Kind[Arg(t)] = "sync" /\ Can(t)
  /\ LET o == Arg(t) IN
     /\ IF closed THEN Refuse(t, o)
        ELSE IF WriteBusy(Fd[o]) THEN Enqueue(t, o)
        ELSE /\ status' = [status EXCEPT ![o] = "live"]
             /\ Then(t, <<F("run", o)>>)
             /\ UNCHANGED <<table, left, calls, lock, ready, log>>
     /\ order' = [order EXCEPT ![Fd[o]] = Append(@, o)]
  /\ UNCHANGED <<cancels, polling, closing>>

\* The system call of such a one; its callback follows.
RunSync(t) ==
  /\ Top(t, "run") /\ Kind[Arg(t)] = "sync"
  /\ log' = [log EXCEPT ![Fd[Arg(t)]] = Append(@, Arg(t))]
  /\ Then(t, <<F("finish", Arg(t))>>)
  /\ UNCHANGED <<table, status, left, calls, cancels, lock, polling, closing, ready, order>>

\* A send that is taken from the queue: start()
RunSend(t) ==
  /\ Top(t, "run") /\ Kind[Arg(t)] = "send"
  /\ IF closed \/ ~Available(Arg(t))
     THEN Then(t, <<F("finish", Arg(t))>>) /\ UNCHANGED <<table, status, left, calls, lock, ready, log>>
     ELSE Attempt(t, Arg(t))
  /\ UNCHANGED <<cancels, polling, closing, order>>

(***************************************************************************)
(* Callbacks: the code in one may do nothing, or call the proactor.        *)
(***************************************************************************)

\* The operations whose handle the program has.
Cancellable(o) ==
  Kind[o] # "sync" /\ cancels < MaxCancels /\ (InTable(o) \/ status[o] = "done")

\* The callback of o runs, with the operations as in st, and then what is
\* left of the frame.
Callback(t, o, st, frames) ==
  \/ /\ Then(t, frames)
     /\ status' = st
     /\ UNCHANGED cancels
  \/ \E p \in FromCallback :
       /\ st[p] = "idle"
       /\ Then(t, <<F("submit", p)>> \o frames)
       /\ status' = [st EXCEPT ![p] = "called"]
       /\ UNCHANGED cancels
  \/ \E p \in Ops \ {o} :
       /\ Cancellable(p)
       /\ Then(t, <<F("cancel", p)>> \o frames)
       /\ status' = st
       /\ cancels' = cancels + 1

\* The callback is given the last result of o.
LastCall(t, o, frames) ==
  /\ calls' = [calls EXCEPT ![o] = @ + 1]
  /\ Callback(t, o, [status EXCEPT ![o] = "done"], frames)

\* _finish_selector_oneshot()
Finish(t) ==
  /\ Top(t, "finish")
  /\ IF status[Arg(t)] = "done"
     THEN Then(t, <<>>) /\ UNCHANGED <<status, calls, cancels>>
     ELSE LastCall(t, Arg(t), <<>>)
  /\ UNCHANGED <<table, left, lock, polling, closing, ready, history>>

\* _finish_with_terminal_delivery() of a stream that was cancelled
FinishStream(t) ==
  /\ Top(t, "ended")
  /\ LastCall(t, Arg(t), <<>>)
  /\ UNCHANGED <<table, left, lock, polling, closing, ready, history>>

(***************************************************************************)
(* The pieces that frames name.                                            *)
(***************************************************************************)

Unlock(t) ==
  /\ Top(t, "unlock")
  /\ lock' = Unlocked
  /\ Then(t, <<>>)
  /\ UNCHANGED <<table, status, left, calls, cancels, polling, closing, ready, history>>

\* A mutant: the worker is not told.
MutWake(t) ==
  /\ Top(t, "wake")
  /\ Then(t, <<>>)
  /\ UNCHANGED <<table, status, left, calls, cancels, lock, polling, closing, ready, history>>

\* _after_selector_registration_changed()
Wake(t) ==
  /\ Top(t, "wake")
  /\ woken' = TRUE
  /\ Then(t, <<>>)
  /\ UNCHANGED <<table, status, left, calls, cancels, lock, poll, watch, got, closing, ready, history>>

Update(t) ==
  /\ Top(t, "update")
  /\ reg' = Registered(slot, Arg(t))
  /\ Then(t, <<>>)
  /\ UNCHANGED <<slot, queue, status, left, calls, cancels, lock, polling, closing, ready, history>>

\* _remove_handle(), up to the writes behind it
RemoveHandle(t) ==
  /\ Top(t, "remove")
  /\ LET o == Arg(t)  f == Fd[Arg(t)] IN
     IF ~InTable(o) THEN Then(t, <<>>) /\ UNCHANGED <<slot, queue>>
     ELSE /\ slot' = [slot EXCEPT ![f] = [d \in {"r", "w"} |-> IF @[d] = o THEN None ELSE @[d]]]
          /\ queue' = [queue EXCEPT ![f] = SelectSeq(@, LAMBDA q : q # o)]
          /\ Then(t, (IF slot[f]["w"] = o THEN <<F("drain", f)>> ELSE <<>>)
                       \o <<F("update", f)>>)
  /\ UNCHANGED <<reg, status, left, calls, cancels, lock, polling, closing, ready, history>>

\* A mutant: it takes a write before it looks at the writer.
MutDrain(t) ==
  /\ Top(t, "drain")
  /\ LET f == Arg(t) IN
     IF queue[f] = <<>>
     THEN Then(t, <<>>) /\ UNCHANGED queue
     ELSE /\ queue' = [queue EXCEPT ![f] = Tail(@)]
          /\ Then(t, IF slot[f]["w"] # None THEN <<>>
                     ELSE <<F("run", Head(queue[f])), F("drain", f)>>)
  /\ UNCHANGED <<slot, reg, status, left, calls, cancels, lock, polling, closing, ready, history>>

\* A test of the loop of _drain_write_queue()
Drain(t) ==
  /\ Top(t, "drain")
  /\ LET f == Arg(t) IN
     IF queue[f] = <<>> \/ slot[f]["w"] # None
     THEN Then(t, <<>>) /\ UNCHANGED queue
     ELSE /\ queue' = [queue EXCEPT ![f] = Tail(@)]
          /\ Then(t, (IF status[Head(queue[f])] = "done" THEN <<>>
                      ELSE <<F("run", Head(queue[f]))>>) \o <<F("drain", f)>>)
  /\ UNCHANGED <<slot, reg, status, left, calls, cancels, lock, polling, closing, ready, history>>

(***************************************************************************)
(* Cancelling: cancel(), stop_poll(), and the timer of a recv().           *)
(***************************************************************************)

\* The look at done() is outside the lock.
Cancel(t) ==
  /\ Top(t, "cancel")
  /\ Then(t, IF ~Stream(Arg(t)) /\ status[Arg(t)] = "done" THEN <<>>
             ELSE <<F("stop", Arg(t))>>)
  /\ UNCHANGED <<table, status, left, calls, cancels, lock, polling, closing, ready, history>>

\* _selector_stop_handle()
Stop(t) ==
  /\ Top(t, "stop") /\ Can(t)
  /\ LET o == Arg(t)
         last == F(IF Stream(o) THEN "ended" ELSE "finish", o)
     IN IF InTable(o)
        THEN /\ lock' = Lock(t)
             /\ Then(t, <<F("remove", o), F("unlock", None), F("wake", None), last>>)
        ELSE /\ Then(t, IF Stream(o) THEN <<>> ELSE <<last>>)
             /\ UNCHANGED lock
  /\ UNCHANGED <<table, status, left, calls, cancels, polling, closing, ready, history>>

(***************************************************************************)
(* The worker thread.                                                      *)
(***************************************************************************)

\* The result of a stream is given before it is removed.
StepStream(t, o) ==
  \E a \in Outcomes(o) :
    /\ ready' = [ready EXCEPT ![Fd[o]] = a.ready]
    /\ CASE ~a.ok ->
              Then(t, <<F("update", Fd[o])>>) /\ UNCHANGED <<status, calls, cancels>>
         [] a.ok /\ Kind[o] = "pollmany" ->
              Callback(t, o, status, <<F("update", Fd[o])>>) /\ UNCHANGED calls
         [] a.ok /\ Kind[o] = "recvmany" ->
              LastCall(t, o, <<F("remove", o)>>)
    /\ UNCHANGED <<left, log>>

\* _step_fd_operation()
Step(t) ==
  /\ Top(t, "step")
  /\ LET f == Arg(t)[1]
         o == slot[f][Arg(t)[2]]
     IN IF o = None
        THEN Then(t, <<>>) /\ UNCHANGED <<status, left, calls, cancels, ready, log>>
        ELSE IF Stream(o) THEN StepStream(t, o)
        ELSE \E a \in Outcomes(o) :
               /\ Attempted(o, a)
               /\ Then(t, IF a.ok THEN <<F("remove", o), F("finish", o)>>
                          ELSE <<F("update", f)>>)
               /\ UNCHANGED <<status, calls, cancels>>
  /\ UNCHANGED <<table, lock, polling, closing, order>>

\* The step that poll_many() takes at once: _try_step_continuous_operation()
First(t) ==
  /\ Top(t, "first")
  /\ IF Outcomes(Arg(t)) = {a \in Outcomes(Arg(t)) : a.ok}
     THEN Callback(t, Arg(t), status, <<>>)
     ELSE Then(t, <<>>) /\ UNCHANGED <<status, cancels>>
  /\ UNCHANGED <<table, left, calls, lock, polling, closing, ready, history>>

\* An event of the list: one step for an operation that has both directions.
Event(t) ==
  /\ Top(t, "event")
  /\ LET f == Arg(t)
         both == slot[f]["r"] # None /\ slot[f]["r"] = slot[f]["w"]
         r == IF both \/ "r" \in got[f] THEN <<F("step", <<f, "r">>)>> ELSE <<>>
         w == IF ~both /\ "w" \in got[f] THEN <<F("step", <<f, "w">>)>> ELSE <<>>
     IN Then(t, r \o w)
  /\ UNCHANGED <<table, status, left, calls, cancels, lock, polling, closing, ready, history>>

\* _worker_main() and _poll(): it enters select(), which releases the lock.
Select ==
  /\ poll = "top" /\ stack[Worker] = <<>>
  /\ IF stop THEN poll' = "exit" /\ UNCHANGED watch
     ELSE Can(Worker) /\ poll' = "select" /\ watch' = reg
  /\ UNCHANGED <<table, status, left, calls, cancels, lock, stack, got, woken, closing, ready, history>>

\* select() returns.
Selected ==
  LET seen == [f \in Fds |-> (IF Epoll THEN reg[f] ELSE watch[f]) \cap ready[f]] IN
  /\ poll = "select"
  /\ woken \/ \E f \in Fds : seen[f] # {}
  /\ got' = seen
  /\ poll' = "return"
  /\ UNCHANGED <<table, status, left, calls, cancels, lock, stack, watch, woken, closing, ready, history>>

\* It has the lock again, and takes the events of what is still registered.
Reacquire ==
  /\ poll = "return" /\ Can(Worker)
  /\ lock' = Lock(Worker)
  /\ got' = [f \in Fds |-> got[f] \cap reg[f]]
  /\ \E s \in SetToSeqs({f \in Fds : got'[f] # {}}) :
       stack' = [stack EXCEPT ![Worker] =
                   [i \in DOMAIN s |-> F("event", s[i])] \o <<F("unlock", None)>>]
  /\ woken' = FALSE
  /\ poll' = "top"
  /\ UNCHANGED <<table, status, left, calls, cancels, watch, closing, ready, history>>

(***************************************************************************)
(* The program, and the kernel.                                            *)
(***************************************************************************)

AppSubmit(o) ==
  /\ stack[App] = <<>> /\ o \notin FromCallback /\ status[o] = "idle"
  /\ status' = [status EXCEPT ![o] = "called"]
  /\ stack' = [stack EXCEPT ![App] = <<F("submit", o)>>]
  /\ UNCHANGED <<table, left, calls, cancels, lock, polling, closing, ready, history>>

AppCancel(o) ==
  /\ stack[App] = <<>> /\ Cancellable(o)
  /\ cancels' = cancels + 1
  /\ stack' = [stack EXCEPT ![App] = <<F("cancel", o)>>]
  /\ UNCHANGED <<table, status, left, calls, lock, polling, closing, ready, history>>

\* ThreadedSelectorProactor.close(): stop the worker, wait for it,
AppClose ==
  /\ stack[App] = <<>> /\ ~stop
  /\ stop' = TRUE /\ woken' = TRUE
  /\ stack' = [stack EXCEPT ![App] = <<F("join", None)>>]
  /\ UNCHANGED <<table, status, left, calls, cancels, lock, poll, watch, got, closed, ready, history>>

\* and close the selector.
Join ==
  /\ Top(App, "join") /\ poll = "exit" /\ Can(App)
  /\ closed' = TRUE
  /\ Then(App, <<>>)
  /\ UNCHANGED <<table, status, left, calls, cancels, lock, polling, stop, ready, history>>

KernelReady(f, d) ==
  /\ d \notin ready[f]
  /\ ready' = [ready EXCEPT ![f] = @ \cup {d}]
  /\ UNCHANGED <<table, status, left, calls, cancels, lock, stack, polling, closing, history>>

Run(t) ==
  \/ Submit(t) \/ SubmitSend(t) \/ SubmitSync(t) \/ RunSync(t) \/ RunSend(t)
  \/ Finish(t) \/ FinishStream(t) \/ Unlock(t) \/ Wake(t) \/ Update(t)
  \/ RemoveHandle(t) \/ Drain(t) \/ Cancel(t) \/ Stop(t)
  \/ Step(t) \/ First(t) \/ Event(t)

\* The steps of the worker in _poll().
Poll == Select \/ Selected \/ Reacquire

Next ==
  \/ \E t \in Threads : Run(t)
  \/ Poll
  \/ \E o \in Ops : AppSubmit(o) \/ AppCancel(o)
  \/ AppClose \/ Join
  \/ \E f \in Fds, d \in {"r", "w"} : KernelReady(f, d)

Spec == Init /\ [][Next]_vars

(***************************************************************************)
(* Properties.                                                             *)
(***************************************************************************)

\* The shapes of the table, the lock and the worker, and what is left of a
\* send is part of it.
TypeOK ==
  /\ slot \in [Fds -> [{"r", "w"} -> Ops \cup {None}]]
  /\ \A f \in Fds : queue[f] \in Seq(Ops) /\ order[f] \in Seq(Ops) /\ log[f] \in Seq(Ops)
  /\ reg \in [Fds -> SUBSET {"r", "w"}] /\ ready \in [Fds -> SUBSET {"r", "w"}]
  /\ status \in [Ops -> {"idle", "called", "live", "done", "refused"}]
  /\ \A o \in Ops : left[o] \in 0 .. Units[o]
  /\ lock.owner \in Threads \cup {None} /\ lock.depth \in Nat
  /\ (lock.owner = None) = (lock.depth = 0)
  /\ poll \in {"top", "select", "return", "exit"}

\* The callback of an operation has one last result: whether it completes,
\* is cancelled by either thread, or both at once.
OneResult == \A o \in Ops : calls[o] <= 1

\* Whenever the lock is free, the selector has exactly the directions that
\* operations wait for, none of them is done, and writes are queued only
\* behind one that is in flight.
TableExact ==
  lock.owner = None /\ ~closed =>
    \A f \in Fds :
      /\ reg[f] = Mask(slot, f)
      /\ queue[f] # <<>> => slot[f]["w"] # None
      /\ \A o \in Ops : InTable(o) => status[o] = "live"

\* When no call is under way, an operation that has had no last result is
\* in the table: cancel and completion never lose one between them.
NothingLost ==
  lock.owner = None /\ (\A t \in Threads : stack[t] = <<>>) =>
    \A o \in Ops : status[o] = "live" => InTable(o)

\* The writes of a descriptor reach the kernel in the order they were
\* called, a short send and a cancelled one included.
WritesInOrder ==
  \A f \in Fds : \A i, j \in DOMAIN log[f] :
    i < j => \E k, l \in DOMAIN order[f] :
               k <= l /\ order[f][k] = log[f][i] /\ order[f][l] = log[f][j]

\* A send is never refused because another one is in flight.
SendsQueue ==
  \A o \in Ops : Kind[o] = "send" /\ status[o] = "refused" => closed

=============================================================================
