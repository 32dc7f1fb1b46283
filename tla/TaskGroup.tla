----------------------------- MODULE TaskGroup -----------------------------
(***************************************************************************)
(* TaskGroup of tealetio.taskgroups: one parent in its "with" block, the   *)
(* children of the group, and the driver that runs callbacks and wakes     *)
(* tasks.                                                                  *)
(*                                                                         *)
(* Control is a stack: an eager start and a throw run another task at once *)
(* and put the caller in front of the runnable queue, so the caller goes   *)
(* on when that task parks or ends.  With an empty stack any runnable task *)
(* may be next.                                                            *)
(***************************************************************************)
EXTENDS Naturals, FiniteSets, SequencesExt

CONSTANTS
  Children, Parent, Driver, None,
  Cancels,       \* the application calls cancel() of the group
  Eager,         \* whose spawn() may start the child at once
  ChildCancels,  \* a child may cancel the parent
  MaxCancels     \* bound: interrupts of the parent from outside the group

ASSUME NamesAssumption ==
  Parent # Driver /\ {Parent, Driver, None} \cap Children = {}

Tasks == Children \cup {Parent}
Agents == Tasks \cup {Driver}

VARIABLES
  stack,     \* the running task or the driver, then those in front of the queue
  at,        \* where each task is
  hurt,      \* the exception a task is unwinding: who threw it, whose it is
  starting,  \* the child a spawn() in progress has started
  looping,   \* who is inside _abort_children()
  todo,      \* the children that loop has still to throw into
  tasks,     \* _tasks
  aborting,  \* _aborting
  done,      \* _done is set
  errors,    \* _errors, by child
  requests,  \* _request_abort() calls queued with call_soon()
  pc,        \* the parent: in its body, in __exit__(), out
  body,      \* what the body raised
  held,      \* _join() holds an interrupt to raise at its end
  result,    \* what the block raised
  status,    \* "pending": the child's start() waits for its _StartStatus
  awaited,   \* the child whose start() the parent is in
  watched,   \* the children with the done callbacks of the group
  cancels,   \* interrupts from outside so far
  told       \* history: the live children that were told of an abort

control == <<stack, at, hurt, starting>>
abort == <<looping, todo, aborting>>
book == <<tasks, done, errors, requests, watched>>
exit == <<pc, body, held, result>>
start == <<status, awaited>>
vars == <<control, abort, book, exit, start, cancels, told>>

Init ==
  /\ stack = <<>>
  /\ at = [t \in Tasks |-> IF t = Parent THEN "ready" ELSE "new"]
  /\ hurt = [t \in Tasks |-> None]
  /\ starting = [t \in Tasks |-> None]
  /\ looping = {} /\ todo = [a \in Agents |-> {}]
  /\ tasks = {} /\ aborting = FALSE /\ done = TRUE
  /\ errors = {} /\ requests = 0
  /\ pc = "body" /\ body = None /\ held = FALSE /\ result = None
  /\ status = [c \in Children |-> "none"] /\ awaited = None
  /\ watched = {}
  /\ cancels = 0
  /\ told = {}

Running(a) == stack # <<>> /\ Head(stack) = a
\* a is about to run code of its own: no loop or spawn of the group is open.
Open(a) == Running(a) /\ a \notin looping /\ (a \in Tasks => starting[a] = None)
Free(t) == Open(t) /\ hurt[t] = None

\* a is on top; whoever it leaves behind keeps the order.
OnTop(a, s) == <<a>> \o SelectSeq(s, LAMBDA x : x # a)

(***************************************************************************)
(* The scheduler.                                                          *)
(***************************************************************************)

\* The driver runs a task.
Run(t) ==
  /\ stack = <<>>
  /\ at[t] \in {"primed", "ready"}
  /\ stack' = <<t>>
  /\ at' = [at EXCEPT ![t] = "up"]
  /\ UNCHANGED <<hurt, starting, abort, book, exit, start, cancels, told>>

\* What a parked task waits for happens.
Wake(t) ==
  /\ stack = <<>>
  /\ at[t] = "parked"
  /\ at' = [at EXCEPT ![t] = "ready"]
  /\ UNCHANGED <<stack, hurt, starting, abort, book, exit, start, cancels,
                 told>>

\* A task waits in code of its own, also in a finally block.
Park(t) ==
  /\ Open(t)
  /\ at[t] = "up" /\ (t = Parent => pc = "body")
  /\ at' = [at EXCEPT ![t] = "parked"]
  /\ stack' = Tail(stack)
  /\ UNCHANGED <<hurt, starting, abort, book, exit, start, cancels, told>>

\* An except block of a task swallows the exception.
Catch(t) ==
  /\ Open(t)
  /\ hurt[t] # None
  /\ at[t] = "up" /\ (t = Parent => pc = "body")
  /\ hurt' = [hurt EXCEPT ![t] = None]
  /\ UNCHANGED <<stack, at, starting, abort, book, exit, start, cancels, told>>

\* Task.throw(): a task that never ran has no code to unwind.  A throw into
\* a parent that is inside _abort_children() in __exit__() leaves __exit__().
Throw(a, u, kind, loop) ==
  /\ stack' = OnTop(u, stack)
  /\ at' = [at EXCEPT ![u] = IF @ = "primed" THEN "unborn" ELSE "up"]
  /\ hurt' = [hurt EXCEPT ![u] = [by |-> a, kind |-> kind]]
  /\ starting' = [starting EXCEPT ![u] = None]
  /\ looping' = loop \ {u}
  /\ pc' = IF u = Parent /\ u \in loop /\ pc = "exit" THEN "torn" ELSE pc
  /\ awaited' = IF u = Parent THEN None ELSE awaited
  /\ UNCHANGED <<aborting, book, body, held, result, status>>

(***************************************************************************)
(* Children come and go.                                                   *)
(***************************************************************************)

\* A mutant: only the code of the child reports its failure.
MutTell(c, places) ==
  IF awaited = c /\ places[Parent] = "starting" /\ at[c] # "unborn"
  THEN [places EXCEPT ![Parent] = "ready"] ELSE places

\* _StartStatus: the parent's start() goes on when its child starts or fails.
Tell(c, places) ==
  IF awaited = c /\ places[Parent] = "starting"
  THEN [places EXCEPT ![Parent] = "ready"] ELSE places

\* _on_task_done() for child c and outcome o; places is where the tasks are
\* otherwise.
OnTaskDone(c, o, places) ==
  LET last == tasks \ {c} = {}
  IN  /\ tasks' = tasks \ {c}
      /\ done' = (done \/ last)
      /\ at' = IF last /\ places[Parent] = "join"
               THEN [places EXCEPT ![Parent] = "ready"] ELSE places
      /\ errors' = IF o = "error" THEN errors \cup {c} ELSE errors
      /\ requests' = IF o = "error" /\ ~aborting THEN requests + 1 ELSE requests

\* The checks of spawn().
MaySpawn(t, c) ==
  /\ Free(t)
  /\ t = Parent => pc = "body"
  /\ at[c] = "new"
  /\ ~(pc # "body" /\ tasks = {})
  /\ ~aborting

\* spawn(), and start() of the parent: the child is queued, and start() waits.
Spawn(t, c, waits) ==
  /\ MaySpawn(t, c)
  /\ waits => t = Parent
  /\ tasks' = tasks \cup {c}
  /\ watched' = watched \cup {c}
  /\ done' = (done /\ tasks # {})
  /\ status' = [status EXCEPT ![c] = IF waits THEN "pending" ELSE "none"]
  /\ at' = [at EXCEPT ![c] = "primed", ![t] = IF waits THEN "starting" ELSE @]
  /\ stack' = IF waits THEN Tail(stack) ELSE stack
  /\ awaited' = IF waits THEN c ELSE awaited
  /\ UNCHANGED <<hurt, starting, errors, requests, abort, exit, cancels, told>>

\* The same with an eager start: the child runs inside scheduler.spawn().
SpawnEager(t, c, waits) ==
  /\ t \in Eager
  /\ MaySpawn(t, c)
  /\ waits => t = Parent
  /\ done' = (done /\ tasks # {})
  /\ status' = [status EXCEPT ![c] = IF waits THEN "pending" ELSE "none"]
  /\ starting' = [starting EXCEPT ![t] = c]
  /\ at' = [at EXCEPT ![c] = "up"]
  /\ stack' = <<c>> \o stack
  /\ UNCHANGED <<hurt, tasks, watched, errors, requests, awaited, abort, exit,
                 cancels, told>>

\* spawn() goes on when the eager child parks or ends; the callback of a
\* child that has ended runs at once.
Spawned(t) ==
  LET c == starting[t]
      waits == status[c] = "pending"
      places == [at EXCEPT ![t] = IF waits THEN "starting" ELSE @]
  IN  /\ Running(t)
      /\ c # None
      /\ starting' = [starting EXCEPT ![t] = None]
      /\ stack' = IF waits THEN Tail(stack) ELSE stack
      /\ awaited' = IF waits THEN c ELSE awaited
      /\ watched' = watched \cup {c}
      /\ \/ /\ at[c] \notin {"over", "error"}
            /\ tasks' = tasks \cup {c}
            /\ at' = places
            /\ UNCHANGED <<done, errors, requests>>
         \/ /\ at[c] \in {"over", "error"}
            /\ OnTaskDone(c, at[c], places)
      /\ UNCHANGED <<hurt, status, abort, exit, cancels, told>>

\* task_status.started()
Started(c) ==
  /\ Open(c)
  /\ at[c] = "up"
  /\ status[c] = "pending"
  /\ status' = [status EXCEPT ![c] = "none"]
  /\ at' = Tell(c, at)
  /\ UNCHANGED <<stack, hurt, starting, awaited, abort, book, exit, cancels,
                 told>>

Live(a) == a = Driver \/ at[a] \notin {"over", "error", "gone"}

\* How a child may end: with an error, or else (it returns or is cancelled).
\* A task that was thrown into before it ran is cancelled, and the wrapper of
\* start() swallows what comes before started().
Outcomes(c) ==
  IF at[c] = "unborn" \/ status[c] = "pending" THEN {"over"} ELSE {"over", "error"}

\* A child ends; with an injected exception control goes to its thrower.
EndChild(c, o) ==
  LET by == hurt[c].by
      back == hurt[c] # None /\ Live(by)
      ended == [at EXCEPT ![c] = o]
      places == Tell(c, IF back /\ by # Driver THEN [ended EXCEPT ![by] = "up"]
                        ELSE ended)
  IN  /\ Open(c)
      /\ o \in Outcomes(c)
      /\ stack' = IF back THEN OnTop(by, Tail(stack)) ELSE Tail(stack)
      /\ hurt' = [hurt EXCEPT ![c] = None]
      /\ status' = [status EXCEPT ![c] = "none"]
      /\ awaited' = IF back /\ by = Parent THEN None ELSE awaited
      /\ \/ c \in watched /\ OnTaskDone(c, o, places)
         \/ /\ c \notin watched
            /\ at' = places
            /\ UNCHANGED <<tasks, done, errors, requests>>
      /\ told' = told \ {c}
      /\ UNCHANGED <<starting, watched, abort, exit, cancels>>

(***************************************************************************)
(* Abort.                                                                  *)
(***************************************************************************)

\* _abort_children(): it goes over a copy of the set.
AbortChildren(a) ==
  /\ aborting' = TRUE
  /\ looping' = looping \cup {a}
  /\ todo' = [todo EXCEPT ![a] = tasks \ {a}]

\* cancel(), from the body or from a child, which knows then.
CancelGroup(t) ==
  /\ Cancels
  /\ Free(t)
  /\ at[t] = "up" /\ (t = Parent => pc = "body")
  /\ AbortChildren(t)
  /\ told' = told \cup ({t} \cap Children)
  /\ UNCHANGED <<control, book, exit, start, cancels>>

\* One turn of the loop.
AbortChild(a, u) ==
  /\ Running(a) /\ a \in looping
  /\ u \in todo[a]
  /\ todo' = [todo EXCEPT ![a] = @ \ {u}, ![u] = {}]
  /\ IF Live(u)
     THEN /\ Throw(a, u, "ours", looping)
          /\ told' = told \cup {u}
     ELSE UNCHANGED <<control, looping, aborting, book, exit, start, told>>
  /\ UNCHANGED cancels

\* The loop is over.
AbortEnds(t) ==
  /\ t \in Tasks
  /\ Running(t) /\ t \in looping
  /\ todo[t] = {}
  /\ looping' = looping \ {t}
  /\ UNCHANGED <<control, todo, aborting, book, exit, start, cancels, told>>

\* The driver runs _request_abort() ...
RequestAbort ==
  /\ stack = <<>>
  /\ requests > 0
  /\ requests' = requests - 1
  /\ stack' = <<Driver>>
  /\ AbortChildren(Driver)
  /\ UNCHANGED <<at, hurt, starting, tasks, done, errors, watched, exit, start,
                 cancels, told>>

\* ... and interrupts the body after the loop.
AbortParent ==
  /\ Running(Driver) /\ Driver \in looping
  /\ todo[Driver] = {}
  /\ IF pc = "body" THEN Throw(Driver, Parent, "ours", looping \ {Driver})
     ELSE /\ looping' = looping \ {Driver}
          /\ UNCHANGED <<control, aborting, book, exit, start>>
  /\ UNCHANGED <<todo, cancels, told>>

\* The callback returns.
DriverReturns ==
  /\ Open(Driver)
  /\ stack' = Tail(stack)
  /\ UNCHANGED <<at, hurt, starting, abort, book, exit, start, cancels, told>>

\* A timeout or a task outside the group interrupts the parent, or a child
\* does.
CancelParent(a) ==
  /\ cancels < MaxCancels
  /\ pc # "out"
  /\ \/ a = Driver /\ stack = <<>>
     \/ a \in Children /\ ChildCancels /\ Free(a) /\ at[a] = "up"
  /\ cancels' = cancels + 1
  /\ Throw(a, Parent, "outer", looping)
  /\ todo' = [todo EXCEPT ![Parent] = {}]
  /\ UNCHANGED told

(***************************************************************************)
(* The end of the block.                                                   *)
(***************************************************************************)

\* __exit__() up to _join().
Exit(raised) ==
  /\ Open(Parent)
  /\ pc = "body"
  /\ raised \in IF hurt[Parent] = None THEN {None, "error"}
                ELSE {hurt[Parent].kind}
  /\ pc' = "exit"
  /\ body' = raised
  /\ hurt' = [hurt EXCEPT ![Parent] = None]
  /\ IF raised # None /\ ~aborting THEN AbortChildren(Parent)
     ELSE UNCHANGED abort
  /\ UNCHANGED <<stack, at, starting, book, held, result, start, cancels, told>>

\* _join(): a wait.  With the event set and tasks left the loop would spin.
JoinWait ==
  /\ Free(Parent)
  /\ pc = "exit" /\ tasks # {} /\ ~done
  /\ at' = [at EXCEPT ![Parent] = "join"]
  /\ stack' = Tail(stack)
  /\ UNCHANGED <<hurt, starting, abort, book, exit, start, cancels, told>>

\* A mutant: an interrupt from outside ends the join.
MutJoinInterrupted ==
  /\ Open(Parent)
  /\ pc = "exit" /\ hurt[Parent] # None
  /\ pc' = "torn"
  /\ UNCHANGED <<control, abort, book, body, held, result, start, cancels, told>>

\* _join(): an interrupt of the wait.
JoinInterrupted ==
  /\ Open(Parent)
  /\ pc = "exit" /\ hurt[Parent] # None
  /\ hurt' = [hurt EXCEPT ![Parent] = None]
  /\ IF hurt[Parent].kind = "outer"
     THEN held' = TRUE /\ AbortChildren(Parent)
     ELSE UNCHANGED <<held, abort>>
  /\ UNCHANGED <<stack, at, starting, book, pc, body, result, start, cancels,
                 told>>

\* A mutant: an interrupt of the join is forgotten.
MutRaised ==
  IF errors # {} \/ body = "error" THEN "group"
  ELSE IF body # None THEN body ELSE None

\* What _exit() raises: child errors and an error of the body as a group,
\* else what interrupted the body, else what interrupted the join.
Raised ==
  IF errors # {} \/ body = "error" THEN "group"
  ELSE IF body # None THEN body
  ELSE IF held THEN "outer" ELSE None

Leave ==
  /\ Open(Parent)
  /\ \/ pc = "exit" /\ hurt[Parent] = None /\ tasks = {} /\ result' = Raised
     \/ pc = "torn" /\ result' = hurt[Parent].kind
  /\ pc' = "out"
  /\ hurt' = [hurt EXCEPT ![Parent] = None]
  /\ at' = [at EXCEPT ![Parent] = "gone"]
  /\ stack' = Tail(stack)
  /\ UNCHANGED <<starting, abort, book, body, held, start, cancels, told>>

Next ==
  \/ \E t \in Tasks : Run(t) \/ Wake(t) \/ Park(t) \/ Catch(t) \/ Spawned(t)
                     \/ CancelGroup(t) \/ AbortEnds(t)
  \/ \E t \in Tasks, c \in Children, waits \in BOOLEAN :
       Spawn(t, c, waits) \/ SpawnEager(t, c, waits)
  \/ \E c \in Children : \/ Started(c)
                         \/ \E o \in {"over", "error"} : EndChild(c, o)
  \/ \E a \in Agents : CancelParent(a) \/ \E u \in Children : AbortChild(a, u)
  \/ RequestAbort \/ AbortParent \/ DriverReturns
  \/ \E raised \in {None, "error", "ours", "outer"} : Exit(raised)
  \/ JoinWait \/ JoinInterrupted \/ Leave

Spec == Init /\ [][Next]_vars

(***************************************************************************)
(* Properties.                                                             *)
(***************************************************************************)

TypeOK ==
  /\ stack \in Seq(Agents) /\ IsInjective(stack)
  /\ at \in [Tasks -> {"new", "primed", "ready", "up", "unborn", "parked",
                       "join", "starting", "over", "error", "gone"}]
  /\ \A t \in Tasks : t \in Range(stack) <=> at[t] \in {"up", "unborn"}
  /\ starting \in [Tasks -> Children \cup {None}]
  /\ looping \subseteq Agents /\ todo \in [Agents -> SUBSET Children]
  /\ tasks \subseteq watched /\ watched \subseteq Children
  /\ errors \subseteq watched
  /\ requests \in 0 .. Cardinality(Children)
  /\ pc \in {"body", "exit", "torn", "out"}
  /\ status \in [Children -> {"none", "pending"}]

\* The block is left only when every child that was spawned has ended.
JoinsAll == pc = "out" => \A c \in Children : at[c] = "new" \/ ~Live(c)

\* The parent is parked in _join() only while a child is there to wake it.
JoinParked == at[Parent] = "join" => tasks # {} /\ ~done

\* The join event is not set over unfinished children, so _join() does not
\* spin.
NoSpin == tasks # {} => ~done

\* start() waits only for a child that may still report.
StartParked ==
  at[Parent] = "starting" =>
    awaited # None /\ status[awaited] = "pending" /\ Live(awaited)

\* Once a group is shutting down each child of it has been told.
AbortReaches ==
  aborting /\ looping = {} /\ requests = 0 => tasks \subseteq told

\* A child's error is raised from the block, whatever else happened.
ErrorsReported ==
  pc = "out" /\ (\E c \in watched : at[c] = "error") => result = "group"

\* The private exception of the group does not leave the block.
OursStaysInside == result # "ours"

\* An interrupt from outside that the body did not swallow is raised from the
\* block, unless errors win.
InterruptKept ==
  pc = "out" /\ (body = "outer" \/ held) => result \in {"outer", "group"}
=============================================================================
