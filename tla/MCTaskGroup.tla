---------------------------- MODULE MCTaskGroup ----------------------------
(***************************************************************************)
(* Small instances of TaskGroup, Priority and Runner for TLC.  The initial *)
(* state picks a part: in "eager" spawn() may start children eagerly and   *)
(* they may cancel the parent, with two children; in "queued" neither,     *)
(* with three; in "priority" the tasks have priorities and take locks; in  *)
(* "runner" there are two runners, and a program that uses them.           *)
(***************************************************************************)
EXTENDS TaskGroup, TLC

CONSTANTS c1, c2, c3

VARIABLES
  part,
  task, plock, queue, past,   \* of Priority
  runner, current, handler, wanted, target, call, runs, gone   \* of Runner

priorityVars == <<task, plock, queue, past>>
runnerVars == <<runner, current, handler, wanted, target, call, runs, gone>>

Queued == INSTANCE TaskGroup
            WITH Eager <- {}, ChildCancels <- FALSE, MaxCancels <- 1

P == INSTANCE Priority WITH
  Tasks <- Children, Priorities <- 1 .. 2, NLocks <- 2, Nobody <- None,
  lock <- plock, run <- queue

R == INSTANCE Runner WITH
  Runners <- {"first", "second"}, MaxRuns <- 3, Outer <- "outer", past <- gone

MCInit ==
  /\ Init /\ P!Init /\ R!Init
  /\ part \in {"eager", "queued", "priority", "runner"}
  /\ part # "runner" => wanted = "default"

MCNext ==
  /\ UNCHANGED part
  /\ \/ /\ UNCHANGED <<priorityVars, runnerVars>>
        /\ \/ part = "eager" /\ Next /\ \E c \in Children : at'[c] = "new"
           \/ part = "queued" /\ Queued!Next
     \/ part = "priority" /\ P!Next /\ UNCHANGED <<vars, runnerVars>>
     \/ part = "runner" /\ R!Next /\ UNCHANGED <<vars, priorityVars>>

MCSpec == MCInit /\ [][MCNext]_<<vars, part, priorityVars, runnerVars>>

Symmetry == Permutations(Children)

\* With children that are queued, the block is left only when every child
\* that was spawned has ended, whoever fails, is interrupted or cancels, and
\* the join event is not set over unfinished children, so _join() does not
\* spin; once the group is shutting down each child of it has been told, and a
\* child's error is raised from the block.
QueuedJoinsAll == part = "queued" => JoinsAll /\ NoSpin /\ AbortReaches /\ ErrorsReported

\* The parent is parked in _join() only while a child is there to wake it, and
\* in start() only while its child may still report.
ParentParked == TypeOK /\ JoinParked /\ StartParked

\* The private exception of the group does not leave the block, and an
\* interrupt from outside that the body did not swallow does.  The run() of a
\* runner raises KeyboardInterrupt for a target SIGINT cancelled, and only
\* then; it puts the handler of SIGINT back, and close() the scheduler.
RightException ==
  OursStaysInside /\ InterruptKept /\ R!PutBack /\ R!InterruptTold

\* Whatever priorities, owners and waiters change, the heap of a
\* PriorityRunnableQueue is ordered by the priorities that hold now, and the
\* books of locks and tasks agree (_propagate_priority, on_modified).
PriorityKept == P!HeapFresh /\ P!BooksAgree
=============================================================================
