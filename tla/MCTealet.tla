------------------------------ MODULE MCTealet ------------------------------
(***************************************************************************)
(* Small instances, for TLC, of Tealet and of the greenlets on top of it   *)
(* (Greenlet).  The initial state picks whether the program throws, or     *)
(* also queues exceptions with set_pending_exception() and has a trace     *)
(* hook, or uses greenlets.                                                *)
(***************************************************************************)
EXTENDS Tealet, TLC

CONSTANTS w1, w2

VARIABLES part, gr, running, act, pins, heap

greenletVars == <<gr, running, act, pins, heap>>
mcVars == <<vars, part, greenletVars>>

Queue == INSTANCE Tealet WITH Queueing <- TRUE, MaxTokens <- 2
G == INSTANCE Greenlet WITH Others <- Workers, MaxDepth <- 3, current <- running

MCInit ==
  /\ Init /\ G!Init
  /\ part \in IF trace THEN {"queue", "greenlet"} ELSE {"throw"}

Switches ==
  /\ \/ part = "throw" /\ Next
     \/ part = "queue" /\ Queue!Next
  /\ UNCHANGED <<part, greenletVars>>

Emulates == part = "greenlet" /\ G!Next /\ UNCHANGED <<vars, part>>

MCNext == Switches \/ Emulates

MCSpec == MCInit /\ [][MCNext]_mcVars

Symmetry == Permutations(Workers)

\* Where nothing is queued, an exception is raised in the tealet it was thrown
\* at, whichever tealets run in between.
ThrowsDelivered == part = "throw" => DeliveredToTarget

\* The types are kept, and the registry holds exactly the records that a
\* pending or in-flight token names.
RegistryKept == TypeOK /\ RegistryExact

\* A tealet that has ended never gets control again; and where nothing is
\* queued, one that dies of what was thrown at it gives control to the fallback
\* of that throw, and one that dies of an exception it made itself to main.
DeathsRedirect ==
  [][ExitKept /\ (part = "throw" => GoesBack /\ GoesToMain)]_mcVars

\* The bookkeeping of greenlets is exact: parents, pins and garbage guard,
\* whoever resumes the calls of switch() and throw() that wait.
BooksKept == G!BooksKept
=============================================================================
