------------------------- MODULE MCSelectorProactor -------------------------
(***************************************************************************)
(* Small instances, for TLC, of the selector proactor and of the readiness *)
(* table of poll, epoll and select (Readiness), on one descriptor.  The    *)
(* initial state picks what a behaviour is about: a set of operations that *)
(* the program starts on the proactor, or no operation and the objects of  *)
(* the table.  The variables of the other stay at their first value.       *)
(***************************************************************************)
EXTENDS SelectorProactor, TLC

CONSTANTS
  fd, recv, many, polls, poll2, conn, s1, s2, s3, shut,
  Programs, \* sets of operations
  pollObject, other

VARIABLES program, use, up, watches, call, limit, report

readinessVars == <<use, up, watches, call, limit, report>>
mcVars == <<vars, program, readinessVars>>

OpKind ==
  recv :> "recv" @@ many :> "recvmany" @@ polls :> "pollmany" @@ poll2 :> "poll"
    @@ conn :> "connect" @@ s1 :> "send" @@ s2 :> "send" @@ s3 :> "send"
    @@ shut :> "sync"
OpFd == [o \in DOMAIN OpKind |-> fd]
OpUnits == [o \in DOMAIN OpKind |-> IF o = s1 THEN 2 ELSE 1]

\* A poll object shares the descriptor with an epoll object, or with a
\* caller of select(); the kernel's POLLPRI, which a probe has to confirm, is
\* that of uring.
Flags(edge, oneshot) == [edge |-> edge, oneshot |-> oneshot]
R == INSTANCE Readiness WITH
       Owners <- {pollObject, other},
       Kinds <- {pollObject :> "poll" @@ other :> k : k \in {"epoll", "select"}},
       Modes <- [poll |-> {Flags(FALSE, FALSE)}, select |-> {Flags(FALSE, FALSE)},
                 epoll |-> {Flags(TRUE, FALSE), Flags(FALSE, TRUE)}],
       BitSets <- {{"in"}, {"pri"}},
       MaxGen <- 3, table <- watches

MCInit ==
  /\ Init /\ R!Init
  /\ \/ program \in Programs /\ use = CHOOSE u \in R!Uses : TRUE
     \/ program = {} /\ (use.selector => use.bits = {"in"})

Operates ==
  /\ Next
  /\ \A o \in Ops \ program : status'[o] = "idle"
  /\ UNCHANGED <<program, readinessVars>>

Watches == program = {} /\ R!Next /\ UNCHANGED <<vars, program>>

MCNext == (program # {} /\ Operates) \/ Watches

MCSpec == MCInit /\ [][MCNext]_mcVars

\* The callback of an operation has one last result, whether it completes, is
\* cancelled by either thread, or both at once; and when no call is under way
\* an operation that has had none is in the table, to get it.  Whenever the
\* lock is free the selector and the queues of writes agree with the table.
OneResultEach == TypeOK /\ OneResult /\ NothingLost /\ TableExact

\* The writes of a descriptor reach the kernel in the order they were called,
\* and a send is not refused because another is in flight.
SendsInOrder == WritesInOrder /\ SendsQueue

\* The objects of a descriptor share one subscription: it covers every call
\* that is parked, and on a selector it is up only while a call waits.
SubscriptionCovers == R!ArmsCover

\* poll(), epoll and select() tell the truth: no bit that _revalidate() would
\* have dropped, and no edge twice.
AnswersTrue == R!AnswersTrue

\* A call parked for a level-triggered bit that the descriptor has is woken.
WakesDue == R!WakesDue
=============================================================================
