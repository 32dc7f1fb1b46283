------------------------------ MODULE Readiness ------------------------------
(***************************************************************************)
(* The readiness table behind the tealet versions of poll, select and      *)
(* epoll (readiness.py), for one file descriptor.  One poll_many           *)
(* subscription feeds the bits stored for the fd; every poll, epoll and    *)
(* select object that watches the fd reads them.  A call runs on the       *)
(* scheduler's thread until it parks, so it is one step; the kernel changes *)
(* the fd and posts deliveries at any time, and a delivery may still be on *)
(* its way when its subscription is gone.                                  *)
(*                                                                         *)
(* Masks are sets of bits.  A call that also watches other fds may return  *)
(* for one of them (OtherFd); that is all such fds do to this one.         *)
(***************************************************************************)
EXTENDS Naturals, FiniteSets

CONSTANTS Owners,    \* poll and epoll objects, and callers of select
          Kinds,     \* the functions from Owners to "poll", "epoll", "select"
                     \* that a behaviour may start with
          Modes,     \* Modes[k]: the flags that kind k registers with
          BitSets,   \* the sets of readiness bits a behaviour may be about
          MaxGen     \* bound on the generation of a watch

VARIABLES use,       \* selector: the backend is a SelectorProactor (else uring);
                     \* kind: what each owner is; bits: the readiness bits
          up,        \* the bits the fd has now
          table,     \* the watch of the fd, its registrations, its deliveries
          call,      \* call[o]: where the tealet of o is
          limit,     \* limit[o]: the call of o has a timeout
          report     \* what callers were told: since[o] are the bits that were
                     \* down since o was last told of them; stale and again
                     \* mark a wrong answer; changed are the owners modified
                     \* while their call waits

vars == <<use, up, table, call, limit, report>>

(***************************************************************************)
(* _Reg and _Watch.  `armed` is the mask of the live subscription ({} when *)
(* watch.handle is None); `woken` tells that the fd became ready again     *)
(* since the kernel last posted for it.  A delivery on its way carries the *)
(* generation its closure captured.  `pulsed` are the callers that         *)
(* pulse.set() woke.                                                       *)
(***************************************************************************)
Bits == use.bits

NewReg(interest, m) ==
  [interest |-> interest, edge |-> m.edge, oneshot |-> m.oneshot,
   seen |-> {}, disarmed |-> FALSE, latched |-> FALSE]

NoReg == NewReg({}, [edge |-> FALSE, oneshot |-> FALSE])

NoWatch(T) ==
  [T EXCEPT !.here = FALSE, !.regs = {}, !.stored = {}, !.gen = 0,
            !.armed = {}, !.woken = FALSE, !.error = FALSE]

Parked == {o \in Owners : call[o] = "parked"}

Probe(mask) == up \cap mask

Visible(T, r) ==
  IF r.disarmed \/ ~T.here THEN {}
  ELSE (T.stored \cap r.interest) \ (IF r.edge THEN r.seen ELSE {})

\* Mutant: the delivery is stored, nobody is woken.
MutOnDelivery(T, got) == [T EXCEPT !.stored = @ \cup got]

(***************************************************************************)
(* _on_delivery: bits that were not stored are a new edge; whoever sees a  *)
(* bit is woken by pulse.set().  POLLPRI is believed only when a probe     *)
(* confirms it.                                                            *)
(***************************************************************************)
OnDelivery(T, got) ==
  LET value == (got \ {"pri"}) \cup Probe(got \cap {"pri"})
      fresh(r) == ((value \ T.stored) \cap r.interest) \ r.seen
      stored == T.stored \cup value
      reg == [o \in Owners |->
                IF o \in T.regs /\ ~T.reg[o].disarmed
                THEN [T.reg[o] EXCEPT
                        !.seen = @ \cap stored,
                        !.latched = @ /\ ~(T.reg[o].edge /\ fresh(T.reg[o]) # {})]
                ELSE T.reg[o]]
      U == [T EXCEPT !.stored = stored, !.reg = reg]
  IN IF \E o \in T.regs : Visible(U, reg[o]) # {}
     THEN [U EXCEPT !.pulsed = @ \cup Parked] ELSE U

Disarm(T) ==
  IF T.armed = {} THEN T
  ELSE [T EXCEPT !.gen = @ + 1, !.armed = {}, !.woken = FALSE]

\* A selector subscription looks at the fd at once and delivers on the same
\* stack; a uring poll posts for an fd that is ready when it is armed.
PollMany(T, mask) ==
  LET ready == Probe(mask) # {}
      U == IF use.selector /\ ready THEN OnDelivery(T, Probe(mask)) ELSE T
  IN [U EXCEPT !.armed = mask, !.woken = ~use.selector /\ ready]

EnsureArmed(T) ==
  LET mask == UNION {T.reg[o].interest : o \in {q \in T.regs : ~T.reg[q].disarmed}}
  IN IF ~T.here \/ (T.armed # {} /\ T.armed = mask) THEN T
     ELSE IF mask = {} THEN Disarm(T)
     ELSE PollMany(Disarm(T), mask)

NoteInterest(T) ==
  LET U == EnsureArmed(T)
  IN IF use.selector /\ T.waits = 0 THEN Disarm(U) ELSE U

AddReg(T, o, reg) ==
  NoteInterest([T EXCEPT !.here = TRUE, !.regs = @ \cup {o}, !.reg[o] = reg])

RemoveOwner(T, o, keepShell) ==
  LET U == [T EXCEPT !.regs = @ \ {o}]
  IN IF ~T.here THEN T
     ELSE IF U.regs # {} THEN NoteInterest(U)
     ELSE IF keepShell THEN Disarm(U)
     ELSE NoWatch(U)

FinishEphemeral(T, o) ==
  LET U == RemoveOwner(T, o, TRUE)
  IN IF ~T.here \/ o \notin T.regs THEN T
     ELSE IF ~use.selector /\ U.regs # {} THEN EnsureArmed(U) ELSE U

(***************************************************************************)
(* wait().  _revalidate asks the fd about stored bits that a level         *)
(* registration would report, and about the edge the caller has seen.      *)
(***************************************************************************)
Drop(T, mask) ==
  LET stored == (T.stored \ mask) \cup Probe(mask)
  IN [T EXCEPT !.stored = stored,
               !.reg = [o \in Owners |->
                          IF o \in T.regs THEN [T.reg[o] EXCEPT !.seen = @ \cap stored]
                          ELSE T.reg[o]]]

\* Mutant: what is stored is believed.
MutRevalidateLevel(T) == T

RevalidateLevel(T) ==
  LET mask == UNION {T.stored \cap T.reg[o].interest :
                       o \in {q \in T.regs : ~T.reg[q].edge /\ ~T.reg[q].disarmed}}
  IN IF mask = {} THEN T ELSE Drop(T, mask)

Revalidate(T, o) ==
  LET U == RevalidateLevel([T EXCEPT !.reg[o].latched = FALSE])
      mask == U.reg[o].seen \cap U.reg[o].interest
  IN IF ~T.here THEN [T EXCEPT !.reg[o].latched = FALSE]
     ELSE IF ~U.reg[o].edge \/ mask = {} THEN U
     ELSE IF Probe(mask) # {} THEN [U EXCEPT !.reg[o].latched = TRUE]
     ELSE [U EXCEPT !.reg[o].seen = @ \ mask, !.stored = @ \ mask]

ProbeEmpty(T, o) ==
  LET r == T.reg[o]
  IN IF \/ r.disarmed \/ r.latched \/ ~T.here
        \/ r.edge /\ r.seen # {}
        \/ T.stored \cap r.interest # {}
     THEN T ELSE Drop(T, r.interest)

Commit(T, o) ==
  LET r == T.reg[o]
      U == [T EXCEPT !.reg[o].seen = IF r.edge THEN @ \cup Visible(T, r) ELSE @,
                     !.reg[o].latched = @ \/ r.edge,
                     !.reg[o].disarmed = @ \/ r.oneshot]
  IN IF ~use.selector /\ r.oneshot THEN EnsureArmed(U) ELSE U

\* Mutant: every wait drops the subscription on its way out.
MutLeave(T, o) ==
  LET U == IF use.selector THEN Disarm([T EXCEPT !.waits = @ - 1]) ELSE T
  IN IF use.kind[o] = "select" THEN FinishEphemeral(U, o) ELSE U

\* The way out: the last wait on the fd drops a selector subscription, and
\* select() takes its registration back.  Uring never reads _fd_waits.
Leave(T, o) ==
  LET U == IF ~use.selector THEN T
           ELSE IF T.waits > 1 THEN [T EXCEPT !.waits = @ - 1]
           ELSE Disarm([T EXCEPT !.waits = 0])
  IN IF use.kind[o] = "select" THEN FinishEphemeral(U, o) ELSE U

Return(T, o, bits, atOnce) ==
  /\ call' = [p \in Owners |-> IF p = o THEN "out"
                                ELSE IF p \in T.pulsed THEN "woken" ELSE call[p]]
  /\ table' = [T EXCEPT !.pulsed = {}, !.reg[o] = IF o \in T.regs THEN @ ELSE NoReg]
  /\ limit' = [limit EXCEPT ![o] = FALSE]
  /\ report' = [since |-> [report.since EXCEPT ![o] = IF T.reg[o].edge THEN (@ \ bits) \cup (Bits \ up) ELSE @],
                stale |-> report.stale \/ (atOnce /\ ~T.reg[o].edge /\ ~(bits \subseteq up)),
                changed |-> report.changed \ {o},
                again |-> report.again \/ (T.reg[o].edge /\ ~(bits \subseteq report.since[o]))]

\* _commit of what _collect found, or the error, or nothing.
Finish(T, o, atOnce) ==
  LET bits == Visible(T, T.reg[o])
  IN Return(Leave(IF bits # {} THEN Commit(T, o) ELSE T, o), o, bits, atOnce)

Found(T, o) ==
  Visible(T, T.reg[o]) # {} \/ (T.here /\ T.error /\ ~T.reg[o].disarmed)

Park(T, o, where, timed) ==
  /\ call' = [p \in Owners |-> IF p = o THEN where
                                ELSE IF p \in T.pulsed THEN "woken" ELSE call[p]]
  /\ table' = [T EXCEPT !.pulsed = {}]
  /\ limit' = [limit EXCEPT ![o] = timed]
  /\ UNCHANGED report

Wait(T, o, timeout) ==
  LET V == Revalidate([T EXCEPT !.waits = IF use.selector THEN @ + 1 ELSE @], o)
      needsArm == ~V.reg[o].disarmed /\ ~V.reg[o].latched
      A == IF needsArm THEN EnsureArmed(V) ELSE V
  IN \/ /\ Visible(V, V.reg[o]) # {} \/ timeout = "zero" \/ Found(V, o)
        /\ Finish(IF timeout = "zero" /\ Visible(V, V.reg[o]) = {}
                  THEN ProbeEmpty(V, o) ELSE V, o, TRUE)
     \/ /\ ~Found(V, o) /\ timeout # "zero"
        /\ needsArm /\ Found(A, o)
        /\ Finish(A, o, TRUE)
     \/ /\ ~Found(V, o) /\ timeout # "zero"
        /\ ~(needsArm /\ Found(A, o))
        /\ Park(A, o, IF needsArm \/ timeout = "never" THEN "parked" ELSE "asleep",
                timeout = "some")

(***************************************************************************)
(* The operations of the objects.                                          *)
(***************************************************************************)
Room == table.gen + 2 =< MaxGen
Registered(o) == use.kind[o] # "select" /\ o \in table.mine

\* A step on the table alone: the callers it woke are no longer parked.
Apply(T) ==
  /\ table' = [T EXCEPT !.pulsed = {}]
  /\ call' = [p \in Owners |-> IF p \in T.pulsed THEN "woken" ELSE call[p]]
  /\ UNCHANGED <<use, up, limit>>

\* Poll.register overwrites; Epoll.register refuses an fd it has (EEXIST).
PollRegister(o) ==
  /\ Room /\ use.kind[o] = "poll" /\ call[o] = "out"
  /\ \E m \in Modes.poll, interest \in (SUBSET Bits) \ {{}} :
       Apply(AddReg([table EXCEPT !.mine = @ \cup {o}], o, NewReg(interest, m)))
  /\ report' = [report EXCEPT !.since[o] = Bits]

EpollRegister(o) ==
  /\ Room /\ use.kind[o] = "epoll" /\ call[o] = "out" /\ o \notin table.mine
  /\ \E m \in Modes.epoll, interest \in (SUBSET Bits) \ {{}} :
       Apply(AddReg([table EXCEPT !.mine = @ \cup {o}], o, NewReg(interest, m)))
  /\ report' = [report EXCEPT !.since[o] = Bits]

\* modify() rewrites the registration in place, also under a call that waits.
Rewrite(o, interest, m) ==
  /\ Apply(NoteInterest([table EXCEPT !.reg[o] = NewReg(interest, m)]))
  /\ report' = [report EXCEPT !.since[o] = Bits,
                              !.changed = IF call[o] = "out" THEN @ ELSE @ \cup {o}]

PollModify(o) ==
  /\ Room /\ use.kind[o] = "poll" /\ Registered(o)
  /\ \E interest \in (SUBSET Bits) \ {{}} : Rewrite(o, interest, table.reg[o])

EpollModify(o) ==
  /\ Room /\ use.kind[o] = "epoll" /\ Registered(o)
  /\ \E m \in Modes.epoll, interest \in (SUBSET Bits) \ {{}} : Rewrite(o, interest, m)

\* unregister(), and close() of an object that watches this fd.
Unregister(o) ==
  /\ Room /\ Registered(o)
  /\ Apply(RemoveOwner([table EXCEPT !.mine = @ \ {o},
                                     !.reg[o] = IF call[o] = "out" THEN NoReg ELSE @],
                       o, FALSE))
  /\ report' = [report EXCEPT !.since[o] = IF call[o] = "out" THEN Bits ELSE @]

Poll(o) ==
  /\ Room /\ Registered(o) /\ call[o] = "out"
  /\ \E timeout \in {"zero", "some", "never"} : Wait(table, o, timeout)
  /\ UNCHANGED <<use, up>>

Select(o) ==
  /\ Room /\ use.kind[o] = "select" /\ call[o] = "out"
  /\ \E m \in Modes[use.kind[o]], interest \in (SUBSET Bits) \ {{}},
        timeout \in {"zero", "some", "never"} :
       Wait(AddReg(table, o, NewReg(interest, m)), o, timeout)
  /\ UNCHANGED <<use, up>>

\* sweep_shells() of a select that does not watch this fd.
SweepShells ==
  /\ table.here /\ table.regs = {}
  /\ Apply(NoWatch(table))
  /\ UNCHANGED report

\* swait_for(): a woken caller looks again and parks again when it finds
\* nothing.
Resume(o) ==
  /\ call[o] = "woken"
  /\ IF Found(table, o) THEN Finish(table, o, FALSE)
     ELSE Park(table, o, "parked", limit[o])
  /\ UNCHANGED <<use, up>>

\* The timeout, an event of another fd, or an exception thrown in.
Expire(o) ==
  /\ call[o] # "out" /\ (limit[o] \/ call[o] = "asleep")
  /\ Finish(table, o, FALSE)
  /\ UNCHANGED <<use, up>>

OtherFd(o) ==
  /\ call[o] \in {"parked", "woken"}
  /\ Return(Leave(table, o), o, {}, FALSE)
  /\ UNCHANGED <<use, up>>

(***************************************************************************)
(* The fd and its subscription.  A uring multishot poll posts once for     *)
(* each time the fd is woken; its wake key may carry POLLPRI.  A selector  *)
(* delivers as long as it finds the fd ready.                              *)
(***************************************************************************)
Rise(b) ==
  /\ up' = up \cup {b}
  /\ table' = [table EXCEPT !.woken = @ \/ (~use.selector /\ b \in table.armed)]
  /\ (b \notin up \/ table' # table)
  /\ UNCHANGED <<use, call, limit, report>>

Fall(b) ==
  /\ b \in up
  /\ up' = up \ {b}
  /\ report' = [report EXCEPT !.since = [o \in Owners |-> @[o] \cup {b}]]
  /\ UNCHANGED <<use, table, call, limit>>

Post ==
  /\ table.armed # {}
  /\ IF use.selector THEN Probe(table.armed) # {} ELSE table.woken
  /\ LET key == IF use.selector THEN Probe(table.armed)
                ELSE Probe(table.armed) \cup (table.armed \cap {"pri"})
         posts == IF Probe(table.armed) = {} THEN {}
                  ELSE {[gen |-> table.gen, bits |-> key]}
     IN table' = [table EXCEPT !.woken = FALSE, !.flight = @ \cup posts]
  /\ table' # table
  /\ UNCHANGED <<use, up, call, limit, report>>

\* on_delivery drops what another generation posted.
Deliver(d) ==
  /\ d \in table.flight
  /\ LET T == [table EXCEPT !.flight = @ \ {d}]
     IN Apply(IF T.here /\ T.gen = d.gen THEN OnDelivery(T, d.bits) ELSE T)
  /\ UNCHANGED report

\* The subscription ends with an error: the watch keeps it.
Fail ==
  /\ table.armed # {} /\ ~table.error
  /\ Apply([table EXCEPT !.error = TRUE, !.pulsed = Parked])
  /\ UNCHANGED report

Uses == [selector : BOOLEAN, kind : Kinds, bits : BitSets]

Init ==
  /\ use \in Uses
  /\ up = {}
  /\ table = [here |-> FALSE, regs |-> {}, stored |-> {}, gen |-> 0, armed |-> {},
              woken |-> FALSE, error |-> FALSE, waits |-> 0, mine |-> {},
              reg |-> [o \in Owners |-> NoReg],
              flight |-> {}, pulsed |-> {}]
  /\ call = [o \in Owners |-> "out"]
  /\ limit = [o \in Owners |-> FALSE]
  /\ report = [since |-> [o \in Owners |-> Bits], stale |-> FALSE, again |-> FALSE,
               changed |-> {}]

Next ==
  \/ \E o \in Owners : \/ PollRegister(o) \/ EpollRegister(o)
                       \/ PollModify(o) \/ EpollModify(o) \/ Unregister(o) \/ Poll(o)
                       \/ Select(o) \/ Resume(o) \/ Expire(o) \/ OtherFd(o)
  \/ \E b \in Bits : Rise(b) \/ Fall(b)
  \/ \E d \in table.flight : Deliver(d)
  \/ SweepShells \/ Post \/ Fail

Spec == Init /\ [][Next]_vars

(***************************************************************************)
(* Properties.                                                             *)
(***************************************************************************)

\* Between steps a selector subscription is up only while a call waits on
\* the fd, so that the next recv finds its slot free; and a parked call
\* of a level-triggered registration is covered by the live subscription,
\* whatever the other objects of the fd did since it parked.
ArmsCover ==
  /\ table.armed # {} => table.here /\ (use.selector => table.waits > 0)
  /\ use.selector => table.waits = Cardinality({o \in Owners : call[o] # "out"})
  /\ \A o \in Owners :
       /\ call[o] = "parked" /\ o \in table.regs
       /\ ~table.reg[o].disarmed /\ ~table.reg[o].edge
       => table.reg[o].interest \subseteq table.armed

\* A level-triggered call that does not park reports only bits the fd has
\* (the probe of _revalidate), and an edge is told once: a bit is told to
\* an edge registration again only when it was down in between.
AnswersTrue == ~report.stale /\ ~report.again

\* A call that is parked for a level-triggered bit the fd has will be woken:
\* the selector finds the fd ready, or the kernel's post is due, or on its way
\* with the generation that _on_delivery() accepts.  A registration that
\* another tealet modifies while the call waits is left out: modify() of bits
\* that are stored already wakes nobody.
WakesDue ==
  \A o \in Owners :
    LET r == table.reg[o] IN
    /\ call[o] = "parked" /\ o \in table.regs \ report.changed
    /\ ~r.edge /\ ~r.disarmed /\ ~table.error /\ r.interest \cap up # {}
    => \/ use.selector \/ table.woken
       \/ \E d \in table.flight : d.gen = table.gen /\ d.bits \cap r.interest # {}
=============================================================================
