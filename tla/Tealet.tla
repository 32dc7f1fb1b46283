------------------------------- MODULE Tealet -------------------------------
(***************************************************************************)
(* The _tealet extension (pytealet.c, pytealet_throw.c): the tealets of one *)
(* thread, how control passes between them, and how an exception thrown at *)
(* one of them travels.                                                    *)
(*                                                                         *)
(* One tealet runs at a time, so a step is one call of the running tealet, *)
(* up to the point where control arrives at the next one.  What the code   *)
(* in a tealet does is left open: it may call any operation, return, or    *)
(* raise an exception it was given or one of its own.                      *)
(***************************************************************************)
EXTENDS Naturals, FiniteSets

CONSTANTS
  Main,       \* the main tealet of the thread
  Workers,    \* the other wrappers
  None,       \* no tealet, no exception
  MaxTokens,  \* bound: throw tokens handed out
  Queueing    \* set_pending_exception() is called on its own

ASSUME MainAssumption == Main \notin Workers /\ None \notin Workers \cup {Main}
ASSUME BoundsAssumption == MaxTokens \in Nat /\ Queueing \in BOOLEAN

Tealets == Workers \cup {Main}

\* SystemExit and KeyboardInterrupt; all others, of which TealetExit is the
\* one that is not reported when a tealet dies of it.
Kinds == {"system", "error"}

\* An exception object: a thrown one has the number of its first token.
Exceptions == [id : 0 .. MaxTokens, kind : Kinds]

OwnError == [id |-> 0, kind |-> "error"]

VARIABLES
  state,     \* the state of each wrapper; "none" before it exists
  current,   \* the running tealet
  registry,  \* the throw registry of the thread's main data
  doomed,    \* the exception raised at the entry of the running tealet
  held,      \* the exceptions the code of each tealet was given
  trace,     \* the trace hook is installed
  kill       \* a thread_kill() in progress

vars == <<state, current, registry, doomed, held, trace, kill>>

\* PYTEALET_STATE_IS_SWITCHABLE
Switchable(st, t) == st[t] \in {"run", "primed"}

(***************************************************************************)
(* The registry.  A record has the exception and the fallback.  History:   *)
(* "for", the target a record was queued for; "astray", one was raised in  *)
(* another tealet; "thrown", the throw each tealet has yet to answer for.  *)
(***************************************************************************)

NoRecords == [k \in {} |-> None]

NoThrow == [exc |-> None, fallback |-> None]

Drop(records, gone) == [k \in DOMAIN records \ gone |-> records[k]]

\* pytealet_set_pending_exception_inner(): it replaces what is pending, and
\* what the target is handling.
SetPendingIn(r, t, e, fallback) ==
  LET kept == Drop(r.records, {r.pending, r.inflight[t]})
      rec == [exc |-> e, fallback |-> IF fallback = t THEN None ELSE fallback,
              for |-> t]
  IN [r EXCEPT !.records = [k \in DOMAIN kept \cup {r.next} |->
                              IF k = r.next THEN rec ELSE kept[k]],
               !.pending = r.next,
               !.inflight[t] = 0,
               !.thrown[t] = NoThrow,
               !.next = @ + 1]

\* PyTealetThrow_ClearPendingException(), ..._TakePendingException()
ClearPending(r) ==
  [r EXCEPT !.pending = 0, !.records = Drop(@, {r.pending})]

\* History: the pending exception is raised in t.
Noted(r, t) ==
  LET rec == r.records[r.pending] IN
  [r EXCEPT !.astray = @ \/ rec.for # t,
            !.thrown[t] = [exc |-> rec.exc, fallback |-> rec.fallback]]

\* PyTealetThrow_MaybeRaisePending() in tealet t: with a fallback the record
\* stays, as the throw that t handles.
Deliver(r, t) ==
  IF r.pending = 0 THEN r
  ELSE IF r.records[r.pending].fallback = None THEN ClearPending(Noted(r, t))
  ELSE [Noted(r, t) EXCEPT !.pending = 0,
                           !.inflight[t] = r.pending,
                           !.records = Drop(@, {r.inflight[t]})]

\* PyTealetThrow_TakeRedirectTarget(): the fallback of the throw that t
\* handles, if the exception it dies of comes from it.
RedirectTarget(r, t, chain) ==
  LET k == r.inflight[t]
      f == IF k \in DOMAIN r.records /\ r.records[k].exc \in chain
           THEN r.records[k].fallback ELSE None
  IN IF f # None /\ Switchable(state, f) THEN f ELSE None

\* A mutant: the record stays.
MutTakeInflight(r, t) == [r EXCEPT !.inflight[t] = 0, !.thrown[t] = NoThrow]

TakeInflight(r, t) ==
  [r EXCEPT !.inflight[t] = 0, !.records = Drop(@, {r.inflight[t]}),
            !.thrown[t] = NoThrow]

NoKill == [by |-> None, todo |-> {}]

Init ==
  /\ state = [t \in Tealets |-> IF t = Main THEN "run" ELSE "none"]
  /\ current = Main
  /\ registry = [pending |-> 0, next |-> 1, records |-> NoRecords,
                 inflight |-> [t \in Tealets |-> 0],
                 astray |-> FALSE,
                 thrown |-> [t \in Tealets |-> NoThrow]]
  /\ doomed = None
  /\ held = [t \in Tealets |-> {}]
  /\ trace \in BOOLEAN
  /\ kill = NoKill

\* The code of the running tealet may act: it is not in thread_kill(), and
\* was not entered with an exception.
Free == doomed = None /\ kill.by # current

(***************************************************************************)
(* Making wrappers.                                                        *)
(***************************************************************************)

SetState(t, s) ==
  /\ state' = [state EXCEPT ![t] = s]
  /\ UNCHANGED <<current, registry, doomed, held, trace, kill>>

New(t) == Free /\ state[t] = "none" /\ SetState(t, "new")

Stub(t) == Free /\ state[t] = "new" /\ SetState(t, "stub")

\* duplicate(), and set_stub() of a new wrapper.
Duplicate(t, source) ==
  /\ Free
  /\ \/ state[t] = "none" /\ state[source] \in {"new", "stub"}
     \/ state[t] = "new" /\ state[source] = "stub"
  /\ SetState(t, state[source])

Prime(t) == Free /\ state[t] \in {"new", "stub"} /\ SetState(t, "primed")

(***************************************************************************)
(* Passing control.                                                        *)
(***************************************************************************)

\* What the tealets have been given, when e is given to t.
Given(st, t, e) ==
  [u \in Tealets |-> IF st[u] = "exit" THEN {}
                     ELSE IF u = t THEN held[u] \cup ({e} \ {None}) ELSE held[u]]

\* The pending exception, None without.
Pending(r) == IF r.pending = 0 THEN None ELSE r.records[r.pending].exc

\* It is raised where t is resumed, or before the function of t is called.
Raised(st, r, t) ==
  /\ registry' = Deliver(r, t)
  /\ held' = Given(st, t, Pending(r))
  /\ doomed' = IF st[t] # "run" THEN Pending(r) ELSE None
  /\ UNCHANGED trace

\* The trace hook raised: its own error is raised instead, and the hook is
\* removed.
TraceRaised(st, r, t) ==
  /\ trace /\ trace' = FALSE
  /\ registry' = r
  /\ held' = Given(st, t, None)
  /\ doomed' = IF st[t] # "run" THEN OwnError ELSE None

\* Control arrives at t.
Arrive(st, r, t) ==
  /\ current' = t
  /\ state' = [st EXCEPT ![t] = "run"]
  /\ Raised(st, r, t) \/ TraceRaised(st, r, t)

\* A mutant: the exception stays pending, for whoever runs next.
MutArriveFails(r) ==
  /\ registry' = r
  /\ UNCHANGED <<state, current, doomed, held, trace>>

\* A switch with panic=True: PanicError takes the pending exception with it.
ArrivePanic(r, t) ==
  /\ current' = t
  /\ registry' = ClearPending(r)
  /\ held' = Given(state, t, Pending(r))
  /\ UNCHANGED <<state, doomed, trace>>

\* The switch failed: what was pending is dropped, the caller goes on.
ArriveFails(r) ==
  /\ registry' = ClearPending(r)
  /\ UNCHANGED <<state, current, doomed, held, trace>>

Run(t) ==
  /\ Free /\ state[t] \in {"new", "stub"}
  /\ Arrive(state, registry, t) \/ ArriveFails(registry)
  /\ UNCHANGED kill

Switch(t) ==
  /\ Free /\ Switchable(state, t)
  /\ \/ Arrive(state, registry, t)
     \/ state[t] = "run" /\ ArrivePanic(registry, t)
     \/ ArriveFails(registry)
  /\ UNCHANGED kill

\* A fallback is a tealet that can be switched to.
Fallbacks == {f \in Tealets : Switchable(state, f)} \cup {None}

SetPendingException(t, kind, f) ==
  /\ Queueing /\ Free
  /\ state[t] \notin {"none", "exit"} /\ registry.next <= MaxTokens
  /\ registry' = SetPendingIn(registry, t, [id |-> registry.next, kind |-> kind], f)
  /\ UNCHANGED <<state, current, doomed, held, trace, kill>>

\* throw(): set_pending_exception(), and switch() or run() at once.
ThrowAt(t, kind, f) ==
  LET r == SetPendingIn(registry, t, [id |-> registry.next, kind |-> kind], f) IN
  \/ Arrive(state, r, t)
  \/ state[t] = "run" /\ ArrivePanic(r, t)
  \/ ArriveFails(r)

Throw(t, kind, f) ==
  /\ Free
  /\ state[t] \notin {"none", "exit"} /\ registry.next <= MaxTokens
  /\ ThrowAt(t, kind, f)
  /\ UNCHANGED kill

(***************************************************************************)
(* The end of a tealet (pytealet_main, resolve_target).                    *)
(***************************************************************************)

Exited == [state EXCEPT ![current] = "exit"]

\* The function returned a tealet to go on with; main, if it cannot be.
Return(t) ==
  /\ Free /\ current # Main
  /\ Arrive(Exited, registry,
            IF t # current /\ Switchable(state, t) THEN t ELSE Main)
  /\ UNCHANGED kill

\* A mutant: it always ends in main.
MutDiesOf(e, chain) ==
  Arrive(Exited, TakeInflight(registry, current), Main)

\* It raised e, with the exceptions of chain behind it.
DiesOf(e, chain) ==
  LET f == RedirectTarget(registry, current, chain)
      r == TakeInflight(registry, current)
  IN IF e.kind = "system"
     THEN /\ registry.next <= MaxTokens
          /\ Arrive(Exited, SetPendingIn(r, Main, e, None), Main)
     ELSE Arrive(Exited, r, IF f \in {None, current} THEN Main ELSE f)

\* An exception it was given, or one of its own raised while it handled
\* some of those.  Next looks at chains of two: one registered exception is
\* all that a redirection looks for.
Raise(e, chain) ==
  /\ current # Main /\ kill.by # current
  /\ IF doomed # None THEN e = doomed /\ chain = {e}
     ELSE \/ e \in held[current] /\ e \in chain
          \/ e.id = 0
  /\ chain \subseteq held[current] \cup {e}
  /\ DiesOf(e, chain)
  /\ UNCHANGED kill

(***************************************************************************)
(* thread_kill(), one pass.  What a throw of it raises is reported, and    *)
(* the loop goes on.                                                       *)
(***************************************************************************)

ThreadKill ==
  /\ Free /\ kill = NoKill
  /\ kill' = [by |-> current,
              todo |-> {t \in Workers \ {current} : state[t] = "run"}]
  /\ UNCHANGED <<state, current, registry, doomed, held, trace>>

KillOne(t) ==
  /\ kill.by = current /\ t \in kill.todo
  /\ registry.next <= MaxTokens
  /\ kill' = [kill EXCEPT !.todo = @ \ {t}]
  /\ IF Switchable(state, t) THEN ThrowAt(t, "error", current)
     ELSE UNCHANGED <<state, current, registry, doomed, held, trace>>

KillEnds ==
  /\ kill.by = current /\ kill.todo = {}
  /\ kill' = NoKill
  /\ UNCHANGED <<state, current, registry, doomed, held, trace>>

Next ==
  \/ \E t \in Workers : New(t) \/ Stub(t) \/ Prime(t) \/ Run(t)
  \/ \E t, s \in Workers : Duplicate(t, s)
  \/ \E t \in Tealets :
       \/ Switch(t) \/ Return(t) \/ KillOne(t)
       \/ \E kind \in Kinds, f \in Fallbacks :
            SetPendingException(t, kind, f) \/ Throw(t, kind, f)
  \/ \E e \in held[current] \cup [id : {0}, kind : Kinds] :
       \E behind \in {{}} \cup {{x} : x \in held[current]} : Raise(e, {e} \cup behind)
  \/ ThreadKill \/ KillEnds

Spec == Init /\ [][Next]_vars

(***************************************************************************)
(* Properties.                                                             *)
(***************************************************************************)

TypeOK ==
  /\ state \in [Tealets -> {"none", "new", "stub", "primed", "run", "exit"}]
  /\ current \in Tealets
  /\ registry.pending \in 0 .. MaxTokens /\ registry.next \in 1 .. MaxTokens + 1
  /\ registry.inflight \in [Tealets -> 0 .. MaxTokens]
  /\ DOMAIN registry.records \subseteq 1 .. MaxTokens
  /\ doomed \in Exceptions \cup {None}
  /\ held \in [Tealets -> SUBSET Exceptions]
  /\ trace \in BOOLEAN

\* A tealet that has ended stays so: whatever is returned, raised or thrown,
\* and whenever it was chosen, control never goes back to it.
ExitKept ==
  \A t \in Tealets : state[t] = "exit" => state'[t] = "exit" /\ current' # t

\* The registry holds no record that nothing refers to, and no slot refers
\* to a record that is gone or to one of another slot.
RegistryExact ==
  LET slots == {t \in Tealets : registry.inflight[t] # 0} IN
  /\ DOMAIN registry.records =
       ({registry.pending} \cup {registry.inflight[t] : t \in slots}) \ {0}
  /\ \A t \in slots : registry.inflight[t] # registry.pending
  /\ \A t, u \in slots : registry.inflight[t] = registry.inflight[u] => t = u

\* A thrown exception is raised in the tealet it was thrown at, whichever
\* tealets run in between.
DeliveredToTarget == ~registry.astray

\* A tealet that dies of what was thrown at it gives control to the fallback
\* of that throw, if that can still be switched to.
GoesBack ==
  \A e \in held[current] :
    LET f == registry.thrown[current].fallback IN
    /\ Raise(e, {e}) /\ e = registry.thrown[current].exc /\ e.kind # "system"
    /\ f # None /\ Switchable(state, f)
    => current' = f

\* An exception the tealet makes itself, with nothing behind it, goes to
\* main: a throw it has dealt with does not divert it.
GoesToMain == Raise(OwnError, {}) => current' = Main
=============================================================================
