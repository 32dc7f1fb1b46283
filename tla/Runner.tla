------------------------------- MODULE Runner -------------------------------
(***************************************************************************)
(* Runner and BaseRunner (runner.py): what run() and close() do to the two *)
(* things a program has one of, its current scheduler and its handler of   *)
(* SIGINT.  The runners are used on the main thread, one run() at a time;  *)
(* SIGINT arrives between any two steps.  How close() ends the tasks is in *)
(* Hosting.                                                                *)
(***************************************************************************)
EXTENDS Naturals

CONSTANTS Runners, MaxRuns, Outer

VARIABLES
  runner,   \* _initialized, _closed, _previous_scheduler, _interrupt_count, and
            \* phase: where run() is; saved: the handler it found, or "none"
  current,  \* the current scheduler: Outer's, or the one of a runner
  handler,  \* of SIGINT: "default", "asyncio", "user", or a runner's
  wanted,   \* the one the program set last
  target,   \* the Future of run(): "live", "asked" (to cancel), "done"
  call,     \* of the last run(): how it ended, and whether SIGINT cancelled it
  runs,     \* the calls of run() so far
  past      \* history: gap: SIGINT came between the handler and the try block,
            \* or after it; mixed: a runner was closed before a later one

vars == <<runner, current, handler, wanted, target, call, runs, past>>

Init ==
  /\ runner = [r \in Runners |->
                 [initialized |-> FALSE, closed |-> FALSE, previous |-> Outer,
                  count |-> 0, phase |-> "idle", saved |-> "none"]]
  /\ current = Outer
  /\ wanted \in {"default", "asyncio", "user"} /\ handler = wanted
  /\ target = "done"
  /\ call = [how |-> "none", interrupted |-> FALSE]
  /\ runs = 0
  /\ past = [gap |-> FALSE, mixed |-> FALSE]

Idle == \A r \in Runners : runner[r].phase = "idle"

\* _lazy_init()
Initialized(r) ==
  IF runner[r].initialized THEN runner[r]
  ELSE [runner[r] EXCEPT !.initialized = TRUE, !.previous = current]

\* __enter__() or get_scheduler()
Enter(r) ==
  /\ Idle /\ ~runner[r].closed /\ ~runner[r].initialized
  /\ runner' = [runner EXCEPT ![r] = Initialized(r)]
  /\ current' = r
  /\ UNCHANGED <<handler, wanted, target, call, runs, past>>

\* run(), up to the handler
Run(r) ==
  /\ Idle /\ ~runner[r].closed /\ runs < MaxRuns /\ ~past.gap
  /\ runner' = [runner EXCEPT ![r] = [Initialized(r) EXCEPT !.phase = "spawned"]]
  /\ current' = IF runner[r].initialized THEN current ELSE r
  /\ target' = "live" /\ runs' = runs + 1
  /\ call' = [how |-> "none", interrupted |-> FALSE]
  /\ UNCHANGED <<handler, wanted, past>>

\* _install_sigint_handler(): only in the place of a handler it knows.
InstallSigintHandler(r) ==
  /\ runner[r].phase = "spawned"
  /\ LET may == handler \in {"default", "asyncio"} IN
     /\ handler' = IF may THEN r ELSE handler
     /\ runner' = [runner EXCEPT ![r].phase = "installed",
                                 ![r].saved = IF may THEN handler ELSE "none"]
  /\ UNCHANGED <<current, wanted, target, call, runs, past>>

ResetCount(r) ==
  /\ runner[r].phase = "installed"
  /\ runner' = [runner EXCEPT ![r].phase = "running", ![r].count = 0]
  /\ UNCHANGED <<current, handler, wanted, target, call, runs, past>>

\* _on_sigint(): the first time it asks the target to cancel, then, or with
\* the target done, it raises where the main thread is.
OnSigint(r) ==
  /\ handler = r /\ runner[r].phase \in {"installed", "running", "leaving"}
  /\ runner[r].count < 2
  /\ LET asks == runner[r].count = 0 /\ target # "done" IN
     /\ target' = IF asks THEN "asked" ELSE "done"
     /\ call' = [how |-> IF asks THEN call.how ELSE "interrupt", interrupted |-> TRUE]
     /\ runner' = [runner EXCEPT ![r].count = @ + 1,
                     ![r].phase = IF asks THEN @ ELSE IF @ = "running" THEN "leaving" ELSE "idle"]
  /\ past' = [past EXCEPT !.gap = @ \/ runner[r].phase # "running"]
  /\ UNCHANGED <<current, handler, wanted, runs>>

\* Somebody else cancels the target.
AskCancel ==
  /\ ~Idle /\ target = "live"
  /\ target' = "asked"
  /\ UNCHANGED <<runner, current, handler, wanted, call, runs, past>>

\* run_until_complete() returns, or raises the CancelledError of the target,
\* which run() turns into a KeyboardInterrupt.  A target that is asked may
\* return a result all the same.
RunEnds(r) ==
  /\ runner[r].phase = "running" /\ target # "done"
  /\ \E how \in {"result"} \cup
        (IF target = "live" THEN {}
         ELSE {IF runner[r].count > 0 THEN "interrupt" ELSE "cancelled"}) :
       call' = [call EXCEPT !.how = how]
  /\ target' = "done"
  /\ runner' = [runner EXCEPT ![r].phase = "leaving"]
  /\ UNCHANGED <<current, handler, wanted, runs, past>>

\* _restore_sigint_handler(): only its own.
RestoreSigintHandler(r) ==
  /\ runner[r].phase = "leaving"
  /\ handler' = IF runner[r].saved # "none" /\ handler = r THEN runner[r].saved ELSE handler
  /\ runner' = [runner EXCEPT ![r].phase = "idle", ![r].saved = "none"]
  /\ UNCHANGED <<current, wanted, target, call, runs, past>>

\* The program sets a handler of its own.
SetHandler ==
  /\ wanted # "user"
  /\ \A r \in Runners : runner[r].phase \in {"idle", "running"}
  /\ handler' = "user" /\ wanted' = "user"
  /\ UNCHANGED <<runner, current, target, call, runs, past>>

\* close(): _finalize_close()
Close(r) ==
  /\ Idle /\ ~runner[r].closed
  /\ runner' = [runner EXCEPT ![r].closed = TRUE, ![r].initialized = FALSE,
                              ![r].previous = Outer]
  /\ current' = IF runner[r].initialized THEN runner[r].previous ELSE current
  /\ past' = [past EXCEPT !.mixed = @ \/ (runner[r].initialized /\ current # r)]
  /\ UNCHANGED <<handler, wanted, target, call, runs>>

Next ==
  \/ \E r \in Runners :
       \/ Enter(r) \/ Run(r) \/ InstallSigintHandler(r) \/ ResetCount(r) \/ OnSigint(r)
       \/ RunEnds(r) \/ RestoreSigintHandler(r) \/ Close(r)
  \/ AskCancel \/ SetHandler

Spec == Init /\ [][Next]_vars

(***************************************************************************)
(* Properties.                                                             *)
(***************************************************************************)

\* Between two runs the handler of SIGINT is the one the program set last,
\* and with every runner closed, the inner one first, the current scheduler
\* is the one from before.  A SIGINT in the gap around the try block of run()
\* can leave the handler of the runner behind.
PutBack ==
  /\ Idle /\ ~past.gap => handler = wanted
  /\ (\A r \in Runners : ~runner[r].initialized) /\ ~past.mixed => current = Outer

\* run() raises KeyboardInterrupt for a target that SIGINT cancelled, and only
\* then, whoever else cancels it and whatever interrupted the run before.
InterruptTold ==
  Idle /\ ~past.gap =>
    /\ call.how = "interrupt" => call.interrupted
    /\ call.how = "cancelled" => ~call.interrupted
=============================================================================
