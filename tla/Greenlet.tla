------------------------------- MODULE Greenlet -------------------------------
(***************************************************************************)
(* tealet_greenlet/__init__.py: greenlets of one thread on top of tealets. *)
(* A greenlet gives control to another with switch() or throw(); one that  *)
(* ends gives it to its nearest started parent.  A call of                 *)
(* _switch_or_throw() that waits for control to come back is a frame on    *)
(* the stack of its greenlet, and goes on when the greenlet is resumed,    *)
(* whoever resumes it.  __del__() kills a suspended greenlet that nobody   *)
(* refers to, at once or through the garbage list of the main greenlet.    *)
(* Tealets are external here (module Tealet): a pending exception is       *)
(* raised in the next tealet that runs, and a tealet that dies of an       *)
(* exception hands control to who threw it, or to main.                    *)
(***************************************************************************)
EXTENDS Naturals, Sequences, FiniteSets

CONSTANTS Main,        \* the main greenlet
          Others,      \* the other greenlets
          None,
          MaxDepth     \* bound on the frames of one greenlet

VARIABLES gr,          \* gr[g]: state, parent, stack, dealloc, dropped
          current,     \* the running greenlet
          act,         \* what it does
          pins,        \* pins[g]: _running_refcounts
          heap         \* the garbage list of main, and the guard

vars == <<gr, current, act, pins, heap>>

All == Others \cup {Main}

User == [do |-> "user"]
Call(g, e) == [do |-> "call", to |-> g, exc |-> e]
Ret(arg) == [do |-> "ret", arg |-> arg]
Raise(e) == [do |-> "raise", exc |-> e]
End(e, chained) == [do |-> "end", exc |-> e, chained |-> chained]

(***************************************************************************)
(* The chain of parents.                                                   *)
(***************************************************************************)
Ancestors(g) ==
  LET Up[n \in 0 .. Cardinality(All)] ==
        IF n = 0 THEN {gr[g].parent}
        ELSE Up[n - 1] \cup {gr[p].parent : p \in Up[n - 1] \ {None}}
  IN Up[Cardinality(All)] \ {None}

\* The nearest parent that Ok accepts: the only one that no other such parent
\* stands before.
Nearest(g, Ok(_)) ==
  CHOOSE p \in Ancestors(g) :
    Ok(p) /\ \A q \in Ancestors(g) : Ok(q) /\ q # p => q \in Ancestors(p)

\* _parent(): started and not dead.  _switch_parent(): not dead.
Parent(g) == Nearest(g, LAMBDA p : gr[p].state = "run")
SwitchParent(g) == Nearest(g, LAMBDA p : gr[p].state # "exit")

\* __setattr__("parent"): refused when it would close a cycle.
Cyclic(g, p) == p = g \/ g \in Ancestors(p)

(***************************************************************************)
(* Frames.                                                                 *)
(***************************************************************************)
Frame(kind, g, x) == [kind |-> kind, to |-> g, x |-> x]
Stack == gr[current].stack
Top == Stack[Len(Stack)]
Push(f) == [gr EXCEPT ![current].stack = Append(@, f)]
Pop == [gr EXCEPT ![current].stack = SubSeq(@, 1, Len(@) - 1)]
Pinned(g) == [pins EXCEPT ![g] = @ + 1]
Unpinned(g) == [pins EXCEPT ![g] = IF @ <= 1 THEN 0 ELSE @ - 1]

(***************************************************************************)
(* _switch_or_throw(): start a new greenlet, pass over a dead one, or      *)
(* switch to a started one.                                                *)
(***************************************************************************)
StartNew ==
  /\ act.do = "call" /\ gr[act.to].state = "new" /\ Len(Stack) < MaxDepth
  /\ gr' = [Push(Frame("start", act.to, act.exc)) EXCEPT ![act.to].state = "run"]
  /\ pins' = Pinned(act.to)
  /\ current' = act.to
  /\ act' = IF act.exc = None THEN User ELSE End(act.exc, TRUE)
  /\ UNCHANGED heap

PassDead ==
  /\ act.do = "call" /\ gr[act.to].state = "exit"
  /\ act' = IF act.exc = "exit" THEN Ret(TRUE) ELSE Call(SwitchParent(act.to), act.exc)
  /\ UNCHANGED <<gr, current, pins, heap>>

SwitchTo ==
  /\ act.do = "call" /\ gr[act.to].state = "run" /\ Len(Stack) < MaxDepth
  /\ gr' = Push(Frame("switch", act.to, None))
  /\ pins' = Pinned(act.to)
  /\ current' = act.to
  /\ act' = IF act.exc = None THEN Ret(TRUE) ELSE Raise(act.exc)
  /\ UNCHANGED heap

(***************************************************************************)
(* Control is back in a call: tealet.run() or tealet.switch() returned or  *)
(* raised, and the rest of _switch_or_throw() runs.  If the greenlet that  *)
(* the call started has exited and its parent was never started, the call  *)
(* starts the parent.                                                      *)
(***************************************************************************)
Back(kind) == act.do \in {"ret", "raise"} /\ Stack # <<>> /\ Top.kind = kind

Orphan(f) == gr[f.to].state = "exit" /\ gr[gr[f.to].parent].state = "new"

StartReturns ==
  /\ Back("start")
  /\ IF act.do = "raise" /\ Top.x # None /\ Orphan(Top)
     THEN /\ gr' = [gr EXCEPT ![current].stack[Len(Stack)].kind = "tail"]
          /\ act' = Call(gr[Top.to].parent, act.exc)
          /\ UNCHANGED pins
     ELSE /\ gr' = Pop
          /\ pins' = Unpinned(Top.to)
          /\ act' = IF act.do = "ret" /\ Orphan(Top) /\ (act.arg \/ Top.x # None)
                    THEN Call(gr[Top.to].parent, IF act.arg THEN None ELSE Top.x)
                    ELSE act
  /\ UNCHANGED <<current, heap>>

SwitchReturns ==
  /\ Back("switch") \/ Back("tail")
  /\ gr' = Pop
  /\ pins' = Unpinned(Top.to)
  /\ UNCHANGED <<current, act, heap>>

\* The caller of switch() or throw() goes on; an exception is handled or not.
ToUser ==
  /\ act.do \in {"ret", "raise"} /\ Stack = <<>>
  /\ \/ act' = User
     \/ /\ act.do = "raise" /\ current # Main
        /\ act' = End(act.exc, TRUE)
  /\ UNCHANGED <<gr, current, pins, heap>>

(***************************************************************************)
(* _greenlet_main() ends: GreenletExit is a result, any other exception is *)
(* queued for the parent, unless __del__() is what kills the greenlet.     *)
(***************************************************************************)
Ends ==
  /\ act.do = "end"
  /\ gr' = [gr EXCEPT ![current].state = "exit"]
  /\ LET lost == act.exc = "err" /\ gr[current].dealloc
         killer == {g \in All : \E i \in DOMAIN gr[g].stack :
                      gr[g].stack[i] = Frame("switch", current, None)}
     IN IF lost
        THEN /\ current' = IF act.chained /\ killer # {} THEN CHOOSE g \in killer : TRUE ELSE Main
             /\ act' = Ret(FALSE)
        ELSE /\ current' = Parent(current)
             /\ act' = IF act.exc = "err" THEN Raise("err") ELSE Ret(TRUE)
  /\ UNCHANGED <<pins, heap>>

(***************************************************************************)
(* What the code of a greenlet does.                                       *)
(***************************************************************************)
Busy == act = User /\ Stack = <<>>

\* The code can name g.
Held(g) == ~gr[g].dropped \/ g = current

\* greenlet(run, parent): a new greenlet; the garbage is looked at.
Create(g, p) ==
  /\ Busy /\ gr[g].state = "none" /\ gr[p].state # "none" /\ Held(p)
  /\ gr' = [gr EXCEPT ![g].state = "new", ![g].parent = p]
  /\ act' = [do |-> "drain"]
  /\ UNCHANGED <<current, pins, heap>>

Transfer(g, e) ==
  /\ Busy /\ gr[g].state # "none" /\ Held(g)
  /\ act' = Call(g, e)
  /\ UNCHANGED <<gr, current, pins, heap>>

Finish(e, chained) ==
  /\ Busy /\ current # Main
  /\ act' = End(e, chained)
  /\ UNCHANGED <<gr, current, pins, heap>>

\* Mutant: a cycle is not refused.
MutSetParent(g, p) ==
  /\ Busy /\ g # Main /\ {gr[g].state, gr[p].state} \cap {"none"} = {}
  /\ Held(g) /\ Held(p)
  /\ gr' = [gr EXCEPT ![g].parent = p]
  /\ UNCHANGED <<current, act, pins, heap>>

SetParent(g, p) ==
  /\ Busy /\ g # Main /\ {gr[g].state, gr[p].state} \cap {"none"} = {}
  /\ Held(g) /\ Held(p) /\ ~Cyclic(g, p)
  /\ gr' = [gr EXCEPT ![g].parent = p]
  /\ UNCHANGED <<current, act, pins, heap>>

(***************************************************************************)
(* The last reference to g goes: nothing that runs holds g, and no other   *)
(* greenlet has it as its parent.                                          *)
(***************************************************************************)
Unreferenced(g) ==
  /\ gr[g].state = "run" /\ ~gr[g].dropped /\ g \notin {current, Main} /\ pins[g] = 0
  /\ \A h \in All : gr[h].parent # g
  /\ \A h \in All : \A i \in DOMAIN gr[h].stack : gr[h].stack[i].to # g

\* __del__(): throw GreenletExit at it, with the current greenlet as parent.
Delete(g) ==
  /\ Busy /\ Unreferenced(g)
  /\ gr' = [Push(Frame("del", g, gr[g].parent)) EXCEPT
             ![g].dropped = TRUE, ![g].parent = current, ![g].dealloc = TRUE]
  /\ act' = Call(g, "exit")
  /\ UNCHANGED <<current, pins, heap>>

\* __del__() during a collection, or in another thread.
Defer(g) ==
  /\ Unreferenced(g)
  /\ gr' = [gr EXCEPT ![g].dropped = TRUE]
  /\ heap' = [heap EXCEPT !.garbage = Append(@, g)]
  /\ UNCHANGED <<current, act, pins>>

Restored(r, g, p) == IF Cyclic(g, p) THEN r ELSE [r EXCEPT ![g].parent = p]

\* The end of __del__(): an exception that came back is only reported.
DeleteReturns ==
  /\ Back("del")
  /\ gr' = [Restored(Pop, Top.to, Top.x) EXCEPT ![Top.to].dealloc = FALSE]
  /\ act' = User
  /\ UNCHANGED <<current, pins, heap>>

\* getcurrent() in main, and every new greenlet: _process_garbage().
Drain ==
  /\ (Busy /\ current = Main) \/ act.do = "drain"
  /\ IF heap.guard \/ heap.garbage = <<>>
     THEN act.do = "drain" /\ act' = User /\ UNCHANGED <<gr, heap>>
     ELSE /\ heap' = [heap EXCEPT !.guard = TRUE, !.garbage = <<>>]
          /\ gr' = Push(Frame("gc", None, heap.garbage))
          /\ act' = Ret(TRUE)
  /\ UNCHANGED <<current, pins>>

\* One round of its loop; the frame keeps what is left, and the greenlet that
\* was thrown at with its old parent.
DrainNext ==
  /\ Back("gc") /\ Top.to = None /\ act.do = "ret"
  /\ IF Top.x = <<>>
     THEN /\ gr' = Pop /\ act' = User
          /\ heap' = [heap EXCEPT !.guard = FALSE]
     ELSE LET g == Head(Top.x)
              rest == [gr EXCEPT ![current].stack[Len(Stack)].x = Tail(@)]
          IN IF gr[g].state # "run" \/ g = current
             THEN /\ gr' = rest /\ UNCHANGED act
                  /\ heap' = IF g = current THEN [heap EXCEPT !.garbage = Append(@, g)] ELSE heap
             ELSE IF Cyclic(g, current)
             THEN /\ gr' = Pop /\ act' = Raise("err")
                  /\ heap' = [heap EXCEPT !.guard = FALSE]
             ELSE /\ gr' = [rest EXCEPT ![g].parent = current,
                                        ![current].stack[Len(Stack)].to = <<g, gr[g].parent>>]
                  /\ act' = Call(g, "exit")
                  /\ UNCHANGED heap
  /\ UNCHANGED <<current, pins>>

DrainReturns ==
  /\ Back("gc") /\ Top.to # None
  /\ LET g == Top.to[1]
         cyclic == Cyclic(g, Top.to[2])
         go == act.do = "ret" /\ ~cyclic
         idle == [gr EXCEPT ![current].stack[Len(Stack)].to = None]
     IN /\ gr' = Restored(IF go THEN idle ELSE Pop, g, Top.to[2])
        /\ act' = IF cyclic THEN Raise("err") ELSE act
        /\ heap' = [heap EXCEPT !.guard = go]
  /\ UNCHANGED <<current, pins>>

Init ==
  /\ gr = [g \in All |-> [state |-> IF g = Main THEN "run" ELSE "none", parent |-> None,
                          stack |-> <<>>, dealloc |-> FALSE, dropped |-> FALSE]]
  /\ current = Main /\ act = User
  /\ pins = [g \in All |-> 0]
  /\ heap = [garbage |-> <<>>, guard |-> FALSE]

Next ==
  \/ StartNew \/ PassDead \/ SwitchTo \/ StartReturns \/ SwitchReturns \/ ToUser \/ Ends
  \/ \E g \in Others, p \in All : Create(g, p) \/ SetParent(g, p)
  \/ \E g \in All, e \in {None, "exit", "err"} : Transfer(g, e)
  \/ \E e \in {None, "err"}, chained \in BOOLEAN : Finish(e, chained)
  \/ \E g \in Others : Delete(g) \/ Defer(g)
  \/ Drain \/ DrainNext \/ DrainReturns \/ DeleteReturns

Spec == Init /\ [][Next]_vars

Frames == UNION {{<<g, i>> : i \in DOMAIN gr[g].stack} : g \in All}
KindAt(f) == gr[f[1]].stack[f[2]].kind

\* The bookkeeping around switches is exact: every started greenlet has main
\* among its parents; a greenlet is pinned once for every call that waits for
\* it; the guard of the garbage list is up while a drain is under way.
BooksKept ==
  /\ \A g \in Others : gr[g].state # "none" => Main \in Ancestors(g) /\ g \notin Ancestors(g)
  /\ \A g \in All : pins[g] = Cardinality({f \in Frames :
       KindAt(f) \in {"start", "switch", "tail"} /\ gr[f[1]].stack[f[2]].to = g})
  /\ heap.guard <=> \E f \in Frames : KindAt(f) = "gc"
=============================================================================
