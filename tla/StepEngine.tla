----------------------------- MODULE StepEngine -----------------------------
(***************************************************************************)
(* Breakpoint hits and stepping in the debug loop (Core/Debugger.cpp, with *)
(* the decisions of Core/StepLogic.h).  A breakpoint is an INT3 byte that  *)
(* every thread of the target can run into.  To leave one, the loop        *)
(* restores the byte, lets one thread execute the original instruction,    *)
(* and arms it again; meanwhile the peers are suspended, which is the      *)
(* lease of the stepping thread.  Step Over and Step Out run over calls to *)
(* a temporary breakpoint behind them; Run To is one at the target.        *)
(*                                                                         *)
(* The target is a small program: where each thread is, its return         *)
(* addresses, and one lock.  A thread that raises an exception waits until *)
(* the loop has taken its event, and the loop takes them in any order, one *)
(* at a time, also those of threads it has suspended since.  The loop's    *)
(* variables are one record, s, and handling an event is a function of it. *)
(*                                                                         *)
(* Left out: native calls that fail, breakpoints that come and go, thread  *)
(* exit, hardware breakpoints, and the observers that share a byte.        *)
(***************************************************************************)
EXTENDS Naturals, Sequences

CONSTANTS
  Thread, Main,           \* the target's threads, and the one a Pause shows
  Addr, Start,            \* instructions, and where each thread starts
  Kind,                   \* "normal", "call", "ret", "lock" or "unlock"
  Flow,                   \* where a normal instruction can lead
  Callee, After,          \* of a call: the function, and the next instruction
  Bp,                     \* where the user has breakpoints
  Targets,                 \* where the user runs to
  Depth,                  \* bound on nested calls
  NoAddr, NoThread

ASSUME ProgramAssumption ==
  /\ Main \in Thread /\ NoThread \notin Thread /\ NoAddr \notin Addr
  /\ Start \in [Thread -> Addr] /\ Bp \subseteq Addr /\ Depth \in Nat
  /\ Kind \in [Addr -> {"normal", "call", "ret", "lock", "unlock"}]
  /\ Flow \in [Addr -> SUBSET Addr]
  /\ Callee \in [Addr -> Addr] /\ After \in [Addr -> Addr]

VARIABLES
  at, stack,     \* of each thread: its instruction, its return addresses
  trap,          \* the exception a thread has raised: "none", "int3", "step",
                 \* or "passed", when the loop has passed it on to the target
  holder,        \* who has the lock
  s,             \* the debug loop
  breakin,       \* the helper thread that a Pause injects
  asked,         \* history: the step the user waits for, if nothing else was under
                 \* way when it was asked for and it has not been forgotten since
  crossed        \* history: an event was handled during another thread's lease,
                 \* or a command left a breakpoint on a thread not parked there

target == <<at, stack, trap, holder>>
vars   == <<target, s, breakin, asked, crossed>>

NoTemp == [addr |-> NoAddr, kind |-> "none", owner |-> NoThread]
NoReArm == [addr |-> NoAddr, after |-> "run"]
Labels == {"step", "over", "out"}
NoOut == [now |-> "no", anchor |-> 0]
NoStep == [what |-> "none", tid |-> NoThread, at |-> NoAddr, depth |-> 0]

Init ==
  /\ at = Start /\ stack = [t \in Thread |-> <<>>]
  /\ trap = [t \in Thread |-> "none"] /\ holder = NoThread
  /\ s = [state |-> "Paused", tid |-> Main, why |-> "pause",
          failed |-> NoThread, stop |-> FALSE,
          armed |-> Bp, int3 |-> Bp, tf |-> {},
          parked |-> NoAddr, reArm |-> NoReArm,
          temp |-> NoTemp, tempReArm |-> NoAddr, foreign |-> NoThread,
          stepTid |-> NoThread, stepPause |-> FALSE, out |-> NoOut,
          lease |-> NoThread, frozen |-> {}]
  /\ breakin = "none"
  /\ asked = NoStep
  /\ crossed = FALSE

----------------------------------------------------------------------------
\* The target.  An instruction whose byte is INT3 traps; the trap flag makes the
\* processor trap after one instruction, and clears itself.
Runs(t) == s.state = "Running" /\ trap[t] = "none" /\ t \notin s.frozen

HitsInt3(t) ==
  /\ Runs(t) /\ at[t] \in s.int3
  /\ trap' = [trap EXCEPT ![t] = "int3"]
  /\ UNCHANGED <<at, stack, holder, s, breakin, asked, crossed>>

\* What the instruction at a does to the thread and to the lock.
Effect(t, a) ==
  \/ /\ Kind[a] = "normal"
     /\ \E b \in Flow[a] :
          /\ Kind[b] = "call" => Len(stack[t]) < Depth
          /\ at' = [at EXCEPT ![t] = b]
     /\ UNCHANGED <<stack, holder>>
  \/ /\ Kind[a] = "call"
     /\ at' = [at EXCEPT ![t] = Callee[a]]
     /\ stack' = [stack EXCEPT ![t] = <<After[a]>> \o @]
     /\ UNCHANGED holder
  \/ /\ Kind[a] = "ret"
     /\ at' = [at EXCEPT ![t] = Head(stack[t])]
     /\ stack' = [stack EXCEPT ![t] = Tail(@)]
     /\ UNCHANGED holder
  \/ /\ Kind[a] \in {"lock", "unlock"}
     /\ holder = IF Kind[a] = "lock" THEN NoThread ELSE t
     /\ holder' = IF Kind[a] = "lock" THEN t ELSE NoThread
     /\ \E b \in Flow[a] : at' = [at EXCEPT ![t] = b]
     /\ UNCHANGED stack

Executes(t) ==
  /\ Runs(t) /\ at[t] \notin s.int3
  /\ Effect(t, at[t])
  /\ trap' = [trap EXCEPT ![t] = IF t \in s.tf THEN "step" ELSE "none"]
  /\ s' = [s EXCEPT !.tf = @ \ {t}]
  /\ UNCHANGED <<breakin, asked, crossed>>

----------------------------------------------------------------------------
\* Pieces of the loop: each takes the loop's record and returns the next one.
EndExclusiveStep(e) == [e EXCEPT !.lease = NoThread, !.frozen = {}]

\* Plausible bug: the thread that is to step is suspended with the others.
BeginWithNobody(e, t) ==
  IF e.lease = t THEN e ELSE [e EXCEPT !.lease = t, !.frozen = Thread]

\* Plausible bug: the peers keep running.
BeginWithoutPeers(e, t) ==
  IF e.lease = t THEN e ELSE [e EXCEPT !.lease = t, !.frozen = {}]

BeginExclusiveStep(e, t) ==
  IF e.lease = t THEN e ELSE [e EXCEPT !.lease = t, !.frozen = Thread \ {t}]

\* armBreakpoint, from rearmUserBreakpoint: only over the original byte.
ReArm(e, a, t) ==
  IF a \in e.int3 THEN [e EXCEPT !.armed = @ \ {a}, !.failed = t]
                  ELSE [e EXCEPT !.armed = @ \cup {a}, !.int3 = @ \cup {a}]

DisarmBreakpoint(e, a) == [e EXCEPT !.armed = @ \ {a}, !.int3 = @ \ {a}]

CanSetTempBp(e, a) == e.temp = NoTemp /\ a \notin e.int3

SetTempBp(e, a, kind, t) ==
  [e EXCEPT !.int3 = @ \cup {a}, !.temp = [addr |-> a, kind |-> kind, owner |-> t]]

\* The breakpoint whose byte was withheld while a call was run over.
ReArmWithheld(e, t) ==
  IF e.tempReArm = NoAddr THEN e ELSE [ReArm(e, e.tempReArm, t) EXCEPT !.tempReArm = NoAddr]

\* Plausible bug: an abandoned step leaves its temporary breakpoint's byte.
ClearTempForgetting(e, t) ==
  [EndExclusiveStep(ReArmWithheld([e EXCEPT !.temp = NoTemp], t)) EXCEPT !.foreign = NoThread]

\* Plausible bug: an abandoned step does not arm the breakpoint it stepped over.
ClearTempStranding(e, t) ==
  LET a  == e.temp.addr
      e1 == IF e.temp = NoTemp THEN e
            ELSE [e EXCEPT !.temp = NoTemp,
                           !.int3 = IF a \in e.armed THEN @ \cup {a} ELSE @ \ {a}]
  IN [EndExclusiveStep(e1) EXCEPT !.foreign = NoThread, !.tempReArm = NoAddr]

\* clearTempBp: an armed breakpoint of the user inherits the byte.
ClearTempBp(e, t) ==
  LET a  == e.temp.addr
      e1 == IF e.temp = NoTemp THEN e
            ELSE [e EXCEPT !.temp = NoTemp,
                           !.int3 = IF a \in e.armed THEN @ \cup {a} ELSE @ \ {a}]
  IN [EndExclusiveStep(ReArmWithheld(e1, t)) EXCEPT !.foreign = NoThread]

StopFor(e, why) == [e EXCEPT !.stop = TRUE, !.why = why]

\* handleUserBp; whether it stops is its condition's and its period's choice.
HandleUserBp(e, a, t, stops) ==
  LET e1 == DisarmBreakpoint([ClearTempBp(e, t) EXCEPT !.out = NoOut, !.stepPause = FALSE], a)
      e2 == [e1 EXCEPT !.reArm = [addr |-> a, after |-> "run"], !.stepTid = t,
                       !.tf = @ \cup {t}]
  IN IF stops THEN [StopFor(e1, "breakpoint") EXCEPT !.parked = a]
              ELSE BeginExclusiveStep(e2, t)

\* stepOutStep, with DecideStepOut.
StepOutStep(e, t) ==
  LET e1 == BeginExclusiveStep([e EXCEPT !.stepTid = t], t)
      a  == at[t]
  IN CASE Kind[a] = "call" ->
            IF CanSetTempBp(e1, After[a])
            THEN [SetTempBp(e1, After[a], "skip", t) EXCEPT !.tf = @ \ {t}]
            ELSE [StopFor(e1, "failure") EXCEPT !.out = NoOut]
       [] Kind[a] = "ret" -> [e1 EXCEPT !.out.now = "leave", !.tf = @ \cup {t}]
       [] OTHER -> [e1 EXCEPT !.tf = @ \cup {t}]

BeginStepOut(e, t) == [e EXCEPT !.out = [now |-> "walk", anchor |-> Len(stack[t])]]

\* The end of an event: the loop pauses and shows a thread, or goes on.
Settle(e, shown) ==
  IF e.stop
  THEN [EndExclusiveStep(e) EXCEPT !.state = "Paused", !.tid = shown, !.stop = FALSE]
  ELSE e

----------------------------------------------------------------------------
\* Events.
Event(t, kind) ==
  /\ s.state = "Running" /\ trap[t] = kind
  /\ crossed' = (crossed \/ s.lease \notin {NoThread, t})
  /\ UNCHANGED <<at, stack, holder>>

Handled(t, e) ==
  /\ s' = Settle(e, t) /\ UNCHANGED <<asked, breakin>>
  /\ trap' = [trap EXCEPT ![t] = "none"]

\* Another thread runs into the temporary breakpoint: it steps over the byte.
ForeignHitsTemp(t) ==
  /\ Event(t, "int3") /\ s.temp.addr = at[t] /\ s.temp.owner # t
  /\ Handled(t, IF at[t] \in s.int3
                THEN [BeginExclusiveStep(s, t) EXCEPT
                        !.int3 = @ \ {at[t]}, !.foreign = t, !.tf = @ \cup {t}]
                ELSE [StopFor(s, "failure") EXCEPT !.failed = t])

\* Its owner does: what it stood for is done.  (A breakpoint that was set at the
\* address meanwhile would take priority.)
OwnerHitsTemp(t) ==
  LET e == ReArmWithheld([s EXCEPT !.temp = NoTemp, !.int3 = @ \ {at[t]}], t)
  IN
  /\ Event(t, "int3") /\ s.temp.addr = at[t] /\ s.temp.owner = t
  /\ Handled(t, IF s.temp.kind = "skip" THEN StepOutStep(e, t)
                ELSE StopFor(e, s.temp.kind))

HitsBreakpoint(t) ==
  /\ Event(t, "int3") /\ s.temp.addr # at[t] /\ at[t] \in s.armed
  /\ \E stops \in BOOLEAN :
       /\ s' = Settle(HandleUserBp(s, at[t], t, stops), t)
       /\ asked' = IF stops THEN asked ELSE NoStep
  /\ UNCHANGED breakin
  /\ trap' = [trap EXCEPT ![t] = "none"]

\* An INT3 that is nobody's any more: the target gets an exception that is not its
\* own (DBG_EXCEPTION_NOT_HANDLED), unless a Pause is under way and it is taken for
\* the helper's; then the helper's will be nobody's.
Nobodys(t) == s.temp.addr # at[t] /\ at[t] \notin s.armed

PassesOn(t) ==
  /\ Event(t, "int3") /\ Nobodys(t) /\ breakin = "none"
  /\ UNCHANGED <<s, breakin, asked>>
  /\ trap' = [trap EXCEPT ![t] = "passed"]

TakenForBreak(t) ==
  /\ Event(t, "int3") /\ Nobodys(t) /\ breakin \in {"asked", "trapped"}
  /\ s' = Settle(StopFor(s, "pause"), Main)
  /\ trap' = [trap EXCEPT ![t] = "passed"]
  /\ breakin' = "passed" /\ UNCHANGED asked

\* Plausible bug: the thread's step over the temporary breakpoint ends its use.
ForeignStepsOnly(t) ==
  /\ Event(t, "step") /\ s.foreign = t
  /\ Handled(t, [EndExclusiveStep(s) EXCEPT !.foreign = NoThread, !.tf = @ \ {t}])

\* Single steps, in the order of the loop's branches.
ForeignSteps(t) ==
  /\ Event(t, "step") /\ s.foreign = t
  /\ LET a  == s.temp.addr
         ok == s.temp # NoTemp /\ a \notin s.int3
         e  == [EndExclusiveStep(s) EXCEPT !.foreign = NoThread, !.tf = @ \ {t}]
     IN Handled(t, IF ok THEN [e EXCEPT !.int3 = @ \cup {a}]
                   ELSE [StopFor(e, "failure") EXCEPT !.temp = NoTemp, !.failed = t])

Stray(t) ==
  /\ s.foreign # t /\ s.stepTid \notin {NoThread, t}
  /\ s.reArm # NoReArm \/ s.stepPause \/ s.out # NoOut

StraySteps(t) ==
  /\ Event(t, "step") /\ Stray(t)
  /\ Handled(t, [s EXCEPT !.tf = @ \ {t}])

StepsOffBreakpoint(t) ==
  LET e == [ReArm(s, s.reArm.addr, t) EXCEPT !.reArm = NoReArm]
  IN
  /\ Event(t, "step") /\ s.foreign # t /\ ~Stray(t) /\ s.reArm # NoReArm
  /\ Handled(t, CASE e.failed # NoThread -> StopFor(e, "failure")
                  [] e.failed = NoThread /\ s.reArm.after \in Labels ->
                       StopFor(e, s.reArm.after)
                  [] e.failed = NoThread /\ s.reArm.after = "walk" ->
                       StepOutStep(BeginStepOut(e, t), t)
                  [] OTHER -> EndExclusiveStep([e EXCEPT !.tf = @ \ {t}]))

\* Plausible bug: any ret ends the step out.
LeftAlways(t) == TRUE

\* "Only stop if RSP actually rose above the step-out anchor"
Left(t) == Len(stack[t]) < s.out.anchor

Steps(t) ==
  /\ Event(t, "step") /\ s.foreign # t /\ ~Stray(t) /\ s.reArm = NoReArm
  /\ Handled(t,
       CASE s.out.now = "leave" /\ Left(t) -> [StopFor(s, "out") EXCEPT !.out = NoOut]
         [] s.out.now = "leave" /\ ~Left(t) -> StepOutStep([s EXCEPT !.out.now = "walk"], t)
         [] s.out.now = "walk" -> StepOutStep(s, t)
         [] s.out = NoOut /\ s.stepPause -> [StopFor(s, "step") EXCEPT !.stepPause = FALSE]
         [] OTHER -> s)

\* Pause: a helper thread is created, which the lease suspends like any peer;
\* its INT3 is consumed by breakRequested_ and the main thread is shown.  Once
\* operations have crossed the user asks for nothing more: a bound.
Pause ==
  /\ s.state = "Running" /\ breakin = "none" /\ ~crossed
  /\ breakin' = "asked"
  /\ UNCHANGED <<target, s, asked, crossed>>

HelperTraps ==
  /\ s.state = "Running" /\ breakin = "asked" /\ s.lease = NoThread
  /\ breakin' = "trapped"
  /\ UNCHANGED <<target, s, asked, crossed>>

BreakEvent ==
  /\ s.state = "Running" /\ breakin = "trapped"
  /\ s' = Settle(StopFor(s, "pause"), Main)
  /\ breakin' = "none"
  /\ crossed' = (crossed \/ s.lease # NoThread)
  /\ UNCHANGED <<target, asked>>

----------------------------------------------------------------------------
\* Commands.
GoOn(e) == [e EXCEPT !.state = "Running", !.tid = NoThread, !.why = "none", !.failed = NoThread]

\* The target stays paused, and parked where it was.
Refuse(e) ==
  [EndExclusiveStep(e) EXCEPT
     !.why = "failure", !.stop = FALSE, !.stepPause = FALSE, !.out = NoOut,
     !.reArm = IF e.parked = NoAddr THEN @ ELSE NoReArm,
     !.tempReArm = IF e.parked = NoAddr \/ e.temp # NoTemp THEN @ ELSE NoAddr]

\* DecideOnBpResume: what follows the one step off the breakpoint.
AfterReArm(what, kind) ==
  CASE what = "continue" -> "run"
    [] what = "out" /\ kind # "ret" -> "walk"
    [] OTHER -> what

\* Plausible bug: a call that a breakpoint is on is not stepped over.
OverUnitOnlyOut(what, kind) == what = "out" /\ kind = "call"

OverUnit(what, kind) == what \in {"over", "out"} /\ kind = "call"

\* Plausible bug: the address behind the call is taken for the breakpoint's.
LeaveOverSwapped(e, t, a, what) ==
  LET e1 == IF what = "out" THEN BeginStepOut(e, t) ELSE e
      e2 == SetTempBp(e1, After[a], IF what = "out" THEN "skip" ELSE "over", t)
  IN [BeginExclusiveStep([e2 EXCEPT !.tempReArm = After[a]], t) EXCEPT !.tf = @ \ {t}]

LeaveOver(e, t, a, what) ==
  LET e1 == IF what = "out" THEN BeginStepOut(e, t) ELSE e
      e2 == SetTempBp(e1, After[a], IF what = "out" THEN "skip" ELSE "over", t)
  IN [BeginExclusiveStep([e2 EXCEPT !.tempReArm = a], t) EXCEPT !.tf = @ \ {t}]

LeaveByStep(e, t, a, what) ==
  BeginExclusiveStep([e EXCEPT !.reArm = [addr |-> a, after |-> AfterReArm(what, Kind[a])],
                               !.stepTid = t, !.tf = @ \cup {t}], t)

\* Off the breakpoint the target is parked on, whichever thread is selected.
FromBreakpoint(e, t, what) ==
  LET a  == s.parked
      e1 == [e EXCEPT !.parked = NoAddr]
  IN IF ~OverUnit(what, Kind[a]) THEN GoOn(LeaveByStep(e1, t, a, what))
     ELSE IF CanSetTempBp(e, After[a]) THEN GoOn(LeaveOver(e1, t, a, what))
     ELSE Refuse([e EXCEPT !.tf = @ \ {t}])

\* Plausible bug: the thread that steps is still the one of an earlier step.
StepOnceStale(e, t) ==
  [BeginExclusiveStep(e, t) EXCEPT !.tf = @ \cup {t}, !.stepPause = TRUE]

StepOnce(e, t) ==
  [BeginExclusiveStep(e, t) EXCEPT !.stepTid = t, !.tf = @ \cup {t}, !.stepPause = TRUE]

\* From anywhere else.
FromHere(e, t, what) ==
  LET out == StepOutStep(BeginStepOut([e EXCEPT !.stop = FALSE], t), t)
  IN CASE what = "continue" -> GoOn([e EXCEPT !.tf = @ \ {t}])
       [] what = "step" \/ (what = "over" /\ Kind[at[t]] # "call") -> GoOn(StepOnce(e, t))
       [] what = "over" /\ Kind[at[t]] = "call" ->
            IF CanSetTempBp(e, After[at[t]])
            THEN GoOn([BeginExclusiveStep(SetTempBp(e, After[at[t]], "over", t), t)
                         EXCEPT !.tf = @ \ {t}])
            ELSE Refuse(e)
       [] what = "out" -> IF out.stop THEN Refuse(out) ELSE GoOn(out)

Resumed(e, t, what) ==
  IF s.parked # NoAddr THEN FromBreakpoint(e, t, what) ELSE FromHere(e, t, what)

\* An earlier command's temporary breakpoint or step is still outstanding.
Unfinished == s.temp # NoTemp \/ s.reArm # NoReArm \/ s.stepPause \/ s.out # NoOut

Obey(t, what, e) ==
  /\ s.state = "Paused" /\ trap[t] = "none" /\ s.failed = NoThread /\ ~crossed
  /\ s' = e
  /\ asked' = IF e.state = "Paused" \/ what \notin Labels \/ Unfinished THEN NoStep
              ELSE [what |-> what, tid |-> t, at |-> at[t], depth |-> Len(stack[t])]
  /\ crossed' = (crossed \/ (e.state = "Running" /\ s.parked # NoAddr /\ t # s.tid))
  /\ UNCHANGED <<target, breakin>>

Command(t, what) == Obey(t, what, Resumed(EndExclusiveStep(s), t, what))

RunTo(t, a) ==
  LET e == EndExclusiveStep(s)
  IN Obey(t, "runto",
       IF a # s.parked /\ CanSetTempBp(e, a)
       THEN Resumed(SetTempBp(e, a, "runto", t), t, "continue")
       ELSE [s EXCEPT !.why = "failure"])

\* After a failed transition every command continues, and the exception of the
\* event is passed on.
CommandAfterFailure(t) ==
  /\ s.state = "Paused" /\ trap[t] = "none" /\ s.failed # NoThread
  /\ s' = Resumed(EndExclusiveStep(s), t, "continue")
  /\ trap' = [trap EXCEPT ![s.failed] = "passed"]
  /\ asked' = NoStep
  /\ crossed' = TRUE
  /\ UNCHANGED <<at, stack, holder, breakin>>

----------------------------------------------------------------------------
TargetStep(t) == HitsInt3(t) \/ Executes(t)

EventStep(t) ==
  \/ ForeignHitsTemp(t) \/ OwnerHitsTemp(t) \/ HitsBreakpoint(t)
  \/ PassesOn(t) \/ TakenForBreak(t)
  \/ ForeignSteps(t) \/ StraySteps(t) \/ StepsOffBreakpoint(t) \/ Steps(t)

UserStep ==
  \/ Pause
  \/ \E t \in Thread :
       \/ \E what \in Labels \cup {"continue"} : Command(t, what)
       \/ \E a \in Targets : RunTo(t, a)
       \/ CommandAfterFailure(t)

Next ==
  \/ \E t \in Thread : TargetStep(t) \/ EventStep(t)
  \/ HelperTraps \/ BreakEvent \/ UserStep

Spec == Init /\ [][Next]_vars

\* Threads that are not suspended run, and the loop takes their events; the user
\* need not do anything.
FairSpec ==
  /\ Spec /\ WF_vars(HelperTraps) /\ WF_vars(BreakEvent)
  /\ \A t \in Thread : WF_vars(TargetStep(t)) /\ WF_vars(EventStep(t))

----------------------------------------------------------------------------
Places == Addr \cup {NoAddr}
Someone == Thread \cup {NoThread}

LoopType ==
  [state : {"Paused", "Running"}, tid : Someone,
   why : Labels \cup {"none", "pause", "breakpoint", "runto", "failure"},
   failed : Someone, stop : BOOLEAN,
   armed : SUBSET Bp, int3 : SUBSET Addr, tf : SUBSET Thread,
   parked : Bp \cup {NoAddr},
   reArm : [addr : Bp \cup {NoAddr}, after : Labels \cup {"run", "walk"}],
   temp : [addr : Places, kind : {"none", "over", "skip", "runto"}, owner : Someone],
   tempReArm : Bp \cup {NoAddr}, foreign : Someone,
   stepTid : Someone, stepPause : BOOLEAN,
   out : [now : {"no", "walk", "leave"}, anchor : 0 .. Depth],
   lease : Someone, frozen : SUBSET Thread]

\* The state has its type, and no event leaves a reason to stop behind.
TypeOK ==
  /\ at \in [Thread -> Addr] /\ \A t \in Thread : Len(stack[t]) <= Depth
  /\ trap \in [Thread -> {"none", "int3", "step", "passed"}] /\ holder \in Someone
  /\ s \in LoopType /\ ~s.stop
  /\ breakin \in {"none", "asked", "trapped", "passed"} /\ crossed \in BOOLEAN
  /\ asked \in [what : Labels \cup {"none"}, tid : Someone, at : Places, depth : 0 .. Depth]

\* "So we never leak a 0xCC into the target or strand a disarmed user
\* breakpoint" (clearTempBp): every INT3 in the code is a breakpoint's or the
\* temporary one's, and a breakpoint without its byte is parked on, being stepped
\* off, or withheld under a temporary one, whatever abandons what; and a temporary
\* one that is set is in the code, or a thread that is not its owner is being stepped
\* over it; as long as operations of two threads have not crossed.
NothingLost == ~crossed =>
  /\ s.armed \subseteq s.int3
  /\ s.int3 \subseteq s.armed \cup {s.temp.addr}
  /\ Bp \subseteq s.armed \cup {s.parked, s.reArm.addr, s.tempReArm}
  /\ s.temp # NoTemp => s.temp.addr \in s.int3 \/ s.foreign # NoThread

\* "Peers are suspended during the short process-wide byte exposure window": while
\* a breakpoint's byte is out and the target runs, one thread has the lease and all
\* others are suspended; and nobody is suspended without a step to wait for.
Shielded == ~crossed =>
  /\ s.state = "Running" /\ Bp \ s.armed # {} =>
       s.lease # NoThread /\ s.frozen = Thread \ {s.lease}
  /\ s.frozen # {} =>
       s.state = "Running" /\ (Unfinished \/ s.foreign # NoThread)

\* Where a step goes that nothing interferes with.  Step Into executes one
\* instruction; Step Over of a call ends at the address behind it, in the frame it was
\* asked in or in one that the call has made (README, section 5), Step Out in a caller
\* of the frame it was asked in; and it is the thread it was asked for.
StopsWhereAsked ==
  /\ s.state = "Running" /\ ~crossed /\ asked.what = "step" =>
       at[asked.tid] = asked.at \/ trap[asked.tid] # "none"
  /\ s.state = "Paused" /\ ~crossed /\ asked # NoStep /\ s.why \in Labels =>
       /\ s.tid = asked.tid
       /\ s.why = "out" => Len(stack[s.tid]) < asked.depth
       /\ s.why = "over" /\ Kind[asked.at] = "call" => Len(stack[s.tid]) >= asked.depth
       /\ s.why # "out" /\ Kind[asked.at] = "call" =>
            at[s.tid] = IF s.why = "over" THEN After[asked.at] ELSE Callee[asked.at]
       /\ s.why # "out" /\ Kind[asked.at] \in {"normal", "lock", "unlock"} =>
            at[s.tid] \in Flow[asked.at]

\* A Step Into or a Step Over ends in a pause, unless threads cross, the stepping
\* thread waits for a lock whose holder the step has suspended, or a breakpoint
\* whose condition is false was on the way: passing it forgets the step.
Waits(t) == t \in Thread /\ Kind[at[t]] = "lock" /\ holder # NoThread

StepsEnd ==
  asked.what \in {"step", "over"} /\ s.state = "Running" ~>
    s.state = "Paused" \/ crossed \/ Waits(asked.tid) \/ asked = NoStep

----------------------------------------------------------------------------
\* What the sources say and the code does not keep.

\* "Set a temp bp after it and run, so the callee / the whole repeat executes without
\* us tracing into it" (StepLogic.h:32-33): the call has returned when the step over it
\* ends.
StepOverRunsTheCall ==
  s.state = "Paused" /\ ~crossed /\ asked.what = "over" /\ s.why = "over" =>
    Len(stack[s.tid]) <= asked.depth

\* A Step Over comes back: the callee "gets a temporary breakpoint placed after it"
\* (README, section 5).
StepOverReturns ==
  asked.what = "over" /\ s.state = "Running" ~> s.state = "Paused"

\* "Nothing is suspended, so ... this can't deadlock a thread blocked on a peer's
\* lock/syscall": a Pause is answered.  (A Step Out that does not find its way out
\* is cut off after kStepOutCap steps, which the model leaves out.)
PauseAnswered == breakin # "none" ~> s.state = "Paused" \/ s.out # NoOut

(* What a step takes away it gives back: the traps of the breakpoints, and   *)
(* the threads it holds only while it must.                                  *)
StepsLeaveNothing == NothingLost /\ Shielded

=============================================================================
