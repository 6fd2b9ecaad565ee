------------------------- MODULE BreakpointCommands -------------------------
(***************************************************************************)
(* The code breakpoints of a debug session (Core/DebuggerBreakpoints.cpp,  *)
(* applyPendingBps and the event loop of Core/Debugger.cpp).  The user's   *)
(* commands are queued under mtx_ by kind; the thread that owns the debug  *)
(* events swaps the queues out and applies them kind by kind while the     *)
(* target is stopped, taking mtx_ again for each row.  A command that      *)
(* finds the target running injects a break so that the owner gets an      *)
(* event; one that finds it paused wakes the owner from its wait.          *)
(*                                                                         *)
(* The queues are maps from addresses: a later request for an address      *)
(* replaces an earlier one of its kind, as it does when they are applied   *)
(* in turn.  A row is its condition here: of an every-Nth-hit period it    *)
(* only matters that a row is there to take it.  Whether a byte can be     *)
(* taken or given back is the target's choice at the stubborn addresses.   *)
(* Hit counts, texts, other owners of a byte, and the limit of 4096 failure *)
(* rows are left out; so is the Pause request, whose breaks                *)
(* DebuggerLifecycle has.                                                  *)
(***************************************************************************)
EXTENDS Naturals, FiniteSets

CONSTANTS
  Addr, Period,
  Fresh, Update,       \* conditions that additions and updates carry
  NoCond, NoPeriod,
  Caller               \* threads that issue commands

Cond == Fresh \cup Update

ASSUME CommandsAssumption == NoCond \notin Cond /\ NoPeriod \notin Period

VARIABLES
  state,                                 \* state_
  adds, rems, conds, enabled, tunes,     \* pendingBpAdds_, Rems_, Conds_, Enabled_, EveryN_
  bps, disabled, failed,                 \* bps_, disabledBps_, failedBpInstalls_
  applying,                              \* applyingBpAdds_
  batch, tuning,                         \* the owner's queues, swapped out
  owner, after,                          \* the owner's step, and where a pass leads
  continue,                              \* a Continue command is posted
  traceSync,                             \* traceSyncBreakRequested_, its break under way
  asleep,                                \* the owner waits on cmdCv_
  unbroken,                              \* only observes: see Inject
  pc,                                    \* what each caller still has to do
  stubborn                               \* where the target may keep its byte

queues == <<adds, rems, conds, enabled, tunes>>
rows   == <<bps, disabled, failed>>
work   == <<batch, tuning, applying>>
loop   == <<owner, after, continue, traceSync, asleep, unbroken>>
vars   == <<state, queues, rows, work, loop, pc, stubborn>>

Empty(value) == [a \in Addr |-> value]
NoBatch == [adds |-> Empty(NoCond), conds |-> Empty(NoCond),
            enable |-> {}, disable |-> {}, rems |-> {}]

Has(map, a) == map[a] # NoCond
HasRow(a) == Has(bps, a) \/ Has(disabled, a) \/ Has(failed, a)

Queued == \/ adds # Empty(NoCond) \/ rems # {} \/ conds # Empty(NoCond)
          \/ enabled # Empty("none") \/ tunes # Empty(NoPeriod)

----------------------------------------------------------------------------
Init ==
  /\ state = "Detached"
  /\ adds = Empty(NoCond) /\ rems = {} /\ conds = Empty(NoCond)
  /\ enabled = Empty("none") /\ tunes = Empty(NoPeriod)
  /\ bps = Empty(NoCond) /\ disabled = Empty(NoCond) /\ failed = Empty(NoCond)
  /\ applying = {} /\ batch = NoBatch /\ tuning = Empty(NoPeriod)
  /\ owner = "none" /\ after = "none" /\ continue = FALSE
  /\ traceSync = FALSE /\ asleep = FALSE /\ unbroken = FALSE
  /\ pc = [t \in Caller |-> "free"]
  /\ stubborn \in SUBSET Addr

\* The commands, each under mtx_ as a whole; requestTraceSyncBreak follows.
Commands(t) ==
  /\ pc[t] = "free" /\ state # "Detached"
  /\ pc' = [pc EXCEPT ![t] = "wake"]
  /\ UNCHANGED <<state, bps, disabled, work, loop>>

\* Plausible bug: a switch-off that was queued before the removal survives it.
AddKeepingSwitch(t, a, c) ==
  /\ Commands(t)
  /\ rems' = rems \ {a}
  /\ conds' = [conds EXCEPT ![a] = NoCond]
  /\ adds' = [adds EXCEPT ![a] = c]
  /\ failed' = [failed EXCEPT ![a] = NoCond]
  /\ UNCHANGED <<enabled, tunes>>

\* addBreakpoint: a removal that is still queued is taken back, and the
\* breakpoint that stays is asked to be on.
AddBreakpoint(t, a, c) ==
  /\ Commands(t)
  /\ rems' = rems \ {a}
  /\ enabled' = IF a \in rems THEN [enabled EXCEPT ![a] = "on"] ELSE enabled
  /\ conds' = [conds EXCEPT ![a] = NoCond]
  /\ adds' = [adds EXCEPT ![a] = c]
  /\ failed' = [failed EXCEPT ![a] = NoCond]
  /\ UNCHANGED tunes

RemoveBreakpoint(t, a) ==
  /\ Commands(t)
  /\ adds' = [adds EXCEPT ![a] = NoCond]
  /\ conds' = [conds EXCEPT ![a] = NoCond]
  /\ tunes' = [tunes EXCEPT ![a] = NoPeriod]
  /\ enabled' = [enabled EXCEPT ![a] = "none"]
  /\ rems' = rems \cup {a}
  /\ UNCHANGED failed

\* Plausible bug: an addition that the owner is applying is not known.
KnowsQueuedOnly(a) == a \notin rems /\ (HasRow(a) \/ adds[a] # NoCond)

\* What setBreakpointEnabledForSession accepts.
Knows(a) == a \notin rems /\ (HasRow(a) \/ adds[a] # NoCond \/ a \in applying)

SetBreakpointEnabled(t, a, on) ==
  /\ Commands(t) /\ Knows(a)
  /\ enabled' = [enabled EXCEPT ![a] = IF on THEN "on" ELSE "off"]
  /\ UNCHANGED <<adds, rems, conds, tunes, failed>>

SetBreakpointCondition(t, a, c) ==
  /\ Commands(t)
  /\ conds' = [conds EXCEPT ![a] = c]
  /\ UNCHANGED <<adds, rems, enabled, tunes, failed>>

SetBreakpointEveryN(t, a, n) ==
  /\ Commands(t)
  /\ tunes' = [tunes EXCEPT ![a] = n]
  /\ UNCHANGED <<adds, rems, conds, enabled, failed>>

\* requestTraceSyncBreak reads the state under mtx_; a paused owner is notified.
Wake(t) ==
  /\ pc[t] = "wake"
  /\ pc' = [pc EXCEPT ![t] = IF state = "Running" THEN "inject" ELSE "free"]
  /\ asleep' = (asleep /\ state # "Paused")
  /\ UNCHANGED <<state, queues, rows, work, owner, after, continue, traceSync, unbroken>>

\* "one helper services all queued mutations": the break may fail, and then what is
\* queued has none coming.
Inject(t) ==
  /\ pc[t] = "inject"
  /\ pc' = [pc EXCEPT ![t] = "free"]
  /\ IF owner = "none" THEN UNCHANGED <<traceSync, unbroken>>
     ELSE /\ traceSync' \in {TRUE, traceSync}
          /\ unbroken' = (Queued /\ ~traceSync')
  /\ UNCHANGED <<state, queues, rows, work, owner, after, continue, asleep>>

\* Continue: one that is posted during a pass is posted right after it here, for
\* the pass does not look at it.
PostContinue ==
  /\ state = "Paused" /\ owner = "wait"
  /\ continue' = TRUE /\ asleep' = FALSE
  /\ UNCHANGED <<state, queues, rows, work, owner, after, traceSync, unbroken, pc>>

----------------------------------------------------------------------------
\* A session starts and ends with nothing queued and no row.
BeginSession ==
  /\ state = "Detached"
  /\ state' = "Running" /\ owner' = "pump" /\ traceSync' = FALSE
  /\ UNCHANGED <<queues, rows, work, after, continue, asleep, unbroken, pc>>

EndSession ==
  /\ owner \in {"pump", "wait"}
  /\ state' = "Detached" /\ owner' = "none"
  /\ continue' = FALSE /\ asleep' = FALSE /\ unbroken' = FALSE
  /\ adds' = Empty(NoCond) /\ rems' = {} /\ conds' = Empty(NoCond)
  /\ enabled' = Empty("none") /\ tunes' = Empty(NoPeriod)
  /\ bps' = Empty(NoCond) /\ disabled' = Empty(NoCond) /\ failed' = Empty(NoCond)
  /\ UNCHANGED <<work, after, traceSync, pc>>

\* A debug event: the injected break, which is consumed, or the target's own.
BreakEvent ==
  /\ owner = "pump" /\ traceSync
  /\ traceSync' = FALSE /\ owner' = "swap" /\ after' = "resume"
  /\ UNCHANGED <<state, queues, rows, work, continue, asleep, unbroken, pc>>

StopEvent ==
  /\ owner = "pump"
  /\ owner' = "swap" /\ after' \in {"resume", "pause"}
  /\ UNCHANGED <<state, queues, rows, work, continue, traceSync, asleep, unbroken, pc>>

\* The end of a pass.
Pause ==
  /\ owner = "done" /\ after = "pause"
  /\ state' = "Paused" /\ owner' = "wait" /\ after' = "none"
  /\ UNCHANGED <<queues, rows, work, continue, traceSync, asleep, unbroken, pc>>

Resume ==
  /\ owner = "done" /\ after = "resume"
  /\ owner' = "pump" /\ after' = "none"
  /\ UNCHANGED <<state, queues, rows, work, continue, traceSync, asleep, unbroken, pc>>

\* Plausible bug: a period alone does not count as an edit.
EditsWithoutPeriods == adds # Empty(NoCond) \/ rems # {} \/ conds # Empty(NoCond)
                       \/ enabled # Empty("none")

\* waitForCommand, hasBreakpointEdits.
Edits == Queued

\* waitForCommand: edits come before a command.
ServeEdits ==
  /\ owner = "wait" /\ ~asleep /\ Edits
  /\ owner' = "swap" /\ after' = "wait"
  /\ UNCHANGED <<state, queues, rows, work, continue, traceSync, asleep, unbroken, pc>>

WaitAgain ==
  /\ owner = "done" /\ after = "wait"
  /\ owner' = "wait" /\ after' = "none"
  /\ UNCHANGED <<state, queues, rows, work, continue, traceSync, asleep, unbroken, pc>>

Sleep ==
  /\ owner = "wait" /\ ~asleep /\ ~Edits /\ ~continue
  /\ asleep' = TRUE
  /\ UNCHANGED <<state, queues, rows, work, owner, after, continue, traceSync, unbroken, pc>>

TakeContinue ==
  /\ owner = "wait" /\ ~asleep /\ ~Edits /\ continue
  /\ continue' = FALSE /\ owner' = "swap" /\ after' = "close"
  /\ UNCHANGED <<state, queues, rows, work, traceSync, asleep, unbroken, pc>>

\* "Close the paused->running enqueue race atomically."
Close ==
  /\ owner = "done" /\ after = "close"
  /\ IF Edits THEN owner' = "swap" /\ UNCHANGED <<state, after>>
              ELSE owner' = "pump" /\ state' = "Running" /\ after' = "none"
  /\ UNCHANGED <<queues, rows, work, continue, traceSync, asleep, unbroken, pc>>

\* The execution command failed: the target stays paused.
StayPaused ==
  /\ owner = "done" /\ after = "close"
  /\ owner' = "wait" /\ after' = "none"
  /\ UNCHANGED <<state, queues, rows, work, continue, traceSync, asleep, unbroken, pc>>

----------------------------------------------------------------------------
\* applyPendingBps.  Turning a breakpoint on is an addition with the condition
\* its row has, unless an addition is queued; turning it off is a removal.
Swap ==
  LET turned(s) == {a \in Addr : enabled[a] = s}
      old(a) == IF Has(disabled, a) THEN disabled[a] ELSE failed[a]
      all == [a \in Addr |-> IF adds[a] = NoCond /\ a \in turned("on") THEN old(a) ELSE adds[a]]
  IN
  /\ owner = "swap" /\ owner' = "adds"
  /\ batch' = [adds |-> all, conds |-> conds, rems |-> rems,
               enable |-> turned("on"), disable |-> turned("off")]
  /\ applying' = {a \in Addr : all[a] # NoCond}
  /\ adds' = Empty(NoCond) /\ rems' = {} /\ conds' = Empty(NoCond)
  /\ enabled' = Empty("none") /\ unbroken' = FALSE
  /\ UNCHANGED <<state, tunes, rows, tuning, after, continue, traceSync, asleep, pc>>

Adding(a) ==
  /\ owner = "adds" /\ batch.adds[a] # NoCond
  /\ batch' = [batch EXCEPT !.adds[a] = NoCond]
  /\ UNCHANGED <<state, queues, applying, tuning, loop, pc>>

\* The row exists: only its condition changes.
Readd(a) ==
  /\ Adding(a)
  /\ \/ /\ Has(disabled, a) /\ a \notin batch.enable
        /\ disabled' = [disabled EXCEPT ![a] = batch.adds[a]]
        /\ UNCHANGED <<bps, failed>>
     \/ /\ ~Has(disabled, a) /\ Has(bps, a)
        /\ bps' = [bps EXCEPT ![a] = batch.adds[a]]
        /\ failed' = [failed EXCEPT ![a] = NoCond]
        /\ UNCHANGED disabled

Installs(a) == IF Has(disabled, a) THEN a \in batch.enable ELSE ~Has(bps, a)

\* Plausible bug: the row of a resumed breakpoint is not retired.
InstallKeepingRow(a) ==
  /\ Adding(a) /\ Installs(a)
  /\ bps' = [bps EXCEPT ![a] = batch.adds[a]]
  /\ failed' = [failed EXCEPT ![a] = NoCond]
  /\ UNCHANGED disabled

Install(a) ==
  /\ Adding(a) /\ Installs(a)
  /\ bps' = [bps EXCEPT ![a] = batch.adds[a]]
  /\ disabled' = [disabled EXCEPT ![a] = NoCond]
  /\ failed' = [failed EXCEPT ![a] = NoCond]

\* installFailure: "a failed resume remains one disabled record"
InstallFails(a) ==
  /\ a \in stubborn /\ Adding(a) /\ Installs(a)
  /\ IF Has(disabled, a)
     THEN /\ disabled' = [disabled EXCEPT ![a] = batch.adds[a]]
          /\ UNCHANGED failed
     ELSE /\ failed' = [failed EXCEPT ![a] = batch.adds[a]]
          /\ UNCHANGED disabled
  /\ UNCHANGED bps

\* Plausible bug: the additions of an earlier pass stay marked as being applied.
AddsDoneKeepingMarks ==
  /\ owner = "adds" /\ batch.adds = Empty(NoCond)
  /\ owner' = "conds" /\ UNCHANGED applying
  /\ UNCHANGED <<state, queues, rows, batch, tuning, after, continue, traceSync, asleep,
                 unbroken, pc>>

AddsDone ==
  /\ owner = "adds" /\ batch.adds = Empty(NoCond)
  /\ owner' = "conds" /\ applying' = {}
  /\ UNCHANGED <<state, queues, rows, batch, tuning, after, continue, traceSync, asleep,
                 unbroken, pc>>

ApplyCondition(a) ==
  LET put(map) == IF Has(map, a) THEN [map EXCEPT ![a] = batch.conds[a]] ELSE map IN
  /\ owner = "conds" /\ batch.conds[a] # NoCond
  /\ bps' = put(bps) /\ disabled' = put(disabled) /\ failed' = put(failed)
  /\ batch' = [batch EXCEPT !.conds[a] = NoCond]
  /\ UNCHANGED <<state, queues, applying, tuning, loop, pc>>

\* The periods are swapped out under a lock of their own.
SwapPeriods ==
  /\ owner = "conds" /\ batch.conds = Empty(NoCond)
  /\ tuning' = tunes /\ tunes' = Empty(NoPeriod)
  /\ owner' = "tune"
  /\ UNCHANGED <<state, adds, rems, conds, enabled, rows, batch, applying, after, continue,
                 traceSync, asleep, unbroken, pc>>

ApplyPeriod(a) ==
  /\ owner = "tune" /\ tuning[a] # NoPeriod
  /\ tuning' = [tuning EXCEPT ![a] = NoPeriod]
  /\ UNCHANGED <<state, queues, rows, batch, applying, loop, pc>>

PeriodsDone ==
  /\ owner = "tune" /\ tuning = Empty(NoPeriod) /\ owner' = "rems"
  /\ UNCHANGED <<state, queues, rows, work, after, continue, traceSync, asleep, unbroken, pc>>

\* One removal, or one switch-off, by what the address has.
Removing(a) ==
  /\ owner = "rems" /\ a \in batch.rems \cup batch.disable
  /\ batch' = [batch EXCEPT !.rems = @ \ {a}, !.disable = @ \ {a}]
  /\ UNCHANGED <<state, queues, applying, tuning, loop, pc>>

RemoveDisabled(a) ==
  /\ Removing(a) /\ Has(disabled, a)
  /\ disabled' = IF a \in batch.disable THEN disabled ELSE [disabled EXCEPT ![a] = NoCond]
  /\ UNCHANGED <<bps, failed>>

\* A failed installation, or nothing at all.
RemoveFailed(a) ==
  /\ Removing(a) /\ ~Has(disabled, a) /\ ~Has(bps, a)
  /\ failed' = [failed EXCEPT ![a] = NoCond]
  /\ disabled' = IF a \in batch.disable THEN [disabled EXCEPT ![a] = failed[a]] ELSE disabled
  /\ UNCHANGED bps

RemoveInstalled(a) ==
  /\ Removing(a) /\ ~Has(disabled, a) /\ Has(bps, a)
  /\ failed' = [failed EXCEPT ![a] = NoCond]
  /\ disabled' = IF a \in batch.disable THEN [disabled EXCEPT ![a] = bps[a]] ELSE disabled
  /\ bps' = [bps EXCEPT ![a] = NoCond]

\* The byte could not be restored: the row stays.
RestoreFails(a) ==
  /\ a \in stubborn /\ Removing(a) /\ ~Has(disabled, a) /\ Has(bps, a)
  /\ failed' = [failed EXCEPT ![a] = NoCond]
  /\ UNCHANGED <<bps, disabled>>

RemsDone ==
  /\ owner = "rems" /\ batch.rems = {} /\ batch.disable = {}
  /\ owner' = "done" /\ batch' = NoBatch
  /\ UNCHANGED <<state, queues, rows, applying, tuning, after, continue, traceSync, asleep,
                 unbroken, pc>>

----------------------------------------------------------------------------
UserStep ==
  \/ \E t \in Caller, a \in Addr :
       \/ \E c \in Fresh : AddBreakpoint(t, a, c)
       \/ \E c \in Update : SetBreakpointCondition(t, a, c)
       \/ \E on \in BOOLEAN : SetBreakpointEnabled(t, a, on)
       \/ \E n \in Period : SetBreakpointEveryN(t, a, n)
       \/ RemoveBreakpoint(t, a)
  \/ PostContinue

CallerStep(t) == Wake(t) \/ Inject(t)

ApplyStep ==
  \/ Swap \/ AddsDone \/ SwapPeriods \/ PeriodsDone \/ RemsDone
  \/ \E a \in Addr :
       \/ Readd(a) \/ Install(a) \/ InstallFails(a) \/ ApplyCondition(a) \/ ApplyPeriod(a)
       \/ RemoveDisabled(a) \/ RemoveFailed(a) \/ RemoveInstalled(a) \/ RestoreFails(a)

OwnerStep ==
  \/ ApplyStep \/ BreakEvent \/ Pause \/ Resume
  \/ ServeEdits \/ WaitAgain \/ Sleep \/ TakeContinue \/ Close \/ StayPaused

Next ==
  /\ UNCHANGED stubborn
  /\ \/ UserStep \/ OwnerStep \/ StopEvent \/ BeginSession \/ EndSession
     \/ \E t \in Caller : CallerStep(t)

Spec == Init /\ [][Next]_vars

\* The owner and the callers go on; the target need not stop by itself.
FairSpec ==
  Spec /\ WF_vars(OwnerStep /\ UNCHANGED stubborn)
       /\ \A t \in Caller : WF_vars(CallerStep(t) /\ UNCHANGED stubborn)

----------------------------------------------------------------------------
Conds == Cond \cup {NoCond}

\* The types of the variables, and that the owner holds work of a pass only
\* during the pass.
TypeOK ==
  /\ state \in {"Detached", "Running", "Paused"}
  /\ adds \in [Addr -> Conds] /\ rems \subseteq Addr /\ conds \in [Addr -> Conds]
  /\ enabled \in [Addr -> {"none", "on", "off"}] /\ tunes \in [Addr -> Period \cup {NoPeriod}]
  /\ bps \in [Addr -> Conds] /\ disabled \in [Addr -> Conds]
  /\ failed \in [Addr -> Conds] /\ applying \subseteq Addr
  /\ batch \in [adds : [Addr -> Conds], conds : [Addr -> Conds], enable : SUBSET Addr,
                disable : SUBSET Addr, rems : SUBSET Addr]
  /\ tuning \in [Addr -> Period \cup {NoPeriod}]
  /\ owner \in {"none", "pump", "swap", "adds", "conds", "tune", "rems", "done", "wait"}
  /\ after \in {"none", "resume", "pause", "wait", "close"}
  /\ continue \in BOOLEAN /\ traceSync \in BOOLEAN /\ asleep \in BOOLEAN /\ unbroken \in BOOLEAN
  /\ pc \in [Caller -> {"free", "wake", "inject"}]
  /\ stubborn \in SUBSET Addr
  /\ applying # {} => owner = "adds"
  /\ batch # NoBatch => owner \in {"adds", "conds", "tune", "rems"}
  /\ asleep => owner = "wait"

\* The row that an addition, a new condition and a turn leave of a row.  The turn
\* switches the row on or off, or makes it go.
Absent == [mode |-> "off", cond |-> NoCond]
Left(r, add, cond, turn) ==
  LET mode == IF turn = "off" THEN "off"
              ELSE IF r = Absent \/ turn = "on" THEN "on" ELSE r.mode
      held == IF add = NoCond THEN r.cond ELSE add
  IN IF turn = "gone" \/ (r = Absent /\ add = NoCond) THEN Absent
     ELSE [mode |-> mode, cond |-> IF cond = NoCond THEN held ELSE cond]

Held(a) == IF Has(bps, a) THEN [mode |-> "on", cond |-> bps[a]]
           ELSE IF Has(disabled, a) THEN [mode |-> "off", cond |-> disabled[a]]
           ELSE IF Has(failed, a) THEN [mode |-> "on", cond |-> failed[a]]
           ELSE Absent

\* What the pass makes of an address, and what the queues then ask of it.
PassTurn(a) == IF a \in batch.rems THEN "gone"
               ELSE IF a \in batch.disable THEN "off"
               ELSE IF a \in batch.enable /\ batch.adds[a] # NoCond THEN "on" ELSE "none"
NextTurn(a) == IF a \in rems THEN "gone" ELSE enabled[a]

\* What the user has asked for.
Passed(a) == Left(Held(a), batch.adds[a], batch.conds[a], PassTurn(a))
Wanted(a) == Left(Passed(a), adds[a], conds[a], NextTurn(a))

List == INSTANCE BreakpointList WITH
          want <- [a \in Addr |-> Wanted(a)],
          late <- {a \in Addr : Wanted(a) = Absent /\ enabled[a] = "off"}

\* The rows, with what is queued and what the owner still has to apply, follow
\* the user's commands one by one, whatever the order in which kinds are
\* applied and wherever a command falls in the owner's pass.
FollowsTheCommands == List!Spec

\* An address has one row: a breakpoint is on, off or failed.
OneRow ==
  \A a \in Addr : Cardinality({m \in 1 .. 3 : Has(<<bps, disabled, failed>>[m], a)}) <= 1

\* A breakpoint that the user has can be switched, at every moment.
HeldCanBeSwitched ==
  \A a \in Addr : Wanted(a) # Absent => Knows(a)

\* A queued command is taken up, whether the target runs or is paused, unless the
\* break that was to take it up could not be injected (README, section 5).
CommandsAreServed ==
  \A a \in Addr :
    /\ adds[a] # NoCond ~> adds[a] = NoCond \/ unbroken
    /\ a \in rems ~> a \notin rems \/ unbroken
    /\ conds[a] # NoCond ~> conds[a] = NoCond \/ unbroken
    /\ enabled[a] # "none" ~> enabled[a] = "none" \/ unbroken
    /\ tunes[a] # NoPeriod ~> tunes[a] = NoPeriod \/ unbroken

\* "every-Nth-hit updates (applied after adds so a fresh bp can be tuned)": a
\* period finds the breakpoint it was asked for (not kept by the code: README,
\* section 5).
FreshCanBeTuned ==
  [][\A a \in Addr : tuning[a] # NoPeriod /\ tuning'[a] = NoPeriod /\ Wanted(a) # Absent
       => HasRow(a)]_vars

(* A breakpoint has one row, and one that the user holds can be switched.    *)
RowsAgree == OneRow /\ HeldCanBeSwitched

=============================================================================
