------------------------- MODULE DebuggerLifecycle -------------------------
(***************************************************************************)
(* Attaching, launching, cancelling and detaching in the native debugger.  *)
(* The UI posts one request at a time; a lifecycle worker runs it; a       *)
(* debug-event owner thread per session pumps the target's events, and is  *)
(* the only one that may restore and release the target.  Native calls may *)
(* fail, the target may be killed, and the UI goes on pressing buttons.    *)
(*                                                                         *)
(* mtx_ makes each guarded block one action.  A condition-variable wait is *)
(* the guard of the step after it, except that of waitForStartup, whose    *)
(* predicate also reads a flag that is written without the mutex.          *)
(***************************************************************************)
EXTENDS Naturals

CONSTANT
  Bounds  \* what may happen in one behaviour is within one of these records: requests
          \* the UI posts, faults (native calls that fail, and exceptions), stops (debug
          \* events of the target itself, and its termination from outside), and
          \* presses (Pause and breakpoint-edit clicks)

ASSUME LifecycleAssumption ==
  Bounds \subseteq [requests : Nat, faults : Nat, stops : Nat, presses : Nat]

VARIABLES
  \* Under lifecycleMtx_, except the atomic cancel flag.
  lifecycle, lifecycleCancel, lifecycleQueued, lifecycleShutdown,
  \* The worker, and detach(), a routine of the worker or of the destructor.
  worker, job, call,
  \* Under mtx_.
  state, cleanupOnly, quit, pendingCommand, edits,
  startupOk, startupDone, initialProcessEventReady,
  ownerFinished, attemptOpen, sessionGeneration, destroying,
  \* Atomics, and hProcessShared_.
  traceSync, breakRequested, shared,
  \* thread_ is joinable; the owner's step and its locals; nativeDebugObjectOwned_.
  thread, owner, alive, held, prepared, opened, owned,
  \* The target process.
  target, announced, killed, breaks, dirty,
  \* The UI, and what the bounds count.
  ui, faults, stops, presses

requests == <<lifecycle, lifecycleCancel, lifecycleQueued, lifecycleShutdown>>
routines == <<worker, job, call>>
session  == <<state, cleanupOnly, quit, pendingCommand>>
startup  == <<startupOk, startupDone, initialProcessEventReady>>
answers  == <<ownerFinished, attemptOpen>>
flags    == <<traceSync, breakRequested, shared>>
custody  == <<alive, held, prepared, opened, owned>>
process  == <<target, announced, killed, breaks, dirty>>
bounds   == <<faults, stops, presses>>
vars == <<requests, routines, session, edits, startup, answers, sessionGeneration, destroying,
          flags, thread, owner, custody, process, ui, bounds>>

NoRequest == [requestId |-> 0, command |-> "None", expected |-> 0, busy |-> FALSE,
              completed |-> FALSE, succeeded |-> FALSE, cancelled |-> FALSE, target |-> 0]
NoJob     == [attempted |-> FALSE, succeeded |-> FALSE, cleanupFailed |-> FALSE, target |-> 0]
NoCall    == [step |-> "none", from |-> "none"]

Init ==
  /\ lifecycle = NoRequest
  /\ lifecycleCancel = FALSE /\ lifecycleQueued = FALSE /\ lifecycleShutdown = FALSE
  /\ worker = "idle" /\ job = NoJob /\ call = NoCall
  /\ state = "Detached" /\ cleanupOnly = FALSE /\ quit = FALSE /\ pendingCommand = "None"
  /\ edits = FALSE
  /\ startupOk = FALSE /\ startupDone = FALSE /\ initialProcessEventReady = FALSE
  /\ ownerFinished = FALSE /\ attemptOpen = FALSE /\ sessionGeneration = 0 /\ destroying = FALSE
  /\ traceSync = FALSE /\ breakRequested = FALSE /\ shared = FALSE
  /\ thread = FALSE /\ owner = "done"
  /\ alive = FALSE /\ held = FALSE /\ prepared = FALSE /\ opened = FALSE /\ owned = FALSE
  /\ target = "none" /\ announced = FALSE /\ killed = FALSE /\ breaks = 0 /\ dirty = FALSE
  /\ ui = "free" /\ faults = 0 /\ stops = 0 /\ presses = 0

----------------------------------------------------------------------------
\* One more of these would still be within a bound.
May(what) ==
  LET spent == [requests |-> lifecycle.requestId, faults |-> faults, stops |-> stops,
                presses |-> presses]
  IN \E b \in Bounds : spent[what] < b[what] /\ \A k \in DOMAIN b : spent[k] <= b[k]

\* The startup waiter keeps mtx_ between its predicate and its sleep.
MtxFree == worker # "falling"

\* hProcMtx_ is held from the setting of a break flag to the injection.
HProcFree == ui \notin {"pauseInject", "editInject"} /\ call.step \notin {"earlyInject", "inject"}

\* A native call, or anything else that may throw: a failure uses up the bound.
Try(ok) == (ok \/ May("faults")) /\ faults' = IF ok THEN faults ELSE faults + 1

\* DebugBreakProcess: it cannot start a thread in a process that is ending.
Inject(ok) ==
  LET possible == ~killed /\ target # "exited"
  IN /\ ok => possible
     /\ IF possible THEN Try(ok) ELSE UNCHANGED faults
     /\ breaks' = IF ok THEN breaks + 1 ELSE breaks

\* DebugTargetIdentityMatches of the live session.
\* Plausible bug: a retained control of an older session is honoured.
NamesAnySession(expected) == state # "Detached"

NamesSession(expected) == state # "Detached" /\ expected = sessionGeneration

\* Plausible bug: a target still held by its old owner is replaced.
ReplacesAnyway(detached) == TRUE

Replaces(detached) == detached

\* Plausible bug: no second look at the cancel flag when the result is committed.
NeverCancelledAtCommit(succeeded) == FALSE

\* Commit and cancellation share lifecycleMtx_.
CancelledAtCommit(succeeded) == succeeded /\ lifecycle.command # "Detach" /\ lifecycleCancel

\* Plausible bug: a new session keeps the readiness of the one before it.
FirstEventAsBefore == initialProcessEventReady

FirstEventReady == FALSE

\* The predicate waitForStartup waits for.
StartupReady ==
  \/ startupDone /\ (~startupOk \/ initialProcessEventReady \/ state = "Terminated")
  \/ lifecycleCancel

\* Plausible bug: cleanup trusts that the threads it knows are all stopped.
StoppedByThreadList == TRUE

\* No target mutation is legal without a held event.
HasEvent == held

\* Plausible bug: a byte that could not be restored is logged and forgotten.
CleanupGoesOn(restored) == TRUE

CleanupComplete(restored) == restored

\* Plausible bug: a failed cleanup attempt does not answer the caller.
AnswerForgotten == attemptOpen

\* detachCompletedAttempt_ = detachAttempt_: only the newest attempt is ever
\* waited for, so "still open" is all the two counters say.
AttemptAnswered == FALSE

\* Plausible bug: only the owner's end answers a detach.
AnsweredAtTheEnd == ownerFinished

Answered == ownerFinished \/ ~attemptOpen

\* Plausible bug: retained cleanup waits for another detach even in destruction.
RetriesOnRequest == attemptOpen \/ (opened /\ (killed \/ target = "exited"))

\* targetTerminating and targetExited ask the handle that the first event brought.
Retries == attemptOpen \/ (opened /\ (killed \/ target = "exited")) \/ destroying

----------------------------------------------------------------------------
(* The UI.                                                                 *)

MayRequest == ui = "free" /\ ~lifecycleShutdown /\ ~lifecycle.busy
                /\ May("requests")

Post(command, expected) ==
  /\ lifecycle' = [NoRequest EXCEPT !.requestId = lifecycle.requestId + 1, !.command = command,
                                    !.expected = expected, !.busy = TRUE]
  /\ lifecycleCancel' = FALSE /\ lifecycleQueued' = TRUE
  /\ UNCHANGED <<lifecycleShutdown, routines, session, edits, startup, answers,
                 sessionGeneration, destroying, flags, thread, owner, custody, process, ui, bounds>>

\* requestAttach replaces the current target.
RequestAttach == MayRequest /\ Post("Attach", 0)

\* requestLaunch and requestLaunchDll: the current target must be detached first.
RequestLaunch ==
  /\ MayRequest /\ MtxFree /\ state \notin {"Running", "Paused"}
  /\ Post("Launch", 0)

\* expected = 0: no particular session.
RequestDetach ==
  /\ MayRequest /\ MtxFree
  /\ \E expected \in 0..sessionGeneration :
       /\ expected # 0 => NamesSession(expected)
       /\ Post("Detach", expected)

\* cancelLifecycle: it takes lifecycleMtx_ only; its notification reaches a
\* startup waiter only when that one sleeps already.
CancelLifecycle ==
  /\ ui = "free" /\ lifecycle.busy /\ lifecycle.command # "Detach" /\ ~lifecycleCancel
  /\ lifecycleCancel' = TRUE
  /\ worker' = IF worker = "asleep" THEN "evaluate" ELSE worker
  /\ UNCHANGED <<lifecycle, lifecycleQueued, lifecycleShutdown, job, call, session, edits, startup,
                 answers, sessionGeneration, destroying, flags, thread, owner, custody, process,
                 ui, bounds>>

\* postCommand.
Continue ==
  /\ ui = "free" /\ MtxFree /\ state = "Paused" /\ ~cleanupOnly
  /\ pendingCommand' = "Continue"
  /\ UNCHANGED <<requests, routines, state, cleanupOnly, quit, edits, startup, answers,
                 sessionGeneration, destroying, flags, thread, owner, custody, process, ui, bounds>>

\* pauseForSession: the state is read under mtx_, the flag is set and the break
\* injected under hProcMtx_.
PressPause ==
  /\ ui = "free" /\ MtxFree /\ state = "Running" /\ May("presses")
  /\ ui' = "pause" /\ presses' = presses + 1
  /\ UNCHANGED <<requests, routines, session, edits, startup, answers, sessionGeneration,
                 destroying, flags, thread, owner, custody, process, faults, stops>>

PauseFlag ==
  /\ ui = "pause" /\ HProcFree
  /\ breakRequested' = (breakRequested \/ shared)
  /\ ui' = IF shared THEN "pauseInject" ELSE "free"
  /\ UNCHANGED <<requests, routines, session, edits, startup, answers, sessionGeneration,
                 destroying, traceSync, shared, thread, owner, custody, process, bounds>>

PauseInject ==
  /\ ui = "pauseInject" /\ ui' = "free"
  /\ \E ok \in BOOLEAN : Inject(ok) /\ breakRequested' = (breakRequested /\ ok)
  /\ UNCHANGED <<requests, routines, session, edits, startup, answers, sessionGeneration,
                 destroying, traceSync, shared, thread, owner, custody, target, announced, killed,
                 dirty, stops, presses>>

\* A breakpoint edit is queued; requestTraceSyncBreak then wakes its owner.
QueueEdit ==
  /\ ui = "free" /\ MtxFree /\ state \in {"Running", "Paused"} /\ ~cleanupOnly
  /\ May("presses") /\ presses' = presses + 1
  /\ edits' = TRUE
  /\ ui' = IF state = "Running" THEN "edit" ELSE "free"
  /\ UNCHANGED <<requests, routines, session, startup, answers, sessionGeneration, destroying,
                 flags, thread, owner, custody, process, faults, stops>>

\* requestTraceSyncBreak after it has read the state: one break at a time.
SyncFlags == shared /\ ~traceSync

EditFlag ==
  /\ ui = "edit" /\ HProcFree
  /\ traceSync' = (traceSync \/ shared)
  /\ ui' = IF SyncFlags THEN "editInject" ELSE "free"
  /\ UNCHANGED <<requests, routines, session, edits, startup, answers, sessionGeneration,
                 destroying, breakRequested, shared, thread, owner, custody, process, bounds>>

EditInject ==
  /\ ui = "editInject" /\ ui' = "free"
  /\ \E ok \in BOOLEAN : Inject(ok) /\ traceSync' = (traceSync /\ ok)
  /\ UNCHANGED <<requests, routines, session, edits, startup, answers, sessionGeneration,
                 destroying, breakRequested, shared, thread, owner, custody, target, announced,
                 killed, dirty, stops, presses>>

\* ~Debugger: no further request, and the running one is cancelled.
Destroy ==
  /\ ui = "free" /\ ui' = "joinWorker"
  /\ lifecycleShutdown' = TRUE /\ lifecycleQueued' = FALSE /\ lifecycleCancel' = TRUE
  /\ worker' = IF worker = "asleep" THEN "evaluate" ELSE worker
  /\ UNCHANGED <<lifecycle, job, call, session, edits, startup, answers, sessionGeneration,
                 destroying, flags, thread, owner, custody, process, bounds>>

JoinWorker ==
  /\ ui = "joinWorker" /\ worker = "exited"
  /\ destroying' = TRUE /\ ui' = "detach"
  /\ call' = [step |-> "enter", from |-> "destroy"]
  /\ UNCHANGED <<requests, worker, job, session, edits, startup, answers, sessionGeneration, flags,
                 thread, owner, custody, process, bounds>>

\* The owner is joined even when its detach failed.
JoinOwner ==
  /\ ui = "joinOwner" /\ (thread => owner = "done")
  /\ thread' = FALSE /\ ui' = "gone"
  /\ UNCHANGED <<requests, routines, session, edits, startup, answers, sessionGeneration,
                 destroying, flags, owner, custody, process, bounds>>

----------------------------------------------------------------------------
(* lifecycleWorkerLoop.                                                    *)

Take ==
  /\ worker = "idle"
  /\ \/ /\ lifecycleShutdown /\ worker' = "exited"
        /\ UNCHANGED <<lifecycleQueued, job>>
     \/ /\ ~lifecycleShutdown /\ lifecycleQueued
        /\ lifecycleQueued' = FALSE /\ job' = NoJob /\ worker' = "begin"
  /\ UNCHANGED <<lifecycle, lifecycleCancel, lifecycleShutdown, call, session, edits, startup,
                 answers, sessionGeneration, destroying, flags, thread, owner, custody, process,
                 ui, bounds>>

\* An attach or launch first detaches the current session.  A launch may find its
\* plan unusable; one cancelled already starts nothing.
BeginAttach ==
  /\ worker = "begin" /\ lifecycle.command # "Detach"
  /\ job' = [job EXCEPT !.attempted = ~lifecycleCancel]
  /\ \/ /\ ~lifecycleCancel /\ worker' = "calling"
        /\ call' = [step |-> "enter", from |-> "replace"]
     \/ /\ lifecycleCancel \/ lifecycle.command = "Launch"
        /\ worker' = "check" /\ UNCHANGED call
  /\ UNCHANGED <<requests, session, edits, startup, answers, sessionGeneration, destroying, flags,
                 thread, owner, custody, process, ui, bounds>>

\* detachForSession looks at the session again.
BeginDetach ==
  /\ worker = "begin" /\ lifecycle.command = "Detach" /\ MtxFree
  /\ IF lifecycle.expected # 0 => NamesSession(lifecycle.expected)
     THEN worker' = "calling" /\ call' = [step |-> "enter", from |-> "request"]
     ELSE worker' = "commit" /\ UNCHANGED call
  /\ UNCHANGED <<requests, job, session, edits, startup, answers, sessionGeneration, destroying,
                 flags, thread, owner, custody, process, ui, bounds>>

\* beginSessionControl.
BeginSession ==
  /\ worker = "session" /\ worker' = "spawn"
  /\ pendingCommand' = "None" /\ edits' = FALSE
  /\ startupOk' = FALSE /\ startupDone' = FALSE
  /\ initialProcessEventReady' = FirstEventReady
  /\ quit' = FALSE /\ ownerFinished' = FALSE /\ cleanupOnly' = FALSE
  /\ breakRequested' = FALSE /\ traceSync' = FALSE
  /\ UNCHANGED <<requests, job, call, state, attemptOpen, sessionGeneration, destroying, shared,
                 thread, owner, custody, process, ui, bounds>>

\* thread_ = std::thread(...), which may throw.
Spawn ==
  /\ worker = "spawn"
  /\ \E ok \in BOOLEAN :
       /\ Try(ok)
       /\ thread' = ok
       /\ owner' = IF ok THEN "start" ELSE owner
       /\ worker' = IF ok THEN "evaluate" ELSE "check"
  /\ UNCHANGED <<requests, job, call, session, edits, startup, answers, sessionGeneration,
                 destroying, flags, custody, process, ui, stops, presses>>

\* waitForStartup: the predicate, and the sleep it may lead to.
Evaluate ==
  /\ worker = "evaluate"
  /\ worker' = IF StartupReady THEN "decide" ELSE "falling"
  /\ UNCHANGED <<requests, job, call, session, edits, startup, answers, sessionGeneration,
                 destroying, flags, thread, owner, custody, process, ui, bounds>>

FallAsleep ==
  /\ worker = "falling" /\ worker' = "asleep"
  /\ UNCHANGED <<requests, job, call, session, edits, startup, answers, sessionGeneration,
                 destroying, flags, thread, owner, custody, process, ui, bounds>>

\* waitForStartup after its wait.  The wait may end by its timeout; the predicate
\* is then evaluated once more, and decides.
Decide ==
  /\ worker \in {"decide", "asleep"}
  /\ LET timedOut  == ~StartupReady
         aborted   == timedOut \/ lifecycleCancel
         ended     == ~aborted /\ startupOk /\ ~initialProcessEventReady
         succeeded == ~aborted /\ ~ended /\ startupOk
     IN /\ startupOk' = succeeded
        /\ startupDone' = (startupDone \/ aborted)
        /\ quit' = (quit \/ aborted)
        /\ pendingCommand' = IF aborted THEN "Detach" ELSE pendingCommand
        /\ job' = [job EXCEPT !.succeeded = succeeded]
        /\ worker' = IF succeeded THEN "check" ELSE "calling"
        /\ call' = IF succeeded THEN NoCall
                   ELSE [step |-> IF aborted THEN "early" ELSE "enter", from |-> "startup"]
  /\ UNCHANGED <<requests, state, cleanupOnly, edits, initialProcessEventReady, answers,
                 sessionGeneration, destroying, flags, thread, owner, custody, process, ui, bounds>>

\* Back from attach: "cancellation also covers the race after Win32 succeeded".
Check ==
  /\ worker = "check" /\ MtxFree
  /\ job' = [job EXCEPT !.succeeded = @ /\ ~lifecycleCancel,
                        !.target = IF job.succeeded /\ ~lifecycleCancel
                                   THEN sessionGeneration ELSE 0]
  /\ IF lifecycleCancel /\ job.attempted
     THEN worker' = "calling" /\ call' = [step |-> "enter", from |-> "cancelled"]
     ELSE worker' = "commit" /\ UNCHANGED call
  /\ UNCHANGED <<requests, session, edits, startup, answers, sessionGeneration, destroying, flags,
                 thread, owner, custody, process, ui, bounds>>

Publish(outcome) ==
  /\ lifecycle' = [lifecycle EXCEPT
       !.busy = FALSE, !.completed = TRUE, !.succeeded = outcome.succeeded,
       !.cancelled = ~outcome.cleanupFailed /\ lifecycleCancel /\ lifecycle.command # "Detach",
       !.target = outcome.target]
  /\ worker' = "idle"

Commit ==
  /\ worker = "commit"
  /\ IF CancelledAtCommit(job.succeeded)
     THEN /\ worker' = "calling" /\ call' = [step |-> "enter", from |-> "commit"]
          /\ UNCHANGED lifecycle
     ELSE Publish(job) /\ UNCHANGED call
  /\ UNCHANGED <<lifecycleCancel, lifecycleQueued, lifecycleShutdown, job, session, edits, startup,
                 answers, sessionGeneration, destroying, flags, thread, owner, custody, process,
                 ui, bounds>>

CommitCancelled ==
  /\ worker = "publish" /\ Publish(job)
  /\ UNCHANGED <<lifecycleCancel, lifecycleQueued, lifecycleShutdown, job, call, session, edits,
                 startup, answers, sessionGeneration, destroying, flags, thread, owner, custody,
                 process, ui, bounds>>

----------------------------------------------------------------------------
(* detach(), and the break that waitForStartup requests before it.         *)

Step(next) == call' = [call EXCEPT !.step = next]

\* What the caller does with the result.
Return(detached) ==
  /\ call' = NoCall
  /\ worker' = CASE call.from = "replace" -> IF Replaces(detached) THEN "session" ELSE "check"
                 [] call.from = "startup" -> "check"
                 [] call.from \in {"request", "cancelled"} -> "commit"
                 [] call.from = "commit" -> "publish"
                 [] call.from = "destroy" -> worker
  /\ job' = CASE call.from = "request" -> [job EXCEPT !.succeeded = detached]
              [] call.from = "cancelled" -> [job EXCEPT !.cleanupFailed = ~detached,
                                               !.target = IF detached THEN 0 ELSE sessionGeneration]
              [] call.from = "commit" -> [job EXCEPT !.succeeded = FALSE,
                                            !.cleanupFailed = ~detached,
                                            !.target = IF detached THEN 0 ELSE sessionGeneration]
              [] OTHER -> job
  /\ ui' = IF call.from = "destroy" THEN "joinOwner" ELSE ui

Enter ==
  /\ call.step = "enter" /\ MtxFree
  /\ Step(IF thread THEN "sync" ELSE "settle")
  /\ UNCHANGED <<requests, worker, job, session, edits, startup, answers, sessionGeneration,
                 destroying, flags, thread, owner, custody, process, ui, bounds>>

\* requestTraceSyncBreak, in its three steps.
SyncRead(at, flag, next) ==
  /\ call.step = at /\ MtxFree
  /\ Step(IF ~cleanupOnly /\ state = "Running" THEN flag ELSE next)
  /\ UNCHANGED <<requests, worker, job, session, edits, startup, answers, sessionGeneration,
                 destroying, flags, thread, owner, custody, process, ui, bounds>>

SyncFlag(at, inject, next) ==
  /\ call.step = at /\ HProcFree
  /\ traceSync' = (traceSync \/ shared)
  /\ Step(IF SyncFlags THEN inject ELSE next)
  /\ UNCHANGED <<requests, worker, job, session, edits, startup, answers, sessionGeneration,
                 destroying, breakRequested, shared, thread, owner, custody, process, ui, bounds>>

SyncInject(at, next) ==
  /\ call.step = at
  /\ \E ok \in BOOLEAN : Inject(ok) /\ traceSync' = (traceSync /\ ok)
  /\ Step(next)
  /\ UNCHANGED <<requests, worker, job, session, edits, startup, answers, sessionGeneration,
                 destroying, breakRequested, shared, thread, owner, custody, target, announced,
                 killed, dirty, ui, stops, presses>>

PostDetach ==
  /\ call.step = "post" /\ MtxFree
  /\ attemptOpen' = TRUE /\ quit' = TRUE /\ pendingCommand' = "Detach"
  /\ Step("wait")
  /\ UNCHANGED <<requests, worker, job, state, cleanupOnly, edits, startup, ownerFinished,
                 sessionGeneration, destroying, flags, thread, owner, custody, process, ui, bounds>>

AwaitAnswer ==
  /\ call.step = "wait" /\ MtxFree /\ Answered
  /\ IF ownerFinished
     THEN Step("join") /\ UNCHANGED <<worker, job, ui>>
     ELSE Return(FALSE)
  /\ UNCHANGED <<requests, session, edits, startup, answers, sessionGeneration, destroying, flags,
                 thread, owner, custody, process, bounds>>

Join ==
  /\ call.step = "join" /\ owner = "done"
  /\ thread' = FALSE /\ Step("settle")
  /\ UNCHANGED <<requests, worker, job, session, edits, startup, answers, sessionGeneration,
                 destroying, flags, owner, custody, process, ui, bounds>>

\* The end of detach(): nothing of the old session is left.
Settle ==
  /\ call.step = "settle" /\ MtxFree
  /\ pendingCommand' = "None" /\ state' = "Detached" /\ cleanupOnly' = FALSE /\ edits' = FALSE
  /\ Return(TRUE)
  /\ UNCHANGED <<requests, quit, startup, answers, sessionGeneration, destroying, flags, thread,
                 owner, custody, process, bounds>>

----------------------------------------------------------------------------
(* The debug-event owner: threadEntry and threadMain.                      *)

OwnerKeeps == UNCHANGED <<requests, routines, sessionGeneration, destroying, thread, ui, stops,
                          presses>>

StartupFails == startupOk' = FALSE /\ startupDone' = TRUE /\ UNCHANGED initialProcessEventReady

OwnerStart ==
  /\ owner = "start" /\ MtxFree
  /\ IF quit \/ lifecycleCancel
     THEN owner' = "end" /\ StartupFails
     ELSE owner' = "create" /\ UNCHANGED startup
  /\ UNCHANGED <<session, edits, answers, flags, custody, process, faults>> /\ OwnerKeeps

\* DebugActiveProcess or CreateProcessW.
CreateTarget ==
  /\ owner = "create" /\ MtxFree
  /\ \E ok \in BOOLEAN :
       /\ Try(ok)
       /\ owned' = ok
       /\ IF ok
          THEN /\ owner' = "publish" /\ UNCHANGED startup
               /\ target' = "running" /\ announced' = FALSE /\ killed' = FALSE
               /\ breaks' = 0 /\ dirty' = FALSE
          ELSE owner' = "end" /\ StartupFails /\ UNCHANGED process
  /\ UNCHANGED <<session, edits, answers, flags, alive, held, prepared, opened>>
  /\ UNCHANGED <<requests, routines, sessionGeneration, destroying, thread, ui, stops, presses>>

\* What follows the publication may still throw, before the event loop catches.
PublishStartup ==
  /\ owner = "publish" /\ MtxFree
  /\ \E ok \in BOOLEAN :
       /\ Try(ok)
       /\ alive' = ok
       /\ owner' = IF ok THEN "pump" ELSE "emergency"
  /\ state' = "Running" /\ sessionGeneration' = sessionGeneration + 1
  /\ startupOk' = TRUE /\ startupDone' = TRUE /\ UNCHANGED initialProcessEventReady
  /\ held' = FALSE /\ prepared' = FALSE /\ UNCHANGED <<opened, owned>>
  /\ UNCHANGED <<requests, routines, cleanupOnly, quit, pendingCommand, edits, answers, destroying,
                 flags, thread, process, ui, stops, presses>>

\* threadEntry's catch: an exception before the publication.
StartupThrows ==
  /\ owner = "publish" /\ HProcFree /\ Try(FALSE)
  /\ shared' = FALSE /\ owner' = "emergency"
  /\ UNCHANGED <<session, edits, startup, answers, traceSync, breakRequested, custody, process>>
  /\ OwnerKeeps

\* emergencyThreadCleanup: no record of ownership but the debug object.
EmergencyRelease ==
  /\ owner = "emergency" /\ MtxFree
  /\ \E ok \in BOOLEAN :
       /\ Try(ok)
       /\ owned' = (owned /\ ~ok) /\ cleanupOnly' = ~ok
       /\ state' = IF ok THEN "Detached" ELSE "Paused"
       /\ quit' = (quit /\ ok) /\ pendingCommand' = "None"
       /\ attemptOpen' = IF ok THEN attemptOpen ELSE FALSE
       /\ owner' = IF ok THEN "end" ELSE "emergencyWait"
  /\ StartupFails
  /\ UNCHANGED <<edits, ownerFinished, flags, alive, held, prepared, opened, process>>
  /\ OwnerKeeps

EmergencyRetry ==
  /\ owner = "emergencyWait" /\ MtxFree /\ (attemptOpen \/ destroying)
  /\ quit' = TRUE /\ owner' = "emergency"
  /\ UNCHANGED <<state, cleanupOnly, pendingCommand, edits, startup, answers, flags, custody,
                 process, faults>> /\ OwnerKeeps

\* WaitForDebugEvent returns: the target stops, queued edits are applied, and the
\* event may pause it.
Arrive ==
  /\ owner = "pump" /\ target = "running" /\ MtxFree
  /\ target' = "stopped"

Pauses(pause) ==
  /\ owner' = IF pause THEN "paused" ELSE "resume"
  /\ state' = IF pause THEN "Paused" ELSE state
  /\ dirty' = (dirty \/ edits) /\ edits' = FALSE
  /\ UNCHANGED <<cleanupOnly, quit, pendingCommand>>

\* CREATE_PROCESS_DEBUG_EVENT opens the process.
CreateEvent ==
  /\ Arrive /\ HProcFree /\ ~announced
  /\ announced' = TRUE /\ opened' = TRUE /\ shared' = TRUE
  /\ initialProcessEventReady' = TRUE
  /\ \E pause \in BOOLEAN : Pauses(pause)
  /\ UNCHANGED <<startupOk, startupDone, answers, traceSync, breakRequested, alive, held, prepared,
                 owned, killed, breaks, faults>> /\ OwnerKeeps

\* A breakpoint, an exception, a module or a thread.
StopEvent ==
  /\ Arrive /\ announced /\ ~killed /\ May("stops")
  /\ stops' = stops + 1
  /\ \E pause \in BOOLEAN : Pauses(pause)
  /\ UNCHANGED <<startup, answers, flags, custody, announced, killed, breaks, faults, requests,
                 routines, sessionGeneration, destroying, thread, ui, presses>>

\* An injected break: the flags tell whose it is.
BreakEvent ==
  /\ Arrive /\ announced /\ ~killed /\ breaks > 0
  /\ breaks' = breaks - 1
  /\ breakRequested' = FALSE
  /\ traceSync' = (traceSync /\ breakRequested)
  /\ Pauses(breakRequested)
  /\ UNCHANGED <<startup, answers, shared, custody, announced, killed, faults>> /\ OwnerKeeps

ExitEvent ==
  /\ Arrive /\ announced /\ killed
  /\ state' = "Terminated" /\ alive' = FALSE /\ owner' = "resume"
  /\ UNCHANGED <<cleanupOnly, quit, pendingCommand, edits, startup, answers, flags, held, prepared,
                 opened, owned, announced, killed, breaks, dirty, faults>> /\ OwnerKeeps

\* "Wait for that event so cleanup owns a stopped process".
LeavesPump == quit /\ ~traceSync

PumpTimeout ==
  /\ owner = "pump" /\ LeavesPump /\ owner' = "leave"
  /\ UNCHANGED <<session, edits, startup, answers, flags, custody, process, faults>> /\ OwnerKeeps

\* ContinueDebugEvent; when it fails the event is held for cleanup.
Resumes(next) ==
  \E ok \in BOOLEAN :
    /\ Try(ok)
    /\ target' = IF ~ok THEN target ELSE IF alive THEN "running" ELSE "exited"
    /\ held' = ~ok
    /\ owner' = IF ok THEN next ELSE "leave"

\* waitForCommand: edits are served before commands.
ServeEdits ==
  /\ owner = "paused" /\ MtxFree /\ ~quit /\ ~killed /\ edits
  /\ edits' = FALSE /\ dirty' = TRUE
  /\ UNCHANGED <<owner, session, startup, answers, flags, custody, target, announced, killed,
                 breaks, faults>> /\ OwnerKeeps

\* A terminated target must be continued for its exit event to come.
DrainExit ==
  /\ owner = "paused" /\ MtxFree /\ killed /\ (quit \/ edits \/ pendingCommand # "None")
  /\ state' = "Running"
  /\ pendingCommand' = IF quit \/ edits THEN pendingCommand ELSE "None"
  /\ Resumes("pump")
  /\ UNCHANGED <<cleanupOnly, quit, edits, startup, answers, flags, alive, prepared, opened, owned,
                 announced, killed, breaks, dirty>> /\ OwnerKeeps

\* Detach: a requested break that has not come is drained first.
PausedDetach ==
  /\ owner = "paused" /\ MtxFree /\ quit /\ ~killed
  /\ IF traceSync
     THEN state' = "Running" /\ Resumes("pump")
     ELSE owner' = "leave" /\ held' = TRUE /\ UNCHANGED <<state, target, faults>>
  /\ UNCHANGED <<cleanupOnly, quit, pendingCommand, edits, startup, answers, flags, alive, prepared,
                 opened, owned, announced, killed, breaks, dirty>> /\ OwnerKeeps

\* What cannot be prepared for execution stays paused.
PausedContinue ==
  /\ owner = "paused" /\ MtxFree /\ ~quit /\ ~killed /\ ~edits /\ pendingCommand = "Continue"
  /\ pendingCommand' = "None"
  /\ \E ok \in BOOLEAN :
       /\ Try(ok)
       /\ state' = IF ok THEN "Running" ELSE "Paused"
       /\ owner' = IF ok THEN "resume" ELSE "paused"
  /\ UNCHANGED <<cleanupOnly, quit, edits, startup, answers, flags, custody, process>> /\ OwnerKeeps

\* The end of an event's handling.
Resume ==
  /\ owner = "resume"
  /\ IF quit /\ alive /\ ~traceSync
     THEN owner' = "leave" /\ held' = TRUE /\ UNCHANGED <<target, faults>>
     ELSE Resumes(IF alive THEN "pump" ELSE "leave")
  /\ UNCHANGED <<session, edits, startup, answers, flags, alive, prepared, opened, owned, announced,
                 killed, breaks, dirty>> /\ OwnerKeeps

\* The catch around the event loop keeps an outstanding event for cleanup.
OwnerThrows ==
  /\ owner \in {"pump", "resume", "paused"} /\ Try(FALSE)
  /\ held' = (target = "stopped") /\ quit' = TRUE /\ owner' = "leave"
  /\ UNCHANGED <<state, cleanupOnly, pendingCommand, edits, startup, answers, flags, alive, prepared,
                 opened, owned, process>> /\ OwnerKeeps

----------------------------------------------------------------------------
(* Cleanup, by the owner of the event.                                     *)

Leave ==
  /\ owner = "leave" /\ MtxFree /\ owner' = "disown"
  /\ cleanupOnly' = TRUE /\ pendingCommand' = "None"
  /\ state' = IF alive THEN "Paused" ELSE state
  /\ UNCHANGED <<quit, edits, startup, answers, flags, custody, process, faults>> /\ OwnerKeeps

Disown ==
  /\ owner = "disown" /\ HProcFree /\ owner' = "attempt"
  /\ shared' = FALSE /\ breakRequested' = FALSE
  /\ UNCHANGED <<session, edits, startup, answers, traceSync, custody, process, faults>> /\ OwnerKeeps

\* The first part of an attempt restores the target's memory and threads.
Attempt ==
  /\ owner = "attempt"
  /\ \/ /\ ~alive \/ (prepared /\ ~(held /\ killed))
        /\ owner' = "acknowledge" /\ UNCHANGED <<held, prepared, target, dirty, faults>>
     \/ /\ alive /\ ~prepared /\ ~HasEvent
        /\ owner' = "failed" /\ UNCHANGED <<held, prepared, target, dirty, faults>>
     \/ /\ alive /\ ~prepared /\ HasEvent /\ ~killed
        /\ \E ok \in BOOLEAN :
             /\ Try(ok)
             /\ dirty' = (dirty /\ ~ok)
             /\ prepared' = CleanupComplete(ok)
             /\ owner' = IF CleanupComplete(ok) THEN "acknowledge" ELSE "failed"
        /\ UNCHANGED <<held, target>>
     \/ /\ alive /\ held /\ killed   \* its exit event is drained instead
        /\ \E ok \in BOOLEAN :
             /\ Try(ok)
             /\ held' = ~ok
             /\ target' = IF ok THEN "running" ELSE target
             /\ owner' = IF ok THEN "pump" ELSE "failed"
        /\ UNCHANGED <<prepared, dirty>>
  /\ UNCHANGED <<session, edits, startup, answers, flags, alive, opened, owned, announced, killed,
                 breaks>> /\ OwnerKeeps

\* The event is continued only after everything is restored.
Acknowledge ==
  /\ owner = "acknowledge"
  /\ IF alive /\ held
     THEN \E ok \in BOOLEAN :
            /\ Try(ok)
            /\ held' = ~ok
            /\ target' = IF ok THEN "running" ELSE target
            /\ owner' = IF ok THEN "release" ELSE "failed"
     ELSE owner' = "release" /\ UNCHANGED <<held, target, faults>>
  /\ UNCHANGED <<session, edits, startup, answers, flags, alive, prepared, opened, owned, announced,
                 killed, breaks, dirty>> /\ OwnerKeeps

\* DebugActiveProcessStop; a target that has exited needs none.
Release ==
  /\ owner = "release"
  /\ \E ok \in BOOLEAN :
       /\ IF alive THEN Try(ok) ELSE ok /\ UNCHANGED faults
       /\ owned' = ~ok
       /\ owner' = IF ok THEN "finish" ELSE "failed"
  /\ target' = IF alive THEN target ELSE "exited"
  /\ UNCHANGED <<session, edits, startup, answers, flags, alive, held, prepared, opened, announced,
                 killed, breaks, dirty>> /\ OwnerKeeps

\* A failed attempt is answered, and everything is retained.
Failed ==
  /\ owner = "failed" /\ MtxFree /\ owner' = "retained"
  /\ cleanupOnly' = TRUE /\ quit' = FALSE /\ pendingCommand' = "None"
  /\ state' = IF held THEN "Paused" ELSE "Running"
  /\ attemptOpen' = AttemptAnswered
  /\ UNCHANGED <<edits, startup, ownerFinished, flags, custody, process, faults>> /\ OwnerKeeps

\* The next attempt; a target that runs is broken into first.
Retry ==
  /\ owner = "retained" /\ MtxFree /\ Retries
  /\ quit' = TRUE
  /\ IF alive /\ ~held /\ ~prepared
     THEN IF ~opened \/ traceSync
          THEN owner' = "pump" /\ UNCHANGED <<traceSync, breaks, faults>>
          ELSE \E ok \in BOOLEAN :
                 /\ Inject(ok)
                 /\ traceSync' = ok
                 /\ owner' = IF ok THEN "pump" ELSE "attempt"
     ELSE owner' = "attempt" /\ UNCHANGED <<traceSync, breaks, faults>>
  /\ UNCHANGED <<state, cleanupOnly, pendingCommand, edits, startup, answers, breakRequested, shared,
                 custody, target, announced, killed, dirty>> /\ OwnerKeeps

Finish ==
  /\ owner = "finish" /\ MtxFree /\ HProcFree /\ owner' = "end"
  /\ cleanupOnly' = FALSE
  /\ state' = IF state = "Terminated" THEN state ELSE "Detached"
  /\ shared' = FALSE /\ opened' = FALSE
  /\ UNCHANGED <<quit, pendingCommand, edits, startup, answers, traceSync, breakRequested, alive, held,
                 prepared, owned, process, faults>> /\ OwnerKeeps

\* The last statements of threadEntry.
End ==
  /\ owner = "end" /\ MtxFree /\ owner' = "done"
  /\ ownerFinished' = TRUE /\ attemptOpen' = FALSE
  /\ UNCHANGED <<session, edits, startup, flags, custody, process, faults>> /\ OwnerKeeps

----------------------------------------------------------------------------
\* Somebody terminates the target.
Kill ==
  /\ May("stops") /\ owned /\ target \in {"running", "stopped"} /\ ~killed
  /\ killed' = TRUE /\ stops' = stops + 1
  /\ UNCHANGED <<requests, routines, session, edits, startup, answers, sessionGeneration,
                 destroying, flags, thread, owner, custody, target, announced, breaks, dirty, ui,
                 faults, presses>>

Worker == \/ Take \/ BeginAttach \/ BeginDetach \/ BeginSession \/ Spawn \/ Evaluate \/ FallAsleep
          \/ Decide \/ Check \/ Commit \/ CommitCancelled

Detaching == \/ Enter
             \/ SyncRead("early", "earlyFlag", "enter")
             \/ SyncFlag("earlyFlag", "earlyInject", "enter") \/ SyncInject("earlyInject", "enter")
             \/ SyncRead("sync", "flag", "post")
             \/ SyncFlag("flag", "inject", "post") \/ SyncInject("inject", "post")
             \/ PostDetach \/ AwaitAnswer \/ Join \/ Settle

Owner == \/ OwnerStart \/ CreateTarget \/ PublishStartup
         \/ EmergencyRelease \/ EmergencyRetry
         \/ CreateEvent \/ BreakEvent \/ ExitEvent \/ PumpTimeout
         \/ ServeEdits \/ DrainExit \/ PausedDetach \/ PausedContinue \/ Resume
         \/ Leave \/ Disown \/ Attempt \/ Acknowledge \/ Release \/ Failed \/ Retry
         \/ Finish \/ End

Pressed == PauseFlag \/ PauseInject \/ EditFlag \/ EditInject \/ JoinWorker \/ JoinOwner

User == RequestAttach \/ RequestLaunch \/ RequestDetach \/ CancelLifecycle \/ Continue
          \/ PressPause \/ QueueEdit \/ Destroy

Next == Worker \/ Detaching \/ Owner \/ Pressed \/ User
          \/ StopEvent \/ StartupThrows \/ OwnerThrows \/ Kill

Spec == Init /\ [][Next]_vars

\* Every thread runs on.  An event that is due is not missed by every 100 ms poll:
\* it is queued by Windows, and the next poll returns it.  Nobody has to press a
\* button, and nothing has to fail.
FairSpec ==
  /\ Spec /\ WF_vars(Worker) /\ WF_vars(Detaching) /\ WF_vars(Owner) /\ WF_vars(Pressed)
  /\ SF_vars(CreateEvent \/ BreakEvent \/ ExitEvent)

----------------------------------------------------------------------------
(* Properties.                                                             *)

\* The type of every variable; a startup that succeeded is over.
TypeOK ==
  /\ {lifecycleCancel, lifecycleQueued, lifecycleShutdown, cleanupOnly, quit, edits, startupOk,
      startupDone, initialProcessEventReady, ownerFinished, attemptOpen, destroying, traceSync,
      breakRequested, shared, thread, alive, held, prepared, opened, owned, announced, killed,
      dirty} \subseteq BOOLEAN
  /\ {sessionGeneration, breaks, faults, stops, presses} \subseteq Nat
  /\ lifecycle \in [requestId : Nat, command : {"None", "Attach", "Launch", "Detach"},
                    expected : Nat, busy : BOOLEAN, completed : BOOLEAN, succeeded : BOOLEAN,
                    cancelled : BOOLEAN, target : Nat]
  /\ lifecycle.succeeded => ~lifecycle.cancelled
  /\ job \in [attempted : BOOLEAN, succeeded : BOOLEAN, cleanupFailed : BOOLEAN, target : Nat]
  /\ state \in {"Detached", "Running", "Paused", "Terminated"}
  /\ pendingCommand \in {"None", "Continue", "Detach"}
  /\ target \in {"none", "running", "stopped", "exited"}
  /\ ui \in {"free", "pause", "pauseInject", "edit", "editInject", "joinWorker", "detach",
             "joinOwner", "gone"}

\* A debug session's thread is never replaced while it is joinable, which would
\* terminate the program.
ThreadNotOverwritten == worker = "spawn" => ~thread

\* A cancellation that was accepted is never followed by success, even when it
\* comes between the native success and its publication.
AcceptedCancelNeverSucceeds ==
  lifecycle.completed /\ lifecycleCancel /\ ~lifecycleShutdown => ~lifecycle.succeeded

\* The target an attach reports is one whose first event has come: its bitness
\* and its main image are known.
SuccessHasItsImage ==
  lifecycle.succeeded /\ lifecycle.command # "Detach" =>
    announced /\ lifecycle.target = sessionGeneration

\* Once no session thread is joinable, no target is held, stopped or changed.
DetachedMeansReleased ==
  ~thread => ~owned /\ target # "stopped"

\* The target's memory is restored only while one of its events is held.
RestoredWhileHeld ==
  [][dirty /\ ~dirty' => (target = "stopped" /\ held) \/ owner = "create"]_vars

\* A target is let go without the debugger's bytes in it.
ReleasedClean ==
  [][owned /\ ~owned' /\ target' = "running" /\ ~killed => ~dirty]_vars

\* A detach of a session by name never stops a later one.
NamedDetachOnly ==
  [][call.step = "sync" /\ call.from = "request" /\ lifecycle.expected # 0
       => lifecycle.expected = sessionGeneration]_vars

\* The owner waits for an injected break that is not under way: a Pause whose own
\* injection failed has taken it (README, section 5).
LostBreak == owner = "pump" /\ traceSync /\ breaks = 0

\* Retained cleanup of a terminated target holds no event and leaves the last one
\* where it is (README, section 5).
ExitNotPumped == owner \in {"attempt", "failed", "retained"} /\ alive /\ killed /\ ~held

\* Sessions do not overlap: none starts before the thread of the last one is
\* joined, and then nothing of its target is left in the debugger's hands.
SessionsDoNotOverlap == ThreadNotOverwritten /\ DetachedMeansReleased

\* What the interface is told of an attach is true, of a cancelled and of a
\* successful one.
AnswersAreTrue == AcceptedCancelNeverSucceeds /\ SuccessHasItsImage

\* The target is changed back in time: under one of its events, and before it is
\* let go.
RestoredInTime == RestoredWhileHeld /\ ReleasedClean

\* A request is answered and, once it has begun, the destructor returns, unless the
\* owner is from some moment on stuck in one of these two ways.
NobodyWaits == IF lifecycleShutdown THEN ui = "gone" ELSE ~lifecycle.busy

CallsReturn == []<>NobodyWaits \/ <>[](LostBreak \/ ExitNotPumped)

----------------------------------------------------------------------------
\* What the sources say and the code does not keep (README, section 5).

\* "The existing lifecycle always completes detach after bounded cleanup": a request
\* is answered.
RequestCompletes == lifecycle.busy /\ ~lifecycleShutdown ~> ~lifecycle.busy \/ lifecycleShutdown

\* Destruction "keeps retrying until cleanup succeeds or the target exits": one of
\* the two happens.
DestructorReturns == lifecycleShutdown ~> ui = "gone"

\* A startup waiter does not sleep through a cancellation.
WaiterSeesCancel == worker = "asleep" => ~lifecycleCancel

\* A detach fails only when something native failed.
DetachCompletes ==
  lifecycle.completed /\ lifecycle.command = "Detach" /\ faults = 0 /\ ~killed
    => lifecycle.succeeded

\* No break that the debugger injected reaches a target it has released.
NoBreakLeftBehind == target = "running" /\ ~killed /\ ~owned => breaks = 0

=============================================================================
