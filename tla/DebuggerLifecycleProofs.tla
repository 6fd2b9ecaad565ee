---------------------- MODULE DebuggerLifecycleProofs ----------------------
(***************************************************************************)
(* For any number of requests, faults, debug events and presses: sessions  *)
(* do not overlap, an accepted cancellation is never answered by success,  *)
(* and a target is restored under a held event and released clean.         *)
(***************************************************************************)
EXTENDS DebuggerLifecycle, TLAPS

----------------------------------------------------------------------------
(* The inductive invariant, one part per argument.                         *)

Callers  == {"replace", "startup", "request", "cancelled", "commit"}
Waiting  == {"evaluate", "falling", "asleep", "decide"}
Starting == {"start", "create", "publish"}
Handling == {"pump", "paused", "resume"}
Cleaning == {"leave", "disown", "attempt", "acknowledge", "release", "failed", "retained"}

Lifecycles == [requestId : Nat, command : {"None", "Attach", "Launch", "Detach"}, expected : Nat,
               busy : BOOLEAN, completed : BOOLEAN, succeeded : BOOLEAN, cancelled : BOOLEAN,
               target : Nat]
Jobs == [attempted : BOOLEAN, succeeded : BOOLEAN, cleanupFailed : BOOLEAN, target : Nat]

\* TypeOK, one variable after the other, and the values of the program counters.
Types ==
  /\ lifecycle \in Lifecycles /\ (lifecycle.succeeded => ~lifecycle.cancelled)
  /\ job \in Jobs
  /\ lifecycleCancel \in BOOLEAN /\ lifecycleQueued \in BOOLEAN /\ lifecycleShutdown \in BOOLEAN
  /\ cleanupOnly \in BOOLEAN /\ quit \in BOOLEAN /\ edits \in BOOLEAN
  /\ startupOk \in BOOLEAN /\ startupDone \in BOOLEAN /\ initialProcessEventReady \in BOOLEAN
  /\ ownerFinished \in BOOLEAN /\ attemptOpen \in BOOLEAN /\ destroying \in BOOLEAN
  /\ traceSync \in BOOLEAN /\ breakRequested \in BOOLEAN /\ shared \in BOOLEAN
  /\ thread \in BOOLEAN /\ alive \in BOOLEAN /\ held \in BOOLEAN /\ prepared \in BOOLEAN
  /\ opened \in BOOLEAN /\ owned \in BOOLEAN
  /\ announced \in BOOLEAN /\ killed \in BOOLEAN /\ dirty \in BOOLEAN
  /\ sessionGeneration \in Nat /\ breaks \in Nat
  /\ faults \in Nat /\ stops \in Nat /\ presses \in Nat
  /\ state \in {"Detached", "Running", "Paused", "Terminated"}
  /\ pendingCommand \in {"None", "Continue", "Detach"}
  /\ target \in {"none", "running", "stopped", "exited"}
  /\ ui \in {"free", "pause", "pauseInject", "edit", "editInject", "joinWorker", "detach",
             "joinOwner", "gone"}
  /\ worker \in {"idle", "exited", "begin", "calling", "check", "commit", "session", "spawn",
                 "publish"} \cup Waiting
  /\ owner \in {"done", "end", "emergency", "emergencyWait", "finish"}
                 \cup Starting \cup Handling \cup Cleaning
  /\ call \in [step : {"none", "enter", "early", "earlyFlag", "earlyInject", "sync", "flag",
                       "inject", "post", "wait", "join", "settle"},
               from : Callers \cup {"none", "destroy"}]

\* detach() has one caller at a time: the worker, or the destructor after it.
Calls ==
  /\ call.step # "none" =>
       \/ worker = "calling" /\ call.from \in Callers
       \/ worker = "exited" /\ call.from = "destroy"
  /\ call.step # "none" /\ call.from \in Callers =>
       (call.from = "request" <=> lifecycle.command = "Detach")
  /\ worker \in Waiting \cup {"check", "session", "spawn", "publish"} =>
       lifecycle.command # "Detach"

\* A request stays the same while the worker carries it out, and its
\* cancellation can only come before its completion.
Requests ==
  /\ worker \notin {"idle", "exited"} => lifecycle.busy /\ ~lifecycleQueued
  /\ lifecycleQueued => lifecycle.busy
  /\ lifecycle.busy => ~lifecycle.completed /\ ~lifecycle.succeeded
  /\ lifecycle.command = "Detach" /\ lifecycleCancel => lifecycleShutdown
  /\ worker \in Waiting \cup {"begin", "session", "spawn", "publish"} => ~job.succeeded
  /\ call.step # "none" /\ call.from \in {"replace", "startup", "cancelled"} => ~job.succeeded
  /\ AcceptedCancelNeverSucceeds

\* The owner runs only in a joinable thread, and its startup is over before the
\* worker leaves the wait for it, or the detach after it.
Threads ==
  /\ ~thread => owner = "done"
  /\ worker \in {"session", "spawn"} \/ call.step = "settle" => ~thread
  /\ owner # "done" \/ worker = "spawn" => ~ownerFinished
  /\ owner \in Starting =>
       \/ worker \in Waiting
       \/ call.step # "none" /\ call.from = "startup"
  /\ owner \in Starting /\ call.step = "wait" => attemptOpen

\* The first event of a session is announced only after its generation began.
Startup ==
  /\ initialProcessEventReady => announced
  /\ owner \in Starting \/ worker = "spawn" => ~initialProcessEventReady
  /\ job.succeeded /\ worker \in {"check", "commit"} /\ lifecycle.command # "Detach" =>
       initialProcessEventReady
  /\ job.succeeded /\ worker = "commit" /\ lifecycle.command # "Detach" =>
       job.target = sessionGeneration
  /\ lifecycle.succeeded /\ lifecycle.command # "Detach" =>
       initialProcessEventReady /\ lifecycle.target = sessionGeneration

\* A detach by name has checked the name after the last session began.
Named ==
  call.step # "none" /\ call.from = "request" /\ lifecycle.expected # 0 =>
    lifecycle.expected = sessionGeneration

\* Who owns the target, whether it is stopped, and what is still to be restored.
Custody ==
  /\ owner \in {"done", "start", "create", "finish", "end"} => ~owned /\ target # "stopped"
  /\ owner \in {"publish", "emergency", "emergencyWait"} => target = "running" /\ ~dirty
  /\ owner = "pump" => alive /\ ~held /\ target = "running"
  /\ owner = "paused" => alive
  /\ owner \in {"paused", "resume"} => target = "stopped"
  /\ owner \in Handling /\ prepared => killed
  /\ owner \in Cleaning =>
       /\ alive => target = IF held THEN "stopped" ELSE "running"
       /\ prepared /\ dirty => killed
  /\ owner \in {"acknowledge", "release"} /\ alive => prepared
  /\ owner = "release" /\ alive => ~held

IInv == Types /\ Calls /\ Requests /\ Threads /\ Startup /\ Named /\ Custody

----------------------------------------------------------------------------
(* Every step keeps the invariant. *)

\* What Post leaves in the request.
LEMMA PostedType ==
  ASSUME NEW command \in {"Attach", "Launch", "Detach"}, NEW expected \in Nat,
         lifecycle.requestId \in Nat, Post(command, expected)
  PROVE  lifecycle' \in Lifecycles /\ ~lifecycle'.succeeded
<1>1. lifecycle' = [requestId |-> lifecycle.requestId + 1, command |-> command,
                    expected |-> expected, busy |-> TRUE, completed |-> FALSE,
                    succeeded |-> FALSE, cancelled |-> FALSE, target |-> 0]
  BY DEF Post, NoRequest
<1>2. QED
  BY <1>1 DEF Lifecycles

\* What Publish leaves in the request.
LEMMA PublishedRecord ==
  ASSUME NEW l \in Lifecycles, NEW s \in BOOLEAN, NEW c \in BOOLEAN, NEW t \in Nat
  PROVE  [l EXCEPT !.busy = FALSE, !.completed = TRUE, !.succeeded = s, !.cancelled = c,
                   !.target = t] \in Lifecycles
  BY DEF Lifecycles

\* Publish keeps the request's type.
LEMMA PublishedType ==
  ASSUME lifecycle \in Lifecycles, Publish(job), lifecycleCancel \in BOOLEAN,
         job \in Jobs
  PROVE  lifecycle' \in Lifecycles
<1> DEFINE c == ~job.cleanupFailed /\ lifecycleCancel /\ lifecycle.command # "Detach"
<1>1. c \in BOOLEAN
  OBVIOUS
<1>2. job.succeeded \in BOOLEAN /\ job.target \in Nat
  BY DEF Jobs
<1>3. lifecycle' = [lifecycle EXCEPT !.busy = FALSE, !.completed = TRUE,
                      !.succeeded = job.succeeded, !.cancelled = c, !.target = job.target]
  BY DEF Publish
<1> HIDE DEF c
<1>4. QED
  BY <1>1, <1>2, <1>3, PublishedRecord

\* The types after a request was posted.
LEMMA PostTypes ==
  ASSUME Types, NEW command \in {"Attach", "Launch", "Detach"}, NEW expected \in Nat,
         Post(command, expected)
  PROVE  Types'
<1>1. lifecycle.requestId \in Nat
  BY DEF Types, Lifecycles
<1>2. lifecycle' \in Lifecycles /\ ~lifecycle'.succeeded
  BY <1>1, PostedType
<1>3. lifecycleCancel' \in BOOLEAN /\ lifecycleQueued' \in BOOLEAN
  BY DEF Post
<1>4. QED
  BY <1>2, <1>3 DEF Post, Types, routines, session, startup, answers, flags, custody, process,
       bounds

\* What a return from detach() leaves in its caller.
Returned(detached) ==
  /\ job' \in Jobs /\ call' = NoCall /\ ui' \in {ui, "joinOwner"}
  /\ worker' \in {"session", "check", "commit", "publish", "exited"}
  /\ call.from \notin {"request", "commit"} => job'.succeeded = job.succeeded
  /\ worker' = "session" => detached /\ call.from = "replace"
  /\ worker' = "check" => call.from \in {"replace", "startup"}
  /\ worker' = "commit" => call.from \in {"request", "cancelled"}
  /\ worker' = "publish" => call.from = "commit" /\ ~job'.succeeded
  /\ worker' = "exited" => call.from = "destroy"

LEMMA ReturnResult ==
  ASSUME Types, Calls, call.step # "none", NEW detached \in BOOLEAN, Return(detached)
  PROVE  Returned(detached)
<1> USE DEF Returned
<1>1. call.from \in Callers \cup {"destroy"} /\ (call.from = "destroy" => worker = "exited")
  BY DEF Calls, Callers
<1>2. CASE call.from \in {"replace", "startup"}
  BY <1>2 DEF Return, Replaces, Types, NoCall
<1>3. CASE call.from = "request"
  BY <1>3 DEF Return, Types, Jobs, NoCall
<1>4. CASE call.from \in {"cancelled", "commit"}
  <2>1. sessionGeneration \in Nat
    BY DEF Types
  <2>2. QED
    BY <1>4, <2>1 DEF Return, Types, Jobs, NoCall
<1>5. CASE call.from = "destroy"
  BY <1>1, <1>5 DEF Return, Types, NoCall
<1>6. QED
  BY <1>1, <1>2, <1>3, <1>4, <1>5 DEF Callers


\* The UI's requests and buttons.
LEMMA UserKeeps == IInv /\ User => IInv'
<1> SUFFICES ASSUME IInv, User PROVE IInv'
  OBVIOUS
<1> USE DEF IInv, vars, requests, routines, session, startup, answers, flags, custody, process, bounds,
           Callers, Waiting, Starting, Handling, Cleaning, NoRequest, NoJob, NoCall
<1>1. CASE RequestAttach
  <2>1. PICK expected \in Nat : Post("Attach", expected)
    BY <1>1 DEF RequestAttach
  <2>2. Types'
    BY <2>1, PostTypes
  <2>3. lifecycle'.busy /\ ~lifecycle'.completed /\ ~lifecycle'.succeeded
          /\ lifecycle'.command = "Attach"
    BY <2>1 DEF Post
  <2>4. worker \in {"idle", "exited"} /\ call'.from = call.from /\ (call.step # "none" => call.from \notin Callers)
    BY <1>1, <2>1 DEF RequestAttach, MayRequest, Post, Calls, Requests
  <2>5. Calls'
    BY <2>1, <2>3, <2>4 DEF Post, Calls
  <2>6. Requests'
    BY <2>1, <2>3, <2>4 DEF Post, Requests, AcceptedCancelNeverSucceeds
  <2>7. Startup'
    BY <2>1, <2>3, <2>4 DEF Post, Startup
  <2>8. Threads' /\ Named' /\ Custody'
    BY <2>1, <2>4 DEF Post, Threads, Named, Custody
  <2>9. QED
    BY <2>2, <2>5, <2>6, <2>7, <2>8
<1>2. CASE RequestLaunch
  <2>1. PICK expected \in Nat : Post("Launch", expected)
    BY <1>2 DEF RequestLaunch
  <2>2. Types'
    BY <2>1, PostTypes
  <2>3. lifecycle'.busy /\ ~lifecycle'.completed /\ ~lifecycle'.succeeded
          /\ lifecycle'.command = "Launch"
    BY <2>1 DEF Post
  <2>4. worker \in {"idle", "exited"} /\ call'.from = call.from /\ (call.step # "none" => call.from \notin Callers)
    BY <1>2, <2>1 DEF RequestLaunch, MayRequest, Post, Calls, Requests
  <2>5. Calls'
    BY <2>1, <2>3, <2>4 DEF Post, Calls
  <2>6. Requests'
    BY <2>1, <2>3, <2>4 DEF Post, Requests, AcceptedCancelNeverSucceeds
  <2>7. Startup'
    BY <2>1, <2>3, <2>4 DEF Post, Startup
  <2>8. Threads' /\ Named' /\ Custody'
    BY <2>1, <2>4 DEF Post, Threads, Named, Custody
  <2>9. QED
    BY <2>2, <2>5, <2>6, <2>7, <2>8
<1>3. CASE RequestDetach
  <2>1. PICK expected \in Nat : Post("Detach", expected)
    BY <1>3 DEF RequestDetach, Types
  <2>2. Types'
    BY <2>1, PostTypes
  <2>3. lifecycle'.busy /\ ~lifecycle'.completed /\ ~lifecycle'.succeeded
          /\ lifecycle'.command = "Detach"
    BY <2>1 DEF Post
  <2>4. worker \in {"idle", "exited"} /\ call'.from = call.from /\ (call.step # "none" => call.from \notin Callers)
    BY <1>3, <2>1 DEF RequestDetach, MayRequest, Post, Calls, Requests
  <2>5. Calls'
    BY <2>1, <2>3, <2>4 DEF Post, Calls
  <2>6. Requests'
    BY <2>1, <2>3, <2>4 DEF Post, Requests, AcceptedCancelNeverSucceeds
  <2>7. Startup'
    BY <2>1, <2>3, <2>4 DEF Post, Startup
  <2>8. Threads' /\ Named' /\ Custody'
    BY <2>1, <2>4 DEF Post, Threads, Named, Custody
  <2>9. QED
    BY <2>2, <2>5, <2>6, <2>7, <2>8
<1>4. CASE CancelLifecycle
  <2>1. Types'
    BY <1>4 DEF CancelLifecycle, Types
  <2>2. Calls'
    BY <1>4 DEF CancelLifecycle, Types, Calls, Requests
  <2>3. Requests'
    BY <1>4 DEF CancelLifecycle, Types, Calls, Requests, AcceptedCancelNeverSucceeds
  <2>4. Threads'
    BY <1>4 DEF CancelLifecycle, Types, Calls, Threads, Startup
  <2>5. Startup'
    BY <1>4 DEF CancelLifecycle, Types, Calls, Requests, Threads, Startup
  <2>6. Named' /\ Custody'
    BY <1>4 DEF CancelLifecycle, Named, Custody
  <2>7. QED
    BY <2>1, <2>2, <2>3, <2>4, <2>5, <2>6
<1>5. CASE Continue
  <2>1. Types'
    BY <1>5 DEF Continue, Types
  <2>2. Calls' /\ Requests' /\ Threads' /\ Startup' /\ Named' /\ Custody'
    BY <1>5 DEF Continue, Calls, Requests, AcceptedCancelNeverSucceeds, Threads, Startup, Named,
           Custody
  <2>3. QED
    BY <2>1, <2>2
<1>6. CASE PressPause
  <2>1. Types'
    BY <1>6 DEF PressPause, Types
  <2>2. Calls' /\ Requests' /\ Threads' /\ Startup' /\ Named' /\ Custody'
    BY <1>6 DEF PressPause, Calls, Requests, AcceptedCancelNeverSucceeds, Threads, Startup,
           Named, Custody
  <2>3. QED
    BY <2>1, <2>2
<1>7. CASE QueueEdit
  <2>1. Types'
    BY <1>7 DEF QueueEdit, Types
  <2>2. Calls' /\ Requests' /\ Threads' /\ Startup' /\ Named' /\ Custody'
    BY <1>7 DEF QueueEdit, Calls, Requests, AcceptedCancelNeverSucceeds, Threads, Startup,
           Named, Custody
  <2>3. QED
    BY <2>1, <2>2
<1>8. CASE Destroy
  <2>1. Types'
    <3>1. lifecycleCancel' \in BOOLEAN /\ lifecycleQueued' \in BOOLEAN
          /\ lifecycleShutdown' \in BOOLEAN
      BY <1>8 DEF Destroy
    <3>2. QED
      BY <1>8, <3>1 DEF Destroy, Types
  <2>2. Calls'
    BY <1>8 DEF Destroy, Types, Calls, Requests
  <2>3. Requests'
    BY <1>8 DEF Destroy, Types, Calls, Requests, AcceptedCancelNeverSucceeds
  <2>4. Threads'
    BY <1>8 DEF Destroy, Types, Calls, Threads, Startup
  <2>5. Startup'
    BY <1>8 DEF Destroy, Types, Calls, Requests, Threads, Startup
  <2>6. Named' /\ Custody'
    BY <1>8 DEF Destroy, Named, Custody
  <2>7. QED
    BY <2>1, <2>2, <2>3, <2>4, <2>5, <2>6
<1>9. QED
  BY <1>1, <1>2, <1>3, <1>4, <1>5, <1>6, <1>7, <1>8 DEF User

\* The rest of a button that was pressed, and the destructor.
LEMMA PressedKeeps == IInv /\ Pressed => IInv'
<1> SUFFICES ASSUME IInv, Pressed PROVE IInv'
  OBVIOUS
<1> USE DEF IInv, vars, requests, routines, session, startup, answers, flags, custody, process, bounds,
           Callers, Waiting, Starting, Handling, Cleaning, NoRequest, NoJob, NoCall
<1>1. CASE PauseFlag
  <2>1. Types'
    BY <1>1 DEF PauseFlag, Types
  <2>2. Calls' /\ Requests' /\ Threads' /\ Startup' /\ Named' /\ Custody'
    BY <1>1 DEF PauseFlag, Calls, Requests, AcceptedCancelNeverSucceeds, Threads, Startup,
           Named, Custody
  <2>3. QED
    BY <2>1, <2>2
<1>2. CASE PauseInject
  <2>1. Types'
    BY <1>2 DEF PauseInject, Inject, Try, Types
  <2>2. Calls' /\ Requests' /\ Threads' /\ Startup' /\ Named' /\ Custody'
    BY <1>2 DEF PauseInject, Inject, Try, Calls, Requests, AcceptedCancelNeverSucceeds, Threads,
           Startup, Named, Custody
  <2>3. QED
    BY <2>1, <2>2
<1>3. CASE EditFlag
  <2>1. Types'
    BY <1>3 DEF EditFlag, SyncFlags, Types
  <2>2. Calls' /\ Requests' /\ Threads' /\ Startup' /\ Named' /\ Custody'
    BY <1>3 DEF EditFlag, SyncFlags, Calls, Requests, AcceptedCancelNeverSucceeds, Threads,
           Startup, Named, Custody
  <2>3. QED
    BY <2>1, <2>2
<1>4. CASE EditInject
  <2>1. Types'
    BY <1>4 DEF EditInject, Inject, Try, Types
  <2>2. Calls' /\ Requests' /\ Threads' /\ Startup' /\ Named' /\ Custody'
    BY <1>4 DEF EditInject, Inject, Try, Calls, Requests, AcceptedCancelNeverSucceeds, Threads,
           Startup, Named, Custody
  <2>3. QED
    BY <2>1, <2>2
<1>5. CASE JoinWorker
  <2>1. Types'
    BY <1>5 DEF JoinWorker, Types
  <2>2. Calls'
    BY <1>5 DEF JoinWorker, Types, Calls, Requests
  <2>3. Requests'
    BY <1>5 DEF JoinWorker, Types, Calls, Requests, AcceptedCancelNeverSucceeds
  <2>4. Threads'
    BY <1>5 DEF JoinWorker, Types, Calls, Threads, Startup
  <2>5. Named'
    BY <1>5 DEF JoinWorker, Types, Calls, Requests, Threads, Named
  <2>6. Startup' /\ Custody'
    BY <1>5 DEF JoinWorker, Startup, Custody
  <2>7. QED
    BY <2>1, <2>2, <2>3, <2>4, <2>5, <2>6
<1>6. CASE JoinOwner
  <2>1. Types'
    <3>1. thread' \in BOOLEAN
      BY <1>6 DEF JoinOwner
    <3>2. QED
      BY <1>6, <3>1 DEF JoinOwner, Types
  <2>2. Threads'
    BY <1>6 DEF JoinOwner, Types, Calls, Threads, Startup
  <2>3. Calls' /\ Requests' /\ Startup' /\ Named' /\ Custody'
    BY <1>6 DEF JoinOwner, Calls, Requests, AcceptedCancelNeverSucceeds, Startup, Named, Custody
  <2>4. QED
    BY <2>1, <2>2, <2>3
<1>7. QED
  BY <1>1, <1>2, <1>3, <1>4, <1>5, <1>6 DEF Pressed

\* The lifecycle worker.
LEMMA WorkerKeeps == IInv /\ Worker => IInv'
<1> SUFFICES ASSUME IInv, Worker PROVE IInv'
  OBVIOUS
<1> USE DEF IInv, vars, requests, routines, session, startup, answers, flags, custody, process, bounds,
           Callers, Waiting, Starting, Handling, Cleaning, NoRequest, NoJob, NoCall
<1>1. CASE Take
  <2>1. NoJob \in Jobs /\ NoJob.succeeded = FALSE
    BY DEF Jobs
  <2>2. job' \in Jobs /\ lifecycleQueued' \in BOOLEAN
    BY <1>1, <2>1 DEF Take, Types
  <2>3. Types'
    BY <1>1, <2>2 DEF Take, Types
  <2>4. Calls'
    BY <1>1 DEF Take, Calls
  <2>5. Requests'
    BY <1>1, <2>1 DEF Take, Calls, Requests, AcceptedCancelNeverSucceeds
  <2>6. Threads' /\ Startup' /\ Named' /\ Custody'
    BY <1>1 DEF Take, Threads, Startup, Named, Custody
  <2>7. QED
    BY <2>3, <2>4, <2>5, <2>6
<1>2. CASE BeginAttach
  <2>1. Types'
    <3>1. job' \in Jobs
      BY <1>2 DEF BeginAttach, Types, Jobs
    <3>2. QED
      BY <1>2, <3>1 DEF BeginAttach, Types
  <2>2. Calls'
    BY <1>2 DEF BeginAttach, Types, Calls, Requests
  <2>3. Requests'
    BY <1>2 DEF BeginAttach, Types, Calls, Requests, AcceptedCancelNeverSucceeds
  <2>4. Threads'
    BY <1>2 DEF BeginAttach, Types, Calls, Threads, Startup
  <2>5. Startup'
    BY <1>2 DEF BeginAttach, Types, Calls, Requests, Threads, Startup
  <2>6. Named'
    BY <1>2 DEF BeginAttach, Types, Calls, Requests, Threads, Named
  <2>7. Custody'
    BY <1>2 DEF BeginAttach, Custody
  <2>8. QED
    BY <2>1, <2>2, <2>3, <2>4, <2>5, <2>6, <2>7
<1>3. CASE BeginDetach
  <2>1. Types'
    BY <1>3 DEF BeginDetach, NamesSession, Types
  <2>2. Calls'
    BY <1>3 DEF BeginDetach, NamesSession, Types, Calls, Requests
  <2>3. Requests'
    BY <1>3 DEF BeginDetach, NamesSession, Types, Calls, Requests, AcceptedCancelNeverSucceeds
  <2>4. Threads'
    BY <1>3 DEF BeginDetach, NamesSession, Types, Calls, Threads, Startup
  <2>5. Startup'
    BY <1>3 DEF BeginDetach, NamesSession, Types, Calls, Requests, Threads, Startup
  <2>6. Named'
    BY <1>3 DEF BeginDetach, NamesSession, Types, Calls, Requests, Threads, Named
  <2>7. Custody'
    BY <1>3 DEF BeginDetach, NamesSession, Custody
  <2>8. QED
    BY <2>1, <2>2, <2>3, <2>4, <2>5, <2>6, <2>7
<1>4. CASE BeginSession
  <2>1. Types'
    <3>1. cleanupOnly' \in BOOLEAN /\ quit' \in BOOLEAN /\ edits' \in BOOLEAN
          /\ startupOk' \in BOOLEAN /\ startupDone' \in BOOLEAN
          /\ initialProcessEventReady' \in BOOLEAN /\ ownerFinished' \in BOOLEAN
          /\ traceSync' \in BOOLEAN /\ breakRequested' \in BOOLEAN
      BY <1>4 DEF BeginSession, FirstEventReady
    <3>2. QED
      BY <1>4, <3>1 DEF BeginSession, FirstEventReady, Types
  <2>2. Calls'
    BY <1>4 DEF BeginSession, FirstEventReady, Types, Calls, Requests
  <2>3. Requests'
    BY <1>4 DEF BeginSession, FirstEventReady, Types, Calls, Requests,
           AcceptedCancelNeverSucceeds
  <2>4. Threads'
    BY <1>4 DEF BeginSession, FirstEventReady, Types, Calls, Threads, Startup
  <2>5. Startup'
    BY <1>4 DEF BeginSession, FirstEventReady, Types, Calls, Requests, Threads, Startup
  <2>6. Named' /\ Custody'
    BY <1>4 DEF BeginSession, FirstEventReady, Named, Custody
  <2>7. QED
    BY <2>1, <2>2, <2>3, <2>4, <2>5, <2>6
<1>5. CASE Spawn
  <2>1. Types'
    BY <1>5 DEF Spawn, Try, Types
  <2>2. Calls'
    BY <1>5 DEF Spawn, Try, Types, Calls, Requests
  <2>3. Requests'
    BY <1>5 DEF Spawn, Try, Types, Calls, Requests, AcceptedCancelNeverSucceeds
  <2>4. Threads'
    BY <1>5 DEF Spawn, Try, Types, Calls, Threads, Startup
  <2>5. Startup'
    BY <1>5 DEF Spawn, Try, Types, Calls, Requests, Threads, Startup
  <2>6. Custody'
    BY <1>5 DEF Spawn, Try, Types, Threads, Custody
  <2>7. Named'
    BY <1>5 DEF Spawn, Try, Named
  <2>8. QED
    BY <2>1, <2>2, <2>3, <2>4, <2>5, <2>6, <2>7
<1>6. CASE Evaluate
  <2>1. Types'
    BY <1>6 DEF Evaluate, Types
  <2>2. Calls'
    BY <1>6 DEF Evaluate, Types, Calls, Requests
  <2>3. Requests'
    BY <1>6 DEF Evaluate, Types, Calls, Requests, AcceptedCancelNeverSucceeds
  <2>4. Threads'
    BY <1>6 DEF Evaluate, Types, Calls, Threads, Startup
  <2>5. Startup'
    BY <1>6 DEF Evaluate, Types, Calls, Requests, Threads, Startup
  <2>6. Named' /\ Custody'
    BY <1>6 DEF Evaluate, Named, Custody
  <2>7. QED
    BY <2>1, <2>2, <2>3, <2>4, <2>5, <2>6
<1>7. CASE FallAsleep
  <2>1. Types'
    BY <1>7 DEF FallAsleep, Types
  <2>2. Calls'
    BY <1>7 DEF FallAsleep, Types, Calls, Requests
  <2>3. Requests'
    BY <1>7 DEF FallAsleep, Types, Calls, Requests, AcceptedCancelNeverSucceeds
  <2>4. Threads'
    BY <1>7 DEF FallAsleep, Types, Calls, Threads, Startup
  <2>5. Startup'
    BY <1>7 DEF FallAsleep, Types, Calls, Requests, Threads, Startup
  <2>6. Named' /\ Custody'
    BY <1>7 DEF FallAsleep, Named, Custody
  <2>7. QED
    BY <2>1, <2>2, <2>3, <2>4, <2>5, <2>6
<1>8. CASE Decide
  <2>1. Types'
    <3>1. job' \in Jobs
      BY <1>8 DEF Decide, StartupReady, Types, Jobs
    <3>2. QED
      BY <1>8, <3>1 DEF Decide, StartupReady, Types
  <2>2. Calls'
    BY <1>8 DEF Decide, StartupReady, Types, Calls, Requests
  <2>3. Requests'
    BY <1>8 DEF Decide, StartupReady, Types, Calls, Requests, AcceptedCancelNeverSucceeds
  <2>4. Threads'
    BY <1>8 DEF Decide, StartupReady, Types, Calls, Threads, Startup
  <2>5. Startup'
    BY <1>8 DEF Decide, StartupReady, Types, Calls, Requests, Threads, Startup
  <2>6. Named'
    BY <1>8 DEF Decide, StartupReady, Types, Calls, Requests, Threads, Named
  <2>7. Custody'
    BY <1>8 DEF Decide, StartupReady, Custody
  <2>8. QED
    BY <2>1, <2>2, <2>3, <2>4, <2>5, <2>6, <2>7
<1>9. CASE Check
  <2>1. Types'
    <3>1. job' \in Jobs
      BY <1>9 DEF Check, Types, Jobs
    <3>2. QED
      BY <1>9, <3>1 DEF Check, Types
  <2>2. Calls'
    BY <1>9 DEF Check, Types, Calls, Requests
  <2>3. Requests'
    BY <1>9 DEF Check, Types, Calls, Requests, AcceptedCancelNeverSucceeds
  <2>4. Threads'
    BY <1>9 DEF Check, Types, Calls, Threads, Startup
  <2>5. Startup'
    BY <1>9 DEF Check, Types, Calls, Requests, Threads, Startup
  <2>6. Named'
    BY <1>9 DEF Check, Types, Calls, Requests, Threads, Named
  <2>7. Custody'
    BY <1>9 DEF Check, Custody
  <2>8. QED
    BY <2>1, <2>2, <2>3, <2>4, <2>5, <2>6, <2>7
<1>10. CASE Commit
  <2>1. CASE CancelledAtCommit(job.succeeded)
    <3>1. Types'
      BY <1>10, <2>1 DEF Commit, Types
    <3>2. Calls' /\ Requests'
      BY <1>10, <2>1 DEF Commit, CancelledAtCommit, Types, Calls, Requests,
           AcceptedCancelNeverSucceeds
    <3>3. Threads' /\ Startup' /\ Named' /\ Custody'
      BY <1>10, <2>1 DEF Commit, CancelledAtCommit, Calls, Requests, Threads, Startup, Named,
           Custody
    <3>4. QED
      BY <3>1, <3>2, <3>3
  <2>2. CASE ~CancelledAtCommit(job.succeeded)
    <3>1. Types'
      <4>1. lifecycle' \in Lifecycles
        BY <1>10, <2>2, PublishedType DEF Commit, Types
      <4>2. (lifecycle.succeeded => ~lifecycle.cancelled)'
        BY <1>10, <2>2 DEF Commit, Publish, CancelledAtCommit, Types, Lifecycles, Requests
      <4>3. QED
        BY <1>10, <2>2, <4>1, <4>2 DEF Commit, Publish, Types
    <3>2. /\ lifecycle'.busy = FALSE /\ lifecycle'.completed = TRUE
          /\ lifecycle'.succeeded = job.succeeded /\ lifecycle'.target = job.target
          /\ lifecycle'.command = lifecycle.command /\ lifecycle'.expected = lifecycle.expected
      BY <1>10, <2>2 DEF Commit, Publish, Types, Lifecycles
    <3>3. Calls' /\ Requests'
      BY <1>10, <2>2, <3>2 DEF Commit, Publish, CancelledAtCommit, Types, Calls, Requests,
                      AcceptedCancelNeverSucceeds
    <3>4. Startup'
      BY <1>10, <2>2, <3>2 DEF Commit, Publish, Types, Calls, Requests, Startup
    <3>5. Threads' /\ Named' /\ Custody'
      BY <1>10, <2>2, <3>2 DEF Commit, Publish, Threads, Named, Custody
    <3>6. QED
      BY <3>1, <3>3, <3>4, <3>5

  <2>3. QED
    BY <2>1, <2>2
<1>11. CASE CommitCancelled
  <2>1. Types'
    <3>1. lifecycle' \in Lifecycles
      BY <1>11, PublishedType DEF CommitCancelled, Types
    <3>2. (lifecycle.succeeded => ~lifecycle.cancelled)'
      BY <1>11 DEF CommitCancelled, Publish, CancelledAtCommit, Types, Lifecycles, Requests
    <3>3. QED
      BY <1>11, <3>1, <3>2 DEF CommitCancelled, Publish, Types
  <2>2. /\ lifecycle'.busy = FALSE /\ lifecycle'.completed = TRUE
        /\ lifecycle'.succeeded = job.succeeded /\ lifecycle'.target = job.target
        /\ lifecycle'.command = lifecycle.command /\ lifecycle'.expected = lifecycle.expected
    BY <1>11 DEF CommitCancelled, Publish, Types, Lifecycles
  <2>3. Calls' /\ Requests'
    BY <1>11, <2>2 DEF CommitCancelled, Publish, CancelledAtCommit, Types, Calls, Requests,
                    AcceptedCancelNeverSucceeds
  <2>4. Startup'
    BY <1>11, <2>2 DEF CommitCancelled, Publish, Types, Calls, Requests, Startup
  <2>5. Threads' /\ Named' /\ Custody'
    BY <1>11, <2>2 DEF CommitCancelled, Publish, Threads, Named, Custody
  <2>6. QED
    BY <2>1, <2>3, <2>4, <2>5
<1>12. QED
  BY <1>1, <1>2, <1>3, <1>4, <1>5, <1>6, <1>7, <1>8, <1>9, <1>10, <1>11 DEF Worker

\* detach().
LEMMA DetachingKeeps == IInv /\ Detaching => IInv'
<1> SUFFICES ASSUME IInv, Detaching PROVE IInv'
  OBVIOUS
<1> USE DEF IInv, vars, requests, routines, session, startup, answers, flags, custody, process, bounds,
           Callers, Waiting, Starting, Handling, Cleaning, NoRequest, NoJob, NoCall
<1>1. CASE Enter
  <2>1. Types'
    BY <1>1 DEF Enter, Step, Types
  <2>2. Calls'
    BY <1>1 DEF Enter, Step, Types, Calls, Requests
  <2>3. Requests'
    BY <1>1 DEF Enter, Step, Types, Calls, Requests, AcceptedCancelNeverSucceeds
  <2>4. Threads'
    BY <1>1 DEF Enter, Step, Types, Calls, Threads, Startup
  <2>5. Named'
    BY <1>1 DEF Enter, Step, Types, Calls, Requests, Threads, Named
  <2>6. Startup' /\ Custody'
    BY <1>1 DEF Enter, Step, Startup, Custody
  <2>7. QED
    BY <2>1, <2>2, <2>3, <2>4, <2>5, <2>6
<1>2. CASE SyncRead("early", "earlyFlag", "enter")
  <2>1. Types'
    BY <1>2 DEF SyncRead, Step, Types
  <2>2. Calls'
    BY <1>2 DEF SyncRead, Step, Types, Calls, Requests
  <2>3. Requests'
    BY <1>2 DEF SyncRead, Step, Types, Calls, Requests, AcceptedCancelNeverSucceeds
  <2>4. Threads'
    BY <1>2 DEF SyncRead, Step, Types, Calls, Threads, Startup
  <2>5. Named'
    BY <1>2 DEF SyncRead, Step, Types, Calls, Requests, Threads, Named
  <2>6. Startup' /\ Custody'
    BY <1>2 DEF SyncRead, Step, Startup, Custody
  <2>7. QED
    BY <2>1, <2>2, <2>3, <2>4, <2>5, <2>6
<1>3. CASE SyncFlag("earlyFlag", "earlyInject", "enter")
  <2>1. Types'
    BY <1>3 DEF SyncFlag, SyncFlags, Step, Types
  <2>2. Calls'
    BY <1>3 DEF SyncFlag, SyncFlags, Step, Types, Calls, Requests
  <2>3. Requests'
    BY <1>3 DEF SyncFlag, SyncFlags, Step, Types, Calls, Requests, AcceptedCancelNeverSucceeds
  <2>4. Threads'
    BY <1>3 DEF SyncFlag, SyncFlags, Step, Types, Calls, Threads, Startup
  <2>5. Named'
    BY <1>3 DEF SyncFlag, SyncFlags, Step, Types, Calls, Requests, Threads, Named
  <2>6. Startup' /\ Custody'
    BY <1>3 DEF SyncFlag, SyncFlags, Step, Startup, Custody
  <2>7. QED
    BY <2>1, <2>2, <2>3, <2>4, <2>5, <2>6
<1>4. CASE SyncInject("earlyInject", "enter")
  <2>1. Types'
    BY <1>4 DEF SyncInject, Inject, Try, Step, Types
  <2>2. Calls'
    BY <1>4 DEF SyncInject, Inject, Try, Step, Types, Calls, Requests
  <2>3. Requests'
    BY <1>4 DEF SyncInject, Inject, Try, Step, Types, Calls, Requests,
           AcceptedCancelNeverSucceeds
  <2>4. Threads'
    BY <1>4 DEF SyncInject, Inject, Try, Step, Types, Calls, Threads, Startup
  <2>5. Named'
    BY <1>4 DEF SyncInject, Inject, Try, Step, Types, Calls, Requests, Threads, Named
  <2>6. Startup' /\ Custody'
    BY <1>4 DEF SyncInject, Inject, Try, Step, Startup, Custody
  <2>7. QED
    BY <2>1, <2>2, <2>3, <2>4, <2>5, <2>6
<1>5. CASE SyncRead("sync", "flag", "post")
  <2>1. Types'
    BY <1>5 DEF SyncRead, Step, Types
  <2>2. Calls'
    BY <1>5 DEF SyncRead, Step, Types, Calls, Requests
  <2>3. Requests'
    BY <1>5 DEF SyncRead, Step, Types, Calls, Requests, AcceptedCancelNeverSucceeds
  <2>4. Threads'
    BY <1>5 DEF SyncRead, Step, Types, Calls, Threads, Startup
  <2>5. Named'
    BY <1>5 DEF SyncRead, Step, Types, Calls, Requests, Threads, Named
  <2>6. Startup' /\ Custody'
    BY <1>5 DEF SyncRead, Step, Startup, Custody
  <2>7. QED
    BY <2>1, <2>2, <2>3, <2>4, <2>5, <2>6
<1>6. CASE SyncFlag("flag", "inject", "post")
  <2>1. Types'
    BY <1>6 DEF SyncFlag, SyncFlags, Step, Types
  <2>2. Calls'
    BY <1>6 DEF SyncFlag, SyncFlags, Step, Types, Calls, Requests
  <2>3. Requests'
    BY <1>6 DEF SyncFlag, SyncFlags, Step, Types, Calls, Requests, AcceptedCancelNeverSucceeds
  <2>4. Threads'
    BY <1>6 DEF SyncFlag, SyncFlags, Step, Types, Calls, Threads, Startup
  <2>5. Named'
    BY <1>6 DEF SyncFlag, SyncFlags, Step, Types, Calls, Requests, Threads, Named
  <2>6. Startup' /\ Custody'
    BY <1>6 DEF SyncFlag, SyncFlags, Step, Startup, Custody
  <2>7. QED
    BY <2>1, <2>2, <2>3, <2>4, <2>5, <2>6
<1>7. CASE SyncInject("inject", "post")
  <2>1. Types'
    BY <1>7 DEF SyncInject, Inject, Try, Step, Types
  <2>2. Calls'
    BY <1>7 DEF SyncInject, Inject, Try, Step, Types, Calls, Requests
  <2>3. Requests'
    BY <1>7 DEF SyncInject, Inject, Try, Step, Types, Calls, Requests,
           AcceptedCancelNeverSucceeds
  <2>4. Threads'
    BY <1>7 DEF SyncInject, Inject, Try, Step, Types, Calls, Threads, Startup
  <2>5. Named'
    BY <1>7 DEF SyncInject, Inject, Try, Step, Types, Calls, Requests, Threads, Named
  <2>6. Startup' /\ Custody'
    BY <1>7 DEF SyncInject, Inject, Try, Step, Startup, Custody
  <2>7. QED
    BY <2>1, <2>2, <2>3, <2>4, <2>5, <2>6
<1>8. CASE PostDetach
  <2>1. Types'
    BY <1>8 DEF PostDetach, Step, Types
  <2>2. Calls'
    BY <1>8 DEF PostDetach, Step, Types, Calls, Requests
  <2>3. Requests'
    BY <1>8 DEF PostDetach, Step, Types, Calls, Requests, AcceptedCancelNeverSucceeds
  <2>4. Threads'
    BY <1>8 DEF PostDetach, Step, Types, Calls, Threads, Startup
  <2>5. Named'
    BY <1>8 DEF PostDetach, Step, Types, Calls, Requests, Threads, Named
  <2>6. Startup' /\ Custody'
    BY <1>8 DEF PostDetach, Step, Startup, Custody
  <2>7. QED
    BY <2>1, <2>2, <2>3, <2>4, <2>5, <2>6
<1>9. CASE AwaitAnswer
  <2>1. CASE ownerFinished
    <3>1. Types'
      BY <1>9, <2>1 DEF AwaitAnswer, Step, Types
    <3>2. Calls' /\ Requests' /\ Threads' /\ Startup' /\ Named' /\ Custody'
      BY <1>9, <2>1 DEF AwaitAnswer, Step, Types, Calls, Requests, Threads, Startup, Named,
           Custody,
                     AcceptedCancelNeverSucceeds
    <3>3. QED
      BY <3>1, <3>2
  <2>2. CASE ~ownerFinished
    <3>1. Return(FALSE) /\ call.step = "wait" /\ ~attemptOpen
      BY <1>9, <2>2 DEF AwaitAnswer, Answered
    <3>2. Returned(FALSE)
      BY <3>1, ReturnResult
    <3>3. Types'
      BY <1>9, <2>2, <3>1, <3>2 DEF AwaitAnswer, Returned, Types, NoCall
    <3>4. Calls'
      BY <1>9, <2>2, <3>1, <3>2 DEF AwaitAnswer, Returned, Calls, NoCall
    <3>5. Requests'
      BY <1>9, <2>2, <3>1, <3>2 DEF AwaitAnswer, Returned, Calls, Requests,
           AcceptedCancelNeverSucceeds, NoCall
    <3>6. Threads'
      BY <1>9, <2>2, <3>1, <3>2 DEF AwaitAnswer, Returned, Types, Calls, Threads, NoCall
    <3>7. Startup'
      BY <1>9, <2>2, <3>1, <3>2 DEF AwaitAnswer, Returned, Calls, Requests, Startup
    <3>8. Named' /\ Custody'
      BY <1>9, <2>2, <3>1, <3>2 DEF AwaitAnswer, Returned, Named, Custody, NoCall
    <3>9. QED
      BY <3>3, <3>4, <3>5, <3>6, <3>7, <3>8
  <2>3. QED
    BY <2>1, <2>2
<1>10. CASE Join
  <2>1. Types'
    <3>1. thread' \in BOOLEAN
      BY <1>10 DEF Join, Step
    <3>2. QED
      BY <1>10, <3>1 DEF Join, Step, Types
  <2>2. Calls'
    BY <1>10 DEF Join, Step, Types, Calls, Requests
  <2>3. Requests'
    BY <1>10 DEF Join, Step, Types, Calls, Requests, AcceptedCancelNeverSucceeds
  <2>4. Threads'
    BY <1>10 DEF Join, Step, Types, Calls, Threads, Startup
  <2>5. Named'
    BY <1>10 DEF Join, Step, Types, Calls, Requests, Threads, Named
  <2>6. Startup' /\ Custody'
    BY <1>10 DEF Join, Step, Startup, Custody
  <2>7. QED
    BY <2>1, <2>2, <2>3, <2>4, <2>5, <2>6
<1>11. CASE Settle
  <2>1. Return(TRUE) /\ call.step # "none"
    BY <1>11 DEF Settle
  <2>2. cleanupOnly' \in BOOLEAN /\ edits' \in BOOLEAN /\ ~thread
    BY <1>11 DEF Settle, Threads
  <2>3. Returned(TRUE)
    BY <2>1, ReturnResult
  <2>4. Types'
    BY <1>11, <2>1, <2>2, <2>3 DEF Settle, Returned, Types, NoCall
  <2>5. Calls'
    BY <1>11, <2>1, <2>2, <2>3 DEF Settle, Returned, Calls, NoCall
  <2>6. Requests'
    BY <1>11, <2>1, <2>2, <2>3 DEF Settle, Returned, Calls, Requests,
         AcceptedCancelNeverSucceeds, NoCall
  <2>7. Threads'
    BY <1>11, <2>1, <2>2, <2>3 DEF Settle, Returned, Types, Threads, NoCall
  <2>8. Startup'
    BY <1>11, <2>1, <2>2, <2>3 DEF Settle, Returned, Calls, Requests, Startup
  <2>9. Named' /\ Custody'
    BY <1>11, <2>1, <2>2, <2>3 DEF Settle, Returned, Named, Custody, NoCall
  <2>10. QED
    BY <2>4, <2>5, <2>6, <2>7, <2>8, <2>9
<1>12. QED
  BY <1>1, <1>2, <1>3, <1>4, <1>5, <1>6, <1>7, <1>8, <1>9, <1>10, <1>11 DEF Detaching

\* The debug-event owner.
LEMMA OwnerKeepsIInv == IInv /\ Owner => IInv'
<1> SUFFICES ASSUME IInv, Owner PROVE IInv'
  OBVIOUS
<1> USE DEF IInv, vars, requests, routines, session, startup, answers, flags, custody, process, bounds,
           Callers, Waiting, Starting, Handling, Cleaning, NoRequest, NoJob, NoCall
<1>1. CASE OwnerStart
  <2>1. Types'
    <3>1. quit \/ lifecycleCancel => startupOk' = FALSE /\ startupDone' = TRUE
      BY <1>1 DEF OwnerStart, StartupFails, OwnerKeeps, Types
    <3>2. startupOk' \in BOOLEAN /\ startupDone' \in BOOLEAN
          /\ initialProcessEventReady' \in BOOLEAN
      BY <1>1 DEF OwnerStart, StartupFails, OwnerKeeps, Types
    <3>3. QED
      BY <1>1, <3>1, <3>2 DEF OwnerStart, StartupFails, OwnerKeeps, Types
  <2>2. Threads'
    BY <1>1 DEF OwnerStart, StartupFails, OwnerKeeps, Types, Calls, Threads, Startup
  <2>3. Startup'
    BY <1>1 DEF OwnerStart, StartupFails, OwnerKeeps, Types, Calls, Requests, Threads, Startup
  <2>4. Custody'
    BY <1>1 DEF OwnerStart, StartupFails, OwnerKeeps, Types, Threads, Custody
  <2>5. Calls' /\ Requests' /\ Named'
    BY <1>1 DEF OwnerStart, StartupFails, OwnerKeeps, Calls, Requests,
           AcceptedCancelNeverSucceeds, Named
  <2>6. QED
    BY <2>1, <2>2, <2>3, <2>4, <2>5
<1>2. CASE CreateTarget
  <2>1. Types'
    <3>1. startupOk' \in BOOLEAN /\ startupDone' \in BOOLEAN /\ owned' \in BOOLEAN
          /\ announced' \in BOOLEAN /\ killed' \in BOOLEAN /\ dirty' \in BOOLEAN
      BY <1>2 DEF CreateTarget, StartupFails, Try, Types
    <3>2. QED
      BY <1>2, <3>1 DEF CreateTarget, StartupFails, Try, Types
  <2>2. Threads'
    BY <1>2 DEF CreateTarget, StartupFails, Try, Types, Calls, Threads, Startup
  <2>3. Startup'
    BY <1>2 DEF CreateTarget, StartupFails, Try, Types, Calls, Requests, Threads, Startup
  <2>4. Custody'
    BY <1>2 DEF CreateTarget, StartupFails, Try, Types, Threads, Custody
  <2>5. Calls' /\ Requests' /\ Named'
    BY <1>2 DEF CreateTarget, StartupFails, Try, Calls, Requests, AcceptedCancelNeverSucceeds,
           Named
  <2>6. QED
    BY <2>1, <2>2, <2>3, <2>4, <2>5
<1>3. CASE PublishStartup
  <2>1. Types'
    <3>1. startupOk' \in BOOLEAN /\ startupDone' \in BOOLEAN /\ alive' \in BOOLEAN
          /\ held' \in BOOLEAN /\ prepared' \in BOOLEAN
      BY <1>3 DEF PublishStartup, Try
    <3>2. QED
      BY <1>3, <3>1 DEF PublishStartup, Try, Types
  <2>2. Threads'
    BY <1>3 DEF PublishStartup, Try, Types, Calls, Threads, Startup
  <2>3. Startup'
    BY <1>3 DEF PublishStartup, Try, Types, Calls, Requests, Threads, Startup
  <2>4. Named'
    BY <1>3 DEF PublishStartup, Try, Types, Calls, Requests, Threads, Named
  <2>5. Custody'
    BY <1>3 DEF PublishStartup, Try, Types, Threads, Custody
  <2>6. Calls' /\ Requests'
    BY <1>3 DEF PublishStartup, Try, Calls, Requests, AcceptedCancelNeverSucceeds
  <2>7. QED
    BY <2>1, <2>2, <2>3, <2>4, <2>5, <2>6
<1>4. CASE EmergencyRelease
  <2>1. Types'
    <3>1. PICK ok \in BOOLEAN :
            /\ owned' = (owned /\ ~ok) /\ cleanupOnly' = ~ok
            /\ state' = IF ok THEN "Detached" ELSE "Paused"
            /\ quit' = (quit /\ ok) /\ pendingCommand' = "None"
            /\ attemptOpen' = IF ok THEN attemptOpen ELSE FALSE
            /\ owner' = IF ok THEN "end" ELSE "emergencyWait"
            /\ faults' = IF ok THEN faults ELSE faults + 1
      BY <1>4, Zenon DEF EmergencyRelease, Try
    <3>2. owned' \in BOOLEAN
      BY <3>1
    <3>3. cleanupOnly' \in BOOLEAN
      BY <3>1
    <3>4. quit' \in BOOLEAN
      BY <3>1
    <3>5. attemptOpen \in BOOLEAN /\ faults \in Nat
      BY DEF Types
    <3>6. attemptOpen' \in BOOLEAN
      BY <3>1, <3>5
    <3>7. faults' \in Nat
      BY <3>1, <3>5
    <3>8. /\ state' \in {"Detached", "Paused"} /\ pendingCommand' = "None"
          /\ owner' \in {"end", "emergencyWait"}
      BY <3>1
    <3>9. startupOk' \in BOOLEAN /\ startupDone' \in BOOLEAN
            /\ initialProcessEventReady' = initialProcessEventReady
      BY <1>4 DEF EmergencyRelease, StartupFails
    <3>10. UNCHANGED <<edits, ownerFinished, flags, alive, held, prepared, opened, process, requests,
                       routines, sessionGeneration, destroying, thread, ui, stops, presses>>
      BY <1>4 DEF EmergencyRelease, OwnerKeeps
    <3>11. QED
      BY <3>2, <3>3, <3>4, <3>6, <3>7, <3>8, <3>9, <3>10 DEF Types
  <2>2. Threads' /\ Startup'
    BY <1>4 DEF EmergencyRelease, StartupFails, OwnerKeeps, Types, Threads, Startup
  <2>3. Custody'
    BY <1>4 DEF EmergencyRelease, OwnerKeeps, Types, Custody
  <2>4. Calls' /\ Requests' /\ Named'
    BY <1>4 DEF EmergencyRelease, OwnerKeeps, Calls, Requests, AcceptedCancelNeverSucceeds, Named
  <2>5. QED
    BY <2>1, <2>2, <2>3, <2>4
<1>5. CASE EmergencyRetry
  <2>1. Types'
    BY <1>5 DEF EmergencyRetry, OwnerKeeps, Types
  <2>2. Threads'
    BY <1>5 DEF EmergencyRetry, OwnerKeeps, Types, Calls, Threads, Startup
  <2>3. Startup'
    BY <1>5 DEF EmergencyRetry, OwnerKeeps, Types, Calls, Requests, Threads, Startup
  <2>4. Custody'
    BY <1>5 DEF EmergencyRetry, OwnerKeeps, Types, Threads, Custody
  <2>5. Calls' /\ Requests' /\ Named'
    BY <1>5 DEF EmergencyRetry, OwnerKeeps, Calls, Requests, AcceptedCancelNeverSucceeds, Named
  <2>6. QED
    BY <2>1, <2>2, <2>3, <2>4, <2>5
<1>6. CASE CreateEvent
  <2>1. Types'
    <3>1. edits' \in BOOLEAN /\ initialProcessEventReady' \in BOOLEAN /\ shared' \in BOOLEAN
          /\ opened' \in BOOLEAN /\ announced' \in BOOLEAN /\ dirty' \in BOOLEAN
      BY <1>6 DEF CreateEvent, Arrive, Pauses, OwnerKeeps, Types
    <3>2. QED
      BY <1>6, <3>1 DEF CreateEvent, Arrive, Pauses, OwnerKeeps, Types
  <2>2. Threads'
    BY <1>6 DEF CreateEvent, Arrive, Pauses, OwnerKeeps, Types, Calls, Threads, Startup
  <2>3. Startup'
    BY <1>6 DEF CreateEvent, Arrive, Pauses, OwnerKeeps, Types, Calls, Requests, Threads,
           Startup
  <2>4. Custody'
    BY <1>6 DEF CreateEvent, Arrive, Pauses, OwnerKeeps, Types, Threads, Custody
  <2>5. Calls' /\ Requests' /\ Named'
    BY <1>6 DEF CreateEvent, Arrive, Pauses, OwnerKeeps, Calls, Requests,
           AcceptedCancelNeverSucceeds, Named
  <2>6. QED
    BY <2>1, <2>2, <2>3, <2>4, <2>5
<1>7. CASE BreakEvent
  <2>1. Types'
    <3>1. edits' \in BOOLEAN /\ traceSync' \in BOOLEAN /\ breakRequested' \in BOOLEAN
          /\ dirty' \in BOOLEAN
      BY <1>7 DEF BreakEvent, Arrive, Pauses, OwnerKeeps, Types
    <3>2. QED
      BY <1>7, <3>1 DEF BreakEvent, Arrive, Pauses, OwnerKeeps, Types
  <2>2. Threads'
    BY <1>7 DEF BreakEvent, Arrive, Pauses, OwnerKeeps, Types, Calls, Threads, Startup
  <2>3. Startup'
    BY <1>7 DEF BreakEvent, Arrive, Pauses, OwnerKeeps, Types, Calls, Requests, Threads, Startup
  <2>4. Custody'
    BY <1>7 DEF BreakEvent, Arrive, Pauses, OwnerKeeps, Types, Threads, Custody
  <2>5. Calls' /\ Requests' /\ Named'
    BY <1>7 DEF BreakEvent, Arrive, Pauses, OwnerKeeps, Calls, Requests,
           AcceptedCancelNeverSucceeds, Named
  <2>6. QED
    BY <2>1, <2>2, <2>3, <2>4, <2>5
<1>8. CASE ExitEvent
  <2>1. Types'
    <3>1. alive' \in BOOLEAN
      BY <1>8 DEF ExitEvent, Arrive, OwnerKeeps
    <3>2. QED
      BY <1>8, <3>1 DEF ExitEvent, Arrive, OwnerKeeps, Types
  <2>2. Threads'
    BY <1>8 DEF ExitEvent, Arrive, OwnerKeeps, Types, Calls, Threads, Startup
  <2>3. Startup'
    BY <1>8 DEF ExitEvent, Arrive, OwnerKeeps, Types, Calls, Requests, Threads, Startup
  <2>4. Custody'
    BY <1>8 DEF ExitEvent, Arrive, OwnerKeeps, Types, Threads, Custody
  <2>5. Calls' /\ Requests' /\ Named'
    BY <1>8 DEF ExitEvent, Arrive, OwnerKeeps, Calls, Requests, AcceptedCancelNeverSucceeds,
           Named
  <2>6. QED
    BY <2>1, <2>2, <2>3, <2>4, <2>5
<1>9. CASE PumpTimeout
  <2>1. Types'
    BY <1>9 DEF PumpTimeout, LeavesPump, OwnerKeeps, Types
  <2>2. Threads'
    BY <1>9 DEF PumpTimeout, LeavesPump, OwnerKeeps, Types, Calls, Threads, Startup
  <2>3. Startup'
    BY <1>9 DEF PumpTimeout, LeavesPump, OwnerKeeps, Types, Calls, Requests, Threads, Startup
  <2>4. Custody'
    BY <1>9 DEF PumpTimeout, LeavesPump, OwnerKeeps, Types, Threads, Custody
  <2>5. Calls' /\ Requests' /\ Named'
    BY <1>9 DEF PumpTimeout, LeavesPump, OwnerKeeps, Calls, Requests,
           AcceptedCancelNeverSucceeds, Named
  <2>6. QED
    BY <2>1, <2>2, <2>3, <2>4, <2>5
<1>10. CASE ServeEdits
  <2>1. Types'
    <3>1. edits' \in BOOLEAN /\ dirty' \in BOOLEAN
      BY <1>10 DEF ServeEdits, OwnerKeeps
    <3>2. QED
      BY <1>10, <3>1 DEF ServeEdits, OwnerKeeps, Types
  <2>2. Custody'
    BY <1>10 DEF ServeEdits, OwnerKeeps, Types, Threads, Custody
  <2>3. Calls' /\ Requests' /\ Threads' /\ Startup' /\ Named'
    BY <1>10 DEF ServeEdits, OwnerKeeps, Calls, Requests, AcceptedCancelNeverSucceeds, Threads,
           Startup, Named
  <2>4. QED
    BY <2>1, <2>2, <2>3
<1>11. CASE DrainExit
  <2>1. Types'
    BY <1>11 DEF DrainExit, Resumes, Try, OwnerKeeps, Types
  <2>2. Threads'
    BY <1>11 DEF DrainExit, Resumes, Try, OwnerKeeps, Types, Calls, Threads, Startup
  <2>3. Startup'
    BY <1>11 DEF DrainExit, Resumes, Try, OwnerKeeps, Types, Calls, Requests, Threads, Startup
  <2>4. Custody'
    BY <1>11 DEF DrainExit, Resumes, Try, OwnerKeeps, Types, Threads, Custody
  <2>5. Calls' /\ Requests' /\ Named'
    BY <1>11 DEF DrainExit, Resumes, Try, OwnerKeeps, Calls, Requests,
           AcceptedCancelNeverSucceeds, Named
  <2>6. QED
    BY <2>1, <2>2, <2>3, <2>4, <2>5
<1>12. CASE PausedDetach
  <2>1. Types'
    <3>1. held' \in BOOLEAN
      BY <1>12 DEF PausedDetach, Resumes, Try, OwnerKeeps, Types
    <3>2. QED
      BY <1>12, <3>1 DEF PausedDetach, Resumes, Try, OwnerKeeps, Types
  <2>2. Threads'
    BY <1>12 DEF PausedDetach, Resumes, Try, OwnerKeeps, Types, Calls, Threads, Startup
  <2>3. Startup'
    BY <1>12 DEF PausedDetach, Resumes, Try, OwnerKeeps, Types, Calls, Requests, Threads,
           Startup
  <2>4. Custody'
    BY <1>12 DEF PausedDetach, Resumes, Try, OwnerKeeps, Types, Threads, Custody
  <2>5. Calls' /\ Requests' /\ Named'
    BY <1>12 DEF PausedDetach, Resumes, Try, OwnerKeeps, Calls, Requests,
           AcceptedCancelNeverSucceeds, Named
  <2>6. QED
    BY <2>1, <2>2, <2>3, <2>4, <2>5
<1>13. CASE PausedContinue
  <2>1. Types'
    BY <1>13 DEF PausedContinue, Try, OwnerKeeps, Types
  <2>2. Threads'
    BY <1>13 DEF PausedContinue, Try, OwnerKeeps, Types, Calls, Threads, Startup
  <2>3. Startup'
    BY <1>13 DEF PausedContinue, Try, OwnerKeeps, Types, Calls, Requests, Threads, Startup
  <2>4. Custody'
    BY <1>13 DEF PausedContinue, Try, OwnerKeeps, Types, Threads, Custody
  <2>5. Calls' /\ Requests' /\ Named'
    BY <1>13 DEF PausedContinue, Try, OwnerKeeps, Calls, Requests, AcceptedCancelNeverSucceeds,
           Named
  <2>6. QED
    BY <2>1, <2>2, <2>3, <2>4, <2>5
<1>14. CASE Resume
  <2>1. Types'
    <3>1. held' \in BOOLEAN
      BY <1>14 DEF Resume, Resumes, Try, OwnerKeeps, Types
    <3>2. QED
      BY <1>14, <3>1 DEF Resume, Resumes, Try, OwnerKeeps, Types
  <2>2. Threads'
    BY <1>14 DEF Resume, Resumes, Try, OwnerKeeps, Types, Calls, Threads, Startup
  <2>3. Startup'
    BY <1>14 DEF Resume, Resumes, Try, OwnerKeeps, Types, Calls, Requests, Threads, Startup
  <2>4. Custody'
    BY <1>14 DEF Resume, Resumes, Try, OwnerKeeps, Types, Threads, Custody
  <2>5. Calls' /\ Requests' /\ Named'
    BY <1>14 DEF Resume, Resumes, Try, OwnerKeeps, Calls, Requests, AcceptedCancelNeverSucceeds,
           Named
  <2>6. QED
    BY <2>1, <2>2, <2>3, <2>4, <2>5
<1>15. CASE Leave
  <2>1. Types'
    BY <1>15 DEF Leave, OwnerKeeps, Types
  <2>2. Threads'
    BY <1>15 DEF Leave, OwnerKeeps, Types, Calls, Threads, Startup
  <2>3. Startup'
    BY <1>15 DEF Leave, OwnerKeeps, Types, Calls, Requests, Threads, Startup
  <2>4. Custody'
    BY <1>15 DEF Leave, OwnerKeeps, Types, Threads, Custody
  <2>5. Calls' /\ Requests' /\ Named'
    BY <1>15 DEF Leave, OwnerKeeps, Calls, Requests, AcceptedCancelNeverSucceeds, Named
  <2>6. QED
    BY <2>1, <2>2, <2>3, <2>4, <2>5
<1>16. CASE Disown
  <2>1. Types'
    <3>1. breakRequested' \in BOOLEAN /\ shared' \in BOOLEAN
      BY <1>16 DEF Disown, OwnerKeeps
    <3>2. QED
      BY <1>16, <3>1 DEF Disown, OwnerKeeps, Types
  <2>2. Threads'
    BY <1>16 DEF Disown, OwnerKeeps, Types, Calls, Threads, Startup
  <2>3. Startup'
    BY <1>16 DEF Disown, OwnerKeeps, Types, Calls, Requests, Threads, Startup
  <2>4. Custody'
    BY <1>16 DEF Disown, OwnerKeeps, Types, Threads, Custody
  <2>5. Calls' /\ Requests' /\ Named'
    BY <1>16 DEF Disown, OwnerKeeps, Calls, Requests, AcceptedCancelNeverSucceeds, Named
  <2>6. QED
    BY <2>1, <2>2, <2>3, <2>4, <2>5
<1>17. CASE Attempt
  <2>1. Types'
    <3>1. held' \in BOOLEAN /\ prepared' \in BOOLEAN /\ dirty' \in BOOLEAN
      BY <1>17 DEF Attempt, HasEvent, CleanupComplete, Try, OwnerKeeps, Types
    <3>2. QED
      BY <1>17, <3>1 DEF Attempt, HasEvent, CleanupComplete, Try, OwnerKeeps, Types
  <2>2. Threads'
    BY <1>17 DEF Attempt, HasEvent, CleanupComplete, Try, OwnerKeeps, Types, Calls, Threads,
           Startup
  <2>3. Startup'
    BY <1>17 DEF Attempt, HasEvent, CleanupComplete, Try, OwnerKeeps, Types, Calls, Requests,
           Threads, Startup
  <2>4. Custody'
    BY <1>17 DEF Attempt, HasEvent, CleanupComplete, Try, OwnerKeeps, Types, Threads, Custody
  <2>5. Calls' /\ Requests' /\ Named'
    BY <1>17 DEF Attempt, HasEvent, CleanupComplete, Try, OwnerKeeps, Calls, Requests,
           AcceptedCancelNeverSucceeds, Named
  <2>6. QED
    BY <2>1, <2>2, <2>3, <2>4, <2>5
<1>18. CASE Acknowledge
  <2>1. Types'
    <3>1. held' \in BOOLEAN
      BY <1>18 DEF Acknowledge, Try, OwnerKeeps, Types
    <3>2. QED
      BY <1>18, <3>1 DEF Acknowledge, Try, OwnerKeeps, Types
  <2>2. Threads'
    BY <1>18 DEF Acknowledge, Try, OwnerKeeps, Types, Calls, Threads, Startup
  <2>3. Startup'
    BY <1>18 DEF Acknowledge, Try, OwnerKeeps, Types, Calls, Requests, Threads, Startup
  <2>4. Custody'
    BY <1>18 DEF Acknowledge, Try, OwnerKeeps, Types, Threads, Custody
  <2>5. Calls' /\ Requests' /\ Named'
    BY <1>18 DEF Acknowledge, Try, OwnerKeeps, Calls, Requests, AcceptedCancelNeverSucceeds,
           Named
  <2>6. QED
    BY <2>1, <2>2, <2>3, <2>4, <2>5
<1>19. CASE Release
  <2>1. Types'
    BY <1>19 DEF Release, Try, OwnerKeeps, Types
  <2>2. Threads'
    BY <1>19 DEF Release, Try, OwnerKeeps, Types, Calls, Threads, Startup
  <2>3. Startup'
    BY <1>19 DEF Release, Try, OwnerKeeps, Types, Calls, Requests, Threads, Startup
  <2>4. Custody'
    BY <1>19 DEF Release, Try, OwnerKeeps, Types, Threads, Custody
  <2>5. Calls' /\ Requests' /\ Named'
    BY <1>19 DEF Release, Try, OwnerKeeps, Calls, Requests, AcceptedCancelNeverSucceeds, Named
  <2>6. QED
    BY <2>1, <2>2, <2>3, <2>4, <2>5
<1>20. CASE Failed
  <2>1. Types'
    <3>1. cleanupOnly' \in BOOLEAN /\ quit' \in BOOLEAN /\ attemptOpen' \in BOOLEAN
      BY <1>20 DEF Failed, AttemptAnswered, OwnerKeeps
    <3>2. QED
      BY <1>20, <3>1 DEF Failed, AttemptAnswered, OwnerKeeps, Types
  <2>2. Threads'
    BY <1>20 DEF Failed, AttemptAnswered, OwnerKeeps, Types, Calls, Threads, Startup
  <2>3. Startup'
    BY <1>20 DEF Failed, AttemptAnswered, OwnerKeeps, Types, Calls, Requests, Threads, Startup
  <2>4. Custody'
    BY <1>20 DEF Failed, AttemptAnswered, OwnerKeeps, Types, Threads, Custody
  <2>5. Calls' /\ Requests' /\ Named'
    BY <1>20 DEF Failed, AttemptAnswered, OwnerKeeps, Calls, Requests,
           AcceptedCancelNeverSucceeds, Named
  <2>6. QED
    BY <2>1, <2>2, <2>3, <2>4, <2>5
<1>21. CASE Retry
  <2>1. Types'
    BY <1>21 DEF Retry, Retries, Inject, Try, OwnerKeeps, Types
  <2>2. Threads'
    BY <1>21 DEF Retry, Retries, Inject, Try, OwnerKeeps, Types, Calls, Threads, Startup
  <2>3. Startup'
    BY <1>21 DEF Retry, Retries, Inject, Try, OwnerKeeps, Types, Calls, Requests, Threads,
           Startup
  <2>4. Custody'
    BY <1>21 DEF Retry, Retries, Inject, Try, OwnerKeeps, Types, Threads, Custody
  <2>5. Calls' /\ Requests' /\ Named'
    BY <1>21 DEF Retry, Retries, Inject, Try, OwnerKeeps, Calls, Requests,
           AcceptedCancelNeverSucceeds, Named
  <2>6. QED
    BY <2>1, <2>2, <2>3, <2>4, <2>5
<1>22. CASE Finish
  <2>1. Types'
    <3>1. cleanupOnly' \in BOOLEAN /\ shared' \in BOOLEAN /\ opened' \in BOOLEAN
      BY <1>22 DEF Finish, OwnerKeeps
    <3>2. QED
      BY <1>22, <3>1 DEF Finish, OwnerKeeps, Types
  <2>2. Threads'
    BY <1>22 DEF Finish, OwnerKeeps, Types, Calls, Threads, Startup
  <2>3. Startup'
    BY <1>22 DEF Finish, OwnerKeeps, Types, Calls, Requests, Threads, Startup
  <2>4. Custody'
    BY <1>22 DEF Finish, OwnerKeeps, Types, Threads, Custody
  <2>5. Calls' /\ Requests' /\ Named'
    BY <1>22 DEF Finish, OwnerKeeps, Calls, Requests, AcceptedCancelNeverSucceeds, Named
  <2>6. QED
    BY <2>1, <2>2, <2>3, <2>4, <2>5
<1>23. CASE End
  <2>1. Types'
    <3>1. ownerFinished' \in BOOLEAN /\ attemptOpen' \in BOOLEAN
      BY <1>23 DEF End, OwnerKeeps
    <3>2. QED
      BY <1>23, <3>1 DEF End, OwnerKeeps, Types
  <2>2. Threads'
    BY <1>23 DEF End, OwnerKeeps, Types, Calls, Threads, Startup
  <2>3. Startup'
    BY <1>23 DEF End, OwnerKeeps, Types, Calls, Requests, Threads, Startup
  <2>4. Custody'
    BY <1>23 DEF End, OwnerKeeps, Types, Threads, Custody
  <2>5. Calls' /\ Requests' /\ Named'
    BY <1>23 DEF End, OwnerKeeps, Calls, Requests, AcceptedCancelNeverSucceeds, Named
  <2>6. QED
    BY <2>1, <2>2, <2>3, <2>4, <2>5
<1>24. QED
  BY <1>1, <1>2, <1>3, <1>4, <1>5, <1>6, <1>7, <1>8, <1>9, <1>10, <1>11, <1>12, <1>13, <1>14,
         <1>15, <1>16, <1>17, <1>18, <1>19, <1>20, <1>21, <1>22, <1>23 DEF Owner

\* What happens to the owner and the target.
LEMMA OthersKeep == IInv /\ (StopEvent \/ StartupThrows \/ OwnerThrows \/ Kill) => IInv'
<1> SUFFICES ASSUME IInv, StopEvent \/ StartupThrows \/ OwnerThrows \/ Kill PROVE IInv'
  OBVIOUS
<1> USE DEF IInv, vars, requests, routines, session, startup, answers, flags, custody, process, bounds,
           Callers, Waiting, Starting, Handling, Cleaning, NoRequest, NoJob, NoCall
<1>1. CASE StopEvent
  <2>1. Types'
    <3>1. edits' \in BOOLEAN /\ dirty' \in BOOLEAN
      BY <1>1 DEF StopEvent, Arrive, Pauses, Types
    <3>2. QED
      BY <1>1, <3>1 DEF StopEvent, Arrive, Pauses, Types
  <2>2. Threads'
    BY <1>1 DEF StopEvent, Arrive, Pauses, Types, Calls, Threads, Startup
  <2>3. Startup'
    BY <1>1 DEF StopEvent, Arrive, Pauses, Types, Calls, Requests, Threads, Startup
  <2>4. Custody'
    BY <1>1 DEF StopEvent, Arrive, Pauses, Types, Threads, Custody
  <2>5. Calls' /\ Requests' /\ Named'
    BY <1>1 DEF StopEvent, Arrive, Pauses, Calls, Requests, AcceptedCancelNeverSucceeds, Named
  <2>6. QED
    BY <2>1, <2>2, <2>3, <2>4, <2>5
<1>2. CASE StartupThrows
  <2>1. Types'
    <3>1. shared' \in BOOLEAN
      BY <1>2 DEF StartupThrows, Try, OwnerKeeps
    <3>2. QED
      BY <1>2, <3>1 DEF StartupThrows, Try, OwnerKeeps, Types
  <2>2. Threads'
    BY <1>2 DEF StartupThrows, Try, OwnerKeeps, Types, Calls, Threads, Startup
  <2>3. Startup'
    BY <1>2 DEF StartupThrows, Try, OwnerKeeps, Types, Calls, Requests, Threads, Startup
  <2>4. Custody'
    BY <1>2 DEF StartupThrows, Try, OwnerKeeps, Types, Threads, Custody
  <2>5. Calls' /\ Requests' /\ Named'
    BY <1>2 DEF StartupThrows, Try, OwnerKeeps, Calls, Requests, AcceptedCancelNeverSucceeds,
           Named
  <2>6. QED
    BY <2>1, <2>2, <2>3, <2>4, <2>5
<1>3. CASE OwnerThrows
  <2>1. Types'
    BY <1>3 DEF OwnerThrows, Try, OwnerKeeps, Types
  <2>2. Threads'
    BY <1>3 DEF OwnerThrows, Try, OwnerKeeps, Types, Calls, Threads, Startup
  <2>3. Startup'
    BY <1>3 DEF OwnerThrows, Try, OwnerKeeps, Types, Calls, Requests, Threads, Startup
  <2>4. Custody'
    BY <1>3 DEF OwnerThrows, Try, OwnerKeeps, Types, Threads, Custody
  <2>5. Calls' /\ Requests' /\ Named'
    BY <1>3 DEF OwnerThrows, Try, OwnerKeeps, Calls, Requests, AcceptedCancelNeverSucceeds,
           Named
  <2>6. QED
    BY <2>1, <2>2, <2>3, <2>4, <2>5
<1>4. CASE Kill
  <2>1. Types'
    BY <1>4 DEF Kill, Types
  <2>2. Custody'
    BY <1>4 DEF Kill, Types, Threads, Custody
  <2>3. Calls' /\ Requests' /\ Threads' /\ Startup' /\ Named'
    BY <1>4 DEF Kill, Calls, Requests, AcceptedCancelNeverSucceeds, Threads, Startup, Named
  <2>4. QED
    BY <2>1, <2>2, <2>3
<1>5. QED
  BY <1>1, <1>2, <1>3, <1>4


\* A debugger that has just been built satisfies the invariant.
LEMMA InitIInv == Init => IInv
<1> SUFFICES ASSUME Init PROVE IInv
  OBVIOUS
<1> USE DEF Init, NoRequest, NoJob, NoCall
<1>1. Types
  BY DEF Types, Lifecycles, Jobs
<1>2. Calls /\ Requests /\ Named
  BY DEF Calls, Callers, Waiting, Requests, AcceptedCancelNeverSucceeds, Named
<1>3. Threads /\ Startup
  BY DEF Threads, Starting, Startup
<1>4. Custody
  BY DEF Custody, Handling, Cleaning
<1>5. QED
  BY <1>1, <1>2, <1>3, <1>4 DEF IInv

\* So does a state in which nothing happened.
LEMMA StutterKeeps == IInv /\ UNCHANGED vars => IInv'
<1> SUFFICES ASSUME IInv, UNCHANGED vars PROVE IInv'
  OBVIOUS
<1> USE DEF IInv, vars, requests, routines, session, startup, answers, flags, custody, process,
            bounds
<1>1. Types'
  BY DEF Types
<1>2. Calls' /\ Requests' /\ Named'
  BY DEF Calls, Requests, AcceptedCancelNeverSucceeds, Named
<1>3. Threads' /\ Startup'
  BY DEF Threads, Startup
<1>4. Custody'
  BY DEF Custody
<1>5. QED
  BY <1>1, <1>2, <1>3, <1>4

\* The invariant holds in every state that can be reached.
THEOREM Invariance == Spec => []IInv
<1>1. IInv /\ [Next]_vars => IInv'
  BY UserKeeps, PressedKeeps, WorkerKeeps, DetachingKeeps, OwnerKeepsIInv, OthersKeep,
       StutterKeeps
  DEF Next
<1>2. QED
  BY <1>1, InitIInv, PTL DEF Spec

----------------------------------------------------------------------------
(* What the invariant gives.                                               *)

\* Every variable has its type, and a result is not both a success and cancelled.
THEOREM TypeCorrect == Spec => []TypeOK
<1>1. IInv => TypeOK
  BY DEF IInv, Types, Lifecycles, Jobs, TypeOK
<1>2. QED
  BY <1>1, Invariance, PTL

\* std::thread is never assigned over a joinable one (attach, launch).
THEOREM ThreadIsFree == Spec => []ThreadNotOverwritten
<1>1. IInv => ThreadNotOverwritten
  BY DEF IInv, Threads, ThreadNotOverwritten
<1>2. QED
  BY <1>1, Invariance, PTL

\* An accepted cancellation is never followed by success (lifecycleWorkerLoop).
THEOREM CancelHonoured == Spec => []AcceptedCancelNeverSucceeds
<1>1. IInv => AcceptedCancelNeverSucceeds
  BY DEF IInv, Requests
<1>2. QED
  BY <1>1, Invariance, PTL

\* An attach that succeeds names the session whose first event has come
\* (waitForStartup).
THEOREM SuccessIsAnnounced == Spec => []SuccessHasItsImage
<1>1. IInv => SuccessHasItsImage
  BY DEF IInv, Startup, SuccessHasItsImage
<1>2. QED
  BY <1>1, Invariance, PTL

\* Once no session thread is joinable, its target was released (detach).
THEOREM ReleasedAfterJoin == Spec => []DetachedMeansReleased
<1>1. IInv => DetachedMeansReleased
  BY DEF IInv, Threads, Custody, DetachedMeansReleased
<1>2. QED
  BY <1>1, Invariance, PTL

\* A detach by name passes its last check before the session can change
\* (detachForSession).
THEOREM NamedSessionOnly == Spec => NamedDetachOnly
<1>1. IInv => (call.step = "sync" /\ call.from = "request" /\ lifecycle.expected # 0
                 => lifecycle.expected = sessionGeneration)
  BY DEF IInv, Named
<1>2. QED
  BY <1>1, Invariance, PTL DEF NamedDetachOnly

\* Only the owner thread takes a target over, changes it, restores it or lets it go.
LEMMA OwnerOnly == Worker \/ Detaching \/ Pressed \/ User => UNCHANGED <<owned, dirty>>
<1> USE DEF custody, process
<1>1. Worker => UNCHANGED <<owned, dirty>>
  BY DEF Worker, Take, BeginAttach, BeginDetach, BeginSession, Spawn, Evaluate, FallAsleep,
       Decide,
         Check, Commit, CommitCancelled
<1>2. Detaching => UNCHANGED <<owned, dirty>>
  BY DEF Detaching, Enter, SyncRead, SyncFlag, SyncInject, PostDetach, AwaitAnswer, Join, Settle
<1>3. Pressed => UNCHANGED <<owned, dirty>>
  BY DEF Pressed, PauseFlag, PauseInject, EditFlag, EditInject, JoinWorker, JoinOwner
<1>4. User => UNCHANGED <<owned, dirty>>
  BY DEF User, RequestAttach, RequestLaunch, RequestDetach, Post, CancelLifecycle, Continue,
         PressPause, QueueEdit, Destroy
<1>5. QED
  BY <1>1, <1>2, <1>3, <1>4

\* The steps of the owner that let a target go, and those that clean one.
LEMMA Releases ==
  ASSUME Next
  PROVE  \/ CreateTarget \/ EmergencyRelease \/ Release
         \/ UNCHANGED owned
<1> USE DEF custody, process
<1>1. CASE Owner
  BY <1>1 DEF Owner, OwnerStart, PublishStartup, EmergencyRetry, CreateEvent, BreakEvent,
       ExitEvent,
       PumpTimeout, ServeEdits, DrainExit, PausedDetach, PausedContinue, Resume, Leave, Disown,
       Attempt, Acknowledge, Failed, Retry, Finish, End
<1>2. CASE StopEvent \/ StartupThrows \/ OwnerThrows \/ Kill
  BY <1>2 DEF StopEvent, StartupThrows, OwnerThrows, Kill
<1>3. QED
  BY <1>1, <1>2, OwnerOnly DEF Next

\* Nothing else removes the debugger's bytes.
LEMMA Cleans ==
  ASSUME Next, dirty \in BOOLEAN
  PROVE  CreateTarget \/ Attempt \/ (dirty => dirty')
<1> USE DEF custody, process
<1>1. CASE Owner
  BY <1>1 DEF Owner, OwnerStart, PublishStartup, EmergencyRelease, EmergencyRetry, CreateEvent,
       BreakEvent, ExitEvent, Pauses, PumpTimeout, ServeEdits, DrainExit, PausedDetach,
       PausedContinue, Resume, Leave, Disown, Acknowledge, Release, Failed, Retry, Finish, End
<1>2. CASE StopEvent \/ StartupThrows \/ OwnerThrows \/ Kill
  BY <1>2 DEF StopEvent, Pauses, StartupThrows, OwnerThrows, Kill
<1>3. QED
  BY <1>1, <1>2, OwnerOnly DEF Next

\* Memory is restored only while an event is held (performDebugCleanup).
THEOREM RestoredUnderEvent == Spec => RestoredWhileHeld
<1>1. IInv /\ [Next]_vars =>
        [dirty /\ ~dirty' => (target = "stopped" /\ held) \/ owner = "create"]_vars
  <2> SUFFICES ASSUME IInv, Next, dirty, ~dirty'
               PROVE  (target = "stopped" /\ held) \/ owner = "create"
    OBVIOUS
  <2>1. CreateTarget \/ Attempt
    BY Cleans DEF IInv, Types
  <2>2. CASE CreateTarget
    BY <2>2 DEF CreateTarget
  <2>3. CASE Attempt
    <3>1. alive /\ held /\ owner = "attempt"
      BY <2>3 DEF Attempt, HasEvent
    <3>2. QED
      BY <3>1 DEF IInv, Custody, Cleaning
  <2>4. QED
    BY <2>1, <2>2, <2>3
<1>2. QED
  BY <1>1, Invariance, PTL DEF Spec, RestoredWhileHeld

\* A target that runs on was first restored (DebugActiveProcessStop after
\* performDebugCleanup, and emergencyThreadCleanup).
THEOREM CleanRelease == Spec => ReleasedClean
<1>1. IInv /\ [Next]_vars =>
        [owned /\ ~owned' /\ target' = "running" /\ ~killed => ~dirty]_vars
  <2> SUFFICES ASSUME IInv, Next, owned, ~owned', target' = "running", ~killed
               PROVE  ~dirty
    OBVIOUS
  <2>1. CreateTarget \/ EmergencyRelease \/ Release
    BY Releases
  <2>2. CASE CreateTarget
    BY <2>2 DEF CreateTarget, IInv, Custody
  <2>3. CASE EmergencyRelease
    BY <2>3 DEF EmergencyRelease, IInv, Custody
  <2>4. CASE Release
    <3>1. alive /\ owner = "release"
      BY <2>4 DEF Release
    <3>2. QED
      BY <3>1 DEF IInv, Custody, Cleaning
  <2>5. QED
    BY <2>1, <2>2, <2>3, <2>4
<1>2. QED
  BY <1>1, Invariance, PTL DEF Spec, ReleasedClean

\* No session starts before the thread of the last one is joined, and then its
\* target is let go (replaceSession, detach).
THEOREM NoOverlap == Spec => []SessionsDoNotOverlap
  BY ThreadIsFree, ReleasedAfterJoin, PTL DEF SessionsDoNotOverlap

\* What the interface is told of an attach is true (runLifecycle's commit).
THEOREM TrueAnswers == Spec => []AnswersAreTrue
  BY CancelHonoured, SuccessIsAnnounced, PTL DEF AnswersAreTrue

\* The target is changed back under one of its events, and before it is let go
\* (the cleanup at the end of the event loop).
THEOREM InTime == Spec => RestoredInTime
  BY RestoredUnderEvent, CleanRelease DEF RestoredInTime
=============================================================================
