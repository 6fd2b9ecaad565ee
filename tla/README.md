# Disasm Studio: TLA+ specifications

Disasm Studio (C++20, Windows) is one process that disassembles binaries, debugs native, JVM and
GameMaker programs, patches them, scans their memory and keeps what the user learns in project
files. Most of its lines compute: instruction decoding, control-flow graphs, decompilation. What
is hard to test is where threads, a foreign process and failing system calls meet, and that is
what these specifications are about. Every definition that models code is listed with its source
lines in the `map` of `PROJECT.json`; sources are quoted below by their name under `src/src/`.

1. [The system](#1-the-system)
2. [The modules, and how they correspond to the code](#2-the-modules-and-how-they-correspond-to-the-code)
3. [What is checked](#3-what-is-checked)
4. [What is proved](#4-what-is-proved)
5. [Disagreements found](#5-disagreements-found)
6. [What is not modelled](#6-what-is-not-modelled)
7. [The plan](#7-the-plan)

## 1. The system

The UI thread draws a frame, polls everything and posts requests; it is the only client of almost
every component. Everything slow has a worker of its own.

| Component | State it keeps | Operations | Hard because |
|---|---|---|---|
| Debugger lifecycle (`Core/Debugger.cpp`) | one lifecycle request, the session's state and generation, startup flags, a held debug event, what must be restored in the target | request attach, launch, detach; cancel; continue, pause, edit; the owner's event pump, cleanup and retained cleanup; destruction | three threads and the target; two mutexes, one lock-free flag; breaks injected into a running process; every native call may fail |
| Checked memory mutation (`Core/DebuggerMemoryMutation.h`, `DebuggerBreakpointMemory.cpp`) | at most one retained mutation: original and new bytes, original protections, what is still owed | apply, reconcile | a call that fails may have had an effect; the target changes bytes meanwhile |
| Breakpoint commands (`Core/DebuggerBreakpoints.cpp`, `applyPendingBps`) | five queues, by kind of command; rows that are installed, disabled or failed | add, remove, switch, condition, period; the owner's pass | the order of the commands is lost in the queues; commands arrive during a pass |
| Memory-write requests (`Core/Debugger.cpp`) | a bounded queue of spans with their answers, the request the owner has taken | write, write a batch; perform, answer, time out, cancel | an answer races a timeout; a span lies across planted bytes; the target runs when it is asked |
| Stepping (`Core/Debugger.cpp`, `StepLogic.h`) | the re-arm, the temporary breakpoint, the lease that suspends peers, the Step Out walk | step into, over, out, run to, continue, pause; breakpoint and single-step events | all threads run into the same bytes, and their events are already queued |
| Hardware breakpoints, observers | debug-register slots; planted sites | add, remove; probe | slots are few; bytes are shared |
| Investigation service (`Core/InvestigationService.cpp`) | session, one pending build and search, one publication of each, counters | begin and end a session, search, poll, cancel, wait, destroy | latest wins over a worker that cannot be stopped; document generations are used again |
| Live scan service (`Core/LiveScanService.cpp`) | a queue, results, jobs in flight, an epoch, cancelled tokens, a batch counter | request, take, cancel one, cancel all, wait, destroy; the workers | several workers, cancellation at any point, a bounded list of results shared by documents |
| Analysis services (`Core/AnalysisService.cpp`) | for each document and for the modules a queue, results, an epoch and workers; one scheduler they share; marks of what the interface waits for | request, poll, cancel, wait, bump, activate, destroy; the workers | jobs give way to one another and are resumed; results are dropped at a bound; the interface must notice that no answer will come |
| Analysis cache | pages by the digest of their inputs | look up, store | pure |
| Symbol service (`Core/SymbolService.cpp`) | the session and its generation, a bounded queue, pending sets, two bounded caches, the backend's binding | begin or end a session, look up, cancel and wait, destroy; the worker | late results of an earlier process; two lookups of one address; a duplicated handle |
| Document context | documents with generations, ownership of debugger results | open, close, adopt | late results of a closed document |
| Atomic file (`Core/AtomicFile.cpp`) | `<path>`, `<path>.bak`, temporary siblings | write, validated read | crashes, failures between two renames, two instances of the program |
| Project store, preferences, signature library | sidecars, the recents index | read, change, write | read-modify-write without a lock between instances |
| Patches | original bytes, a patch set, recovered state | add, remove, commit, recover | a failed commit and its retry |
| JVM debugging | a socket, replies parked by request id | request, poll, time out | replies out of order and late |
| GameMaker debugging | a helper in the target, its gate, hooked bytes | arm, call, disarm | code of the target runs while it is patched |
| Process memory tools | a scan with its candidates, a freeze table | scan, next scan, freeze, write back | the target changes between scan and write |
| Trace coverage, authorization watch, string trace | planted sites and their hits | plant, hit, retire | they share bytes with breakpoints |
| Unpacking, module registry, listing index, sampling profiler | images, tables | mostly pure | little |
| Disassembly, analysis, reports, naming | none between calls | pure | data, not control |
| User interface (`App.cpp`, `Tabs`, `Ui`) | view state | draws, posts requests, polls | tokens and marks must follow what services drop |

**How they interact.** The UI calls a service, which locks its mutex, changes its queue, unlocks
and notifies; a worker publishes under the same mutex and the UI polls in a later frame. The
debugger posts commands to its owner thread, the only one allowed to touch the target, and
publishes a snapshot. Breakpoints, probes, traces and memory writes all write through the checked
mutation. Live scans and the memory tools read the debugged process through a reader bound to a
process id and session generation. All files that matter are written by `AtomicFile`.

**What makes each of them correct** (the hazards, with their lines, are in `PROJECT.json`):

- *lifecycle*: sessions do not overlap; a cancellation that is accepted is never answered by
  success; a target is restored only while one of its events is held and is let go only when it is
  clean; every request is answered and the destructor returns.
- *checked mutation*: a write that did not verify leaves nothing behind, changes of the target
  are kept, protections and the instruction cache are given back, nothing fails silently, and one
  retry suffices once calls work.
- *investigation service*: what is seen belongs to the newest request; every request is counted
  once; waiting ends, and has then excluded every reader.
- *live scan service*: nothing cancelled is delivered, no document's search is lost, the bound
  and `busy()` are truthful, waiting excludes readers, a batch ends.
- *atomic file*: no torn bytes, the newest save survives any one failure, the backup is the save
  before it.
- *analysis services*: the shared slots are counted right and never idle while somebody waits for
  one; no job survives its epoch; long work delays neither a cancellation nor a question of the
  user; every request ends, and what is given up had no answer under way.
- *breakpoint commands*: the user sees one list that follows the accepted commands in their
  order; an address has one row, and one that holds a byte can be switched; commands are served.
- *memory writes*: a span is written entirely or not at all, before its answer and to the target
  it was meant for; traps and protections survive it; the queue is counted right and no caller
  sleeps with work queued that nobody will look at.
- *stepping*: a step ends, where it was meant to (a recursive call: section 5) and on the thread
  it was meant for; between two
  stops no trap is lost, and no peer runs through a byte that is disarmed.
- *symbol service*: no answer outlives its session or replaces a better one; each lookup is
  pending once and answered; after a cancellation nothing of the session is open.
- *documents, JDWP* (not modelled): a late result is never adopted by what came after.

## 2. The modules, and how they correspond to the code

One module per component; `MC*` modules give the constants of TLC's instances, and `*Proofs`
modules hold theorems. In each module, variables carry the names of the code's members
(`pending_` is `pending`), an action is a handler or one block under the mutex, and the variables
after the comment "only observe" enable and disable nothing.

### `DebuggerLifecycle`

The UI's buttons, the lifecycle worker, the debug-event owner of a session, the target and its
killer, in one module since they share the state of `Debugger`. `mtx_`, `lifecycleMtx_` and
`hProcMtx_` make blocks atomic; where the code reads under one lock and acts under another or none
(`requestTraceSyncBreak`, `pauseForSession`, `cancelLifecycle`) the model has one action for each.
Condition variables are guards, except for `waitForStartup`, whose predicate reads a flag that is
written outside its mutex: there the waiter evaluates, falls asleep and is woken in separate steps.
Names follow the code: `Take` .. `Commit` are `lifecycleWorker`, `BeginSession` .. `Decide` are
`attach` and `launch`, `Enter` .. `Settle` are `detach`, `OwnerStart` .. `End` are `threadEntry`
and `threadMain`.

Abstracted: handling one debug event is what the lifecycle sees of it (the target stops, queued
edits are applied, the event may pause it); memory and threads to restore are one flag `dirty`,
restored or not by one fallible step (`MemoryMutation` is that step in detail); a detach's two
counters are the flag "the newest attempt is open"; the control epoch and the display string of
the state are left out. Assumed of Windows: an event that is raised is queued and the next
`WaitForDebugEvent` returns it; a process handle is signalled only after its EXIT event is
continued; a break cannot be injected into a terminating process; any call may fail.

### `MemoryMutation`

`ApplyMemoryMutation`, `ReconcileMemoryMutation` and `checkedRemoteWrite`: open the protections,
write, verify, survey and roll back, restore, flush. Each native call is a step that fails or
succeeds, and a failed one may have had its effect, on any subset of the bytes for a write. The
debug-event owner is the only caller and the target is stopped meanwhile, so the target's own
changes (bytes, protections, exit) come between operations. Protections are per region; `phase` is
where the operation is, and `healthy` says that calls have stopped failing, which lets
`RetryRecovers` speak of one retry.

### `InvestigationService`

The UI's calls against one worker. The two condition variables are program counters of the
sleeping threads, so that a lost notification would be a deadlock. Document generations are used
again, as when a document is closed and reopened at the same revision, which is why the service
has session tokens. What the index computes is left out: a build or search completes, fails, is
cancelled, or throws (`MaxFaults`).

### `LiveScanService`

The pool and what the UI thread does with it: searches a document owns by token, shared scans, and
the image reads of "Analyze all modules" with the marks the view puts on modules. Epoch and batch
counters are read and written without the mutex where the code does. A job's ranges, progress
counters and findings are left out: it checks, reads, checks again, and publishes, fails or is
superseded. A job without a reader is never submitted by the program and is left out.
`cancelPattern` erases every entry with the token; there is one at most, which the proofs show
(`RequestsApart`), and the model removes that one.

### `AnalysisService`

The services of documents and of the debugged process's modules, the scheduler they share, and the
interface thread. Condition variables: a worker that waits for admission is in `asleep` until
somebody notifies, so that a forgotten notification is a worker that sleeps on; the wait for work
and for idleness are guards, as both are notified after every change. `best` is the cached
priority that checkpoints read without a lock. A checkpoint stops a pass that is old, cancelled or
outranked; `Pass`, `Emit` are the end of a pass and its publication, between which an epoch may
end. A request is a target with its passes; `want` is a module's mark "analyzing" or a view's
pending question, with the frames for which nothing has been under way. What passes compute, the
merging of their inputs, progress and batch counters, and a service that cannot start its threads
are left out; the value origin stands for all interactive requests. Shared memory is sequentially
consistent, as the code's mutexes and acquire-release flags make it for what is read here.

### `AtomicFile`

`Write`, `ReadValidated` and `Read` of the Windows build, by threads of several processes that
share one mutex per process. A file is the number of the save that wrote it, or torn bytes, and
whether it is on disk. Every native call may fail; `ReplaceFileW` fails with each of the partial
effects its documentation and the code's branch name; a process may be killed and power may fail
between any two calls, after which bytes never flushed are torn. Assumed: renames are ordered and
survive a power loss, an attribute query is truthful, a kill does not interrupt a system call, and
scratch names are never used twice. Directories at the file's path are left out.

### `BreakpointList`, `BreakpointCommands`

`BreakpointList` is what the user is promised: one row for an address, on or off, with a
condition, changed by one accepted command after the other. `BreakpointCommands` is the code: each
command puts its request into the queue of its kind under `mtx_` and then, outside the mutex,
wakes the paused owner or breaks into the running target, which may fail; the owner swaps the queues out and
applies additions, conditions, switches, removals and, after a second lock, periods. The mapping
(`Wanted`) reads the row of an address through the queues and the owner's batch, in the order in
which they will be applied, so that the refinement says that losing the order of the commands
loses nothing. Two liberties are granted and stated in `BreakpointList`: at a *stubborn* address,
where the byte cannot be taken or given back, the row is what could be had (a failed addition may
come back enabled), and a switch-off that is accepted while the removal of its row is being
applied stays in its queue and meets a later addition (`late`). Hit counts, the limit of 4096
failure rows and other owners of a byte (GameMaker hooks) are left out; a terminated target is a
session that ends.

### `StepEngine`

The debug loop's treatment of INT3 and single-step events, with `StepLogic.h`, over a small
program: threads with an instruction, return addresses and one lock. The loop's state is one
record `s`; the handler of an event is a function of it, composed of the code's own functions
(`StopFor`, `BeginStepOut`, `ReArm`, `EndExclusiveStep`). Threads raise exceptions on their own,
and the loop takes them in any order, those of threads it has suspended since included. Native
failures, breakpoints that come and go, hardware breakpoints, thread exit, recording, the step
limit of Step Out, repeated string instructions, the parking of a failed execution, threads the
user has suspended, and commands for a thread with a queued exception are left out. The code handles an event that arrives
during another thread's lease with the lease holder's variables; the history variable `crossed`
marks that, the user gives no command after it, and the properties speak of behaviours up to it.
Section 5 has what follows.

### `TargetWrites`, `MemoryWrites`

`TargetWrites` is the promise: spans are written whole, to the target the call was made for,
before their fate is told, and a refused one is never written later. `MemoryWrites` is the code:
callers queue spans under `mtx_`, wake or break, and wait ten seconds for each; the owner performs
one span at a time, holding `mtx_` from the first look to the answer, in the order open
protections, read, write around the traps, verify, commit the bytes beneath the traps, restore.
The mapping's memory (`Native`) is what the target would read without traps, and its fate of a span
is decided at the step that commits it, not at the answer. A scalar call is a batch of one; calls
that are turned away at once change nothing and are no actions. Breakpoints come and go as any event of the
target might have it. Not in the model: the target's own stores, the traps of traces, probes and
the authorization watch, the stop of a GameMaker session, exceptions of the owner, and `hProcMtx_`,
which `mtx_` covers on every path but the plain read.

### `SymbolService`

One user-interface caller and one worker. A request carries the session it was made in; the
worker's loop is a step for each stretch between two mutex acquisitions or backend calls, which
may throw, and in the case of a resolution find nothing. The caches are sequences in the order of
age, so that eviction leaves a suffix, and the bytes of a set of entries or lookups are counted as
pairs of what has them and a number. `bound` is what the backend itself is bound to, which the code
keeps nowhere: it is what the properties about handles are about. A lookup that hits a cache or
misses the `try_lock` changes nothing. Texts, statistics, the wrap of the 64-bit generation and exhausted memory are left
out, except in the failure path, where exhaustion ends the worker.

### How the modules are put together

`BreakpointCommands` implements `BreakpointList` and `MemoryWrites` implements `TargetWrites`, each
by INSTANCE with a refinement mapping. `AnalysisService` composes several services with the
scheduler between them. The five modules about the debugger divide its state rather than share it: what one
of them abstracts is another's subject. `DebuggerLifecycle` restores the target in one
fallible step, which `MemoryMutation` details; `MemoryWrites` has breakpoints come and go, which
`BreakpointCommands` details; `StepEngine` has them stand still.

## 3. What is checked

All times are for two TLC workers; "states" are distinct states.
Each passing run also checks the type invariant of its module, except `memory_mutation` (its
`MutationTypeOK` is proved, section 4).

| Run | Instance | States | Shows |
|---|---|---|---|
| `lifecycle` | within any of: 3 requests and 2 faults; 2 requests, 1 fault and 1 stop or kill; 1 request, 1 fault, 1 stop or kill and 1 press; fair | 1.3 M | `SessionsDoNotOverlap`; `AnswersAreTrue`: an accepted cancellation never ends in success, a success has its image; `RestoredInTime`: only under a held event, and released only when clean; `NamedDetachOnly`: a detach that names a session never stops another; `CallsReturn`: requests complete and the destructor returns, but for a lost break and for retained cleanup of a terminated target |
| `memory_mutation` | 2 pages, 3 byte values, faults without bound | 2.4 M | `NothingOwed` when an operation has ended and nothing is retained; `HonestWrites`: applied means written, a change of the target is kept; `RetryRecovers` |
| `investigation` | 4 requests over 2 generations, 1 cancellation, 1 fault, fair | 0.8 M | `EndsAreTrue`: what is seen is of the newest request and its own session, not cancelled, and each request is counted once; `IdleMeansIdle`; `CallsReturn` |
| `live_scan` | 2 workers, 2 modules, 3 requests, 1 cancellation of everything, 1 shared result, fair | 0.9 M | `ResultsHonest`: nothing cancelled delivered, nothing owned lost, truthful bound; `IdleIsHonest`: waiting excludes readers, `busy()` is true; `BatchEnds` |
| `atomic_file` | 2 threads of one instance and 1 of another, 3 saves, 1 trouble | 1.1 M | `NeverTorn`; `SavesAreKept`: the newest save survives and reads find it, the backup is the one before |
| `breakpoint_commands` | 1 address, 1 caller, 2 conditions, stubborn or not, commands without bound, fair | 0.4 M | `RowsAgree`; `FollowsTheCommands` (refinement of `BreakpointList`); `CommandsAreServed`, unless a break could not be injected |
| `step_engine` | 2 threads on a recursive call and a lock, 3 breakpoints, 2 run-to targets, fair | 0.4 M | `StepsLeaveNothing`: no trap lost, no peer through a disarmed byte; `StopsWhereAsked`: the address, the thread and, for Step Out, the frame; `StepsEnd` unless the stepping thread waits for another |
| `memory_writes` | 2 callers with 1 and 2 spans, one across an executable and a data address | 1.3 M | `TargetIsWhole` between writes; `QueueIsServed`: counted right, nobody stranded; `WritesAreKept` (refinement of `TargetWrites`) |
| `symbol_service` | 2 addresses, 1 name, 3 sessions, every limit reached, fair | 0.3 M | `PendingIsUnderway` and its cost; `SessionsAreSeparate`: answers are of the session and never replaced by worse ones, nothing of it is left after a cancellation; `EveryCallIsAnswered` |
| `analysis_service` | 2 services of 1 worker, 1 shared slot, 3 targets, 3 calls, limits of 2, fair | 0.2 M | `PoolIsSound`: the scheduler's books, no sleeper forgotten, no reader of a changing image; `NobodyWaitsForever`; `ViewIsPatient`: no view is given up that is answered |
| `lifecycle_swallowed_break` | 1 request, 1 fault, 1 press | | ends in a violation: section 5 |
| `step_over_recursion` | as `step_engine` | | ends in a violation: section 5 |

**Why the bounds are enough.** Interference in these components is between a thing and its
replacement, so two of each (sessions, generations, epochs) plus one to overtake is where it
shows. Two lifecycle requests are an attach and the attach that replaces it; the third, without
stops or presses, is a detach between or after them, named for the first session. One fault reaches
every error path, the second a failing recovery. Kills and events of the target meet the
replacement of a session; a press of Pause or an edit, which needs a break of its own, meets one
request, all of these and the destructor. Both exceptions of `CallsReturn` are needed there: TLC
refutes it without either. The safety properties are proved for all bounds (section 4). Two
pages are what a write can half-fail on, and
three byte values are the original, the written and one the target chose. Two generations with
four requests let one be left and come back while a search is in flight. With three
requests and one shared slot, the eviction happens with a document's search before and after the
evicted result. Three saves are needed for a backup to be rotated by a save that is itself
overtaken, and one trouble is what `SavesSurvive` promises to survive. One slot
for two services makes them compete for it; of three calls, two fill a service's limit and the
third meets it, or one is a request, one what outranks it and one a cancellation. Breakpoint addresses share
nothing but the owner's pass, which goes through all of its steps with one; the user interface's
thread is the only one to issue commands, which is why one caller will do, and commands are not
bounded: every order of every kind, at every point of the pass, is explored. The program of
`step_engine` has what a step can meet: a call, a recursion that runs into the temporary
breakpoint of an outer activation, breakpoints behind a call, at its target and on the instruction
stepped from, a peer in the same code, and a lock that the peer may hold. The first span of
`memory_writes` writes a byte that looks like a trap at an address that may hold one, the second
is refused if it were code, and two pending requests is the limit the third meets. Rich answers of
two addresses do not fit into the symbol cache, three requests fill the queue, and three sessions
are a session, its replacement and the one that replaces that. Symmetry is used in
`memory_mutation` only (bytes and pages, safety properties). The `CONSTRAINT` of `memory_writes`
ends a behaviour once damage has been reported, as little is promised from there on; the proofs
do without it.

**Deadlock** is checked for `memory_mutation`, `investigation`, `atomic_file`,
`breakpoint_commands` and `symbol_service`. It is not for the others. The requests of the
lifecycle, live scan, analysis and memory-write runs are bounded and their destructors end the program;
threads of the program under `step_engine` may wait for one another, and the user asks for nothing
more once `crossed`. The liveness properties (for `memory_writes`, `NobodyStranded` in
`QueueIsServed`) say that they do not stop early.

**Fairness.** *Lifecycle*: weak fairness of the worker, of detach, of the owner and of a pressed
button's remaining steps (threads run, `wait_for` times out), and strong fairness of taking
due debug events, which Windows queues, so that every 100 ms poll that finds none cannot be the
reason one is never taken. Nobody has to press anything and nothing has to fail or succeed.
`CallsReturn` excepts, by name and only from some moment on for ever, the two ways in which the code
does wait without end (section 5).
*Investigation*: weak fairness of the worker, of the waiting UI call and of the join; back-end
calls return. *Live scan*: weak fairness of the workers and of UI calls already begun; strong
fairness of a scan leaving its loop, as its ranges are finite. *Breakpoint commands*: weak
fairness of the owner, which includes that an injected break arrives (that it can be injected is
not assumed: `unbroken` marks that it could not, and nothing else of the model reads it), and of the rest of a command
that has begun. *Stepping*: weak fairness of each thread that is not suspended and of taking each
thread's event; the user need not do anything. *Symbol service*: weak fairness of the worker,
whose back-end calls return, and of the call that waits. *Analysis services*: weak fairness of each worker's steps but
the end of a pass, and of frames once begun; strong fairness of frames, which follow one another;
that passes end is assumed for the last conjunct of `NobodyWaitsForever` alone. *Memory writes*
have no liveness property: each call ends by its own deadline.

**Mutants.** Each property of a passing run has at least one definition `<Plausible bug>` in its
module, with the mistake a programmer could make there, and is violated when the code's definition
is replaced by it: e.g. `PublishUnchecked` drops the second check under the mutex,
`BuildStaleByGeneration` drops the session token, `QueueEmpty` waits for the queue rather than for
the workers. A property that is a conjunction has one for each part that is not a consequence of
the others.

## 4. What is proved

The following hold for every value of the constants (TLAPS; every leaf checked).

**`DebuggerLifecycleProofs`**, without assumptions on the bounds: `TypeCorrect`, `NoOverlap`,
`TrueAnswers`, `InTime` and `NamedSessionOnly`, every safety property its passing run checks, for
any number of requests, faults, debug events and presses; the first three combine a theorem for
each part (`ThreadIsFree`, `ReleasedAfterJoin`, `CancelHonoured`, `SuccessIsAnnounced`,
`RestoredUnderEvent`, `CleanRelease`). Each property relates two threads, and what makes it
true lies several steps back, so `IInv` has one part per argument. `Calls`: `detach()` has one
caller at a time, and it is the one the worker's step says. `Requests`: the request does not change
while it is carried out, and is cancelled only before it is completed. `Threads`: the owner runs
only in a joinable thread, and its startup is over before the worker is past the wait for it; a
session starts only after `detach()` answered yes, which it does only when the thread is joined.
`Startup`: a first event belongs to the session that is running, since nothing but a new session
takes it back. `Named`: the session a detach names cannot end while the worker is in that detach.
`Custody`: at each step of the owner, whether the target is owned, stopped, held and clean;
a released target is clean since release comes after the acknowledgement of a prepared
target. `Invariance` has a lemma per group of actions, a step per action, and a step per part the
action can disturb. The races of section 5 are steps of this model like any other: the theorems
hold in spite of them.

**`RecoverableWritesProofs`**, of the two writes that recover step by step. *Of `MemoryMutation`*,
from `MutationAssumption` (each address has a region; `Writable` is a
protection): `MutationTypeCorrect`, `NothingIsOwed` and `WritesAreHonest`, again from a theorem for each part
(`NothingLeftBehind`, `ProtectionsReturned`, `CacheIsFlushed`; `AppliedMeansWritten`,
`SupersededIsKept`), `FailuresReported` and `RetriesRecover`, for any address space, page
layout and sequence of failures. The safety properties speak of the moments when nothing is
retained, so none is inductive. `MutationIInv` says what is recorded in the meantime: `Sequencing`
ties the phase to the duties still open; `Protections`, that each page that is not under the
protection the target chose is listed to be restored, and the protection remembered is that one;
`Ownership`, that each byte the write left holds either the new or the original value, and that
the copy surveyed for a rollback restores exactly those; `Cache`, that each changed byte is in the
range to be flushed; `Reports`, that each pending duty has a failure flag. `MutationInvariance` proves it,
one step per action and one per conjunct; the properties follow from it, `HonestWrites` as a
property of a step. `RetriesRecover` has an invariant of its own, `Recovers`: with calls that work,
a readback finds what was written, and the loop that restores still has before it whatever is owed.

*Of `AtomicFile`*, from `FileAssumption` (each thread has a process; the bounds are
naturals): `TypeCorrect`, which contains mutual exclusion within a process, `NoTornFile` and
`SavesAlwaysKept`, for any numbers of processes, threads, saves and troubles. `IInv` strengthens `NeverTorn` with what
makes it inductive: installed and staged files are *whole* (complete and flushed, so that a power
loss cannot tear them), and what each program step knows of its temporary file (`Prepared`):
after the flush it is complete and on disk, and only then may it be installed. A power loss is one
lemma, a kill another, and a thread's own steps the third. `SavesAreKept` speaks of quiet moments
and of the absence of troubles; `KInv` says what holds in between. `NewestIsThere`: an existing file is
the newest save, and if the one trouble granted has taken it away, a saver that has seen this is
about to move its own save there, which cannot fail any more. `ReadsHold`: a read without trouble
never gets as far as the backup once something was saved. `BackupHolds`: with one process saving, whether the file
exists is decided by whether anything was saved, the replaced file is the save before, and it is either
staged by the one saver or the backup already; that there is one saver is `Occupied` (who works is
in the mutex) with `WritersKnown`. A step is seen through one of six effects (`StepIs`).

**`AnalysisServiceProofs`**, from `PoolAssumption` (finitely many services, at least one; each has a
worker, and there is a slot; a target's passes are a sequence; a view waits for two idle frames at
least; the bounds are naturals): `TypeCorrect`, `PoolAlwaysSound` and `ViewsArePatient`, for any
services, workers, slots, targets, passes and limits. The invariant has four groups. *The
scheduler*: `Counts`, the admissions of each service and of all are the cardinalities of the
workers that hold a slot; `Cached`, the best priority it remembers is that of now, unless the
interface is about to notify; `Sleepers`, whoever sleeps and could be admitted will be told, since a
notification is under way or a worker that is about to claim must give one. What makes the last
two inductive is that an action either leaves all that priorities depend on or notifies (`UiTells`).
*Jobs* (`Fresh`, `Clock`): none is ahead of the epoch of its service, so a new epoch makes all
that exist old. *The wait* (`Emptied`): while the interface waits or changes an image, nothing is queued
for it and what still runs is old and will not be resumed; the wait ends when nothing is in
flight, and so nothing is until it is over. *Views* (`IdleIsOver`): of a view that has
been idle for a frame no job is left, and after a drain no answer; the second idle frame gives up
rightly. `Limited` holds because a request counts the jobs in flight, of which a resumed one
leaves a place (`WorkerMoves`, `FlightMove`).

**`BreakpointCommandsProofs`**, from `CommandsAssumption` (no condition and no period are values
of their own): `TypeCorrect`, `RowsAlwaysAgree` and `CommandsFollowed`, the refinement of
`BreakpointList`, for any addresses, callers and orders of commands. `IInv` adds to the types
`Rows` (installed, disabled and failed rows exclude each other, and a failed one is at a stubborn
address), `Requests` (a removal leaves no other request of its address behind, in the queues and
in the batch) and `Phases` (the batch empties in the order in which the kinds are applied, and
what it adds is marked in `applying`). The refinement reads the row an address will have through
both (`Wanted`), so each step is a lemma that says what it does to that reading. A command is the
list's command; the swap is the list's `Forget`, as it ends what came too late; a failed
installation or restoration is `Refuse`; and everything else the pass does, which is most of it,
leaves the reading as it was, since each kind that is applied takes out of the batch what it
brings about in the rows. That last argument needs `Requests` and `Phases`: without them a removal could
overtake the addition of its own address.

**`InvestigationServiceProofs`**, from `InvestigationAssumption` (generations are positive, the
bounds naturals, `None` is no record): `TypeCorrect`, `EndsAlwaysTrue` and `IdleIsMeant`, for any
numbers of requests, cancellations and exceptions. `IInv` says where a request can be and with
which tokens: `QueueIsLatest`, what is pending has the tokens of now; `FlightIsLatest`, a command
in flight whose token still is the service's own was not cancelled; `IndexIsBuilt`, a session has
its build ahead of it, or its index, or a reason to have none, so that a search that runs with the
session's token has the index of that session; `RequestsAreApart`, no request is in two
places, without which the counters could count one twice. `BusyWorker` and `WorkerHolds`
tie the worker's step to `busy_` and to the command it has. The second check under the
mutex is where `FlightIsLatest` turns into `PublishedIsTrue`.

**`LiveScanServiceProofs`**, from `ScanAssumption` (finitely many workers and modules, at least
one epoch; the bounds are naturals): `TypeCorrect`, `ResultsAlwaysHonest` and `IdleAlwaysHonest`,
for any pool, session changes and bound. The queue and the results are sequences, from whose
middle entries are taken, and the properties speak of what is in them; so the invariant is proved
in a form (`SetInv`) that sees them as sets, which is sound because no two entries share a token
(`RequestsApart`), and the lemmas on sequences say what each operation does to the set.
`RetiredIsKnown` is the heart of it: what was superseded or cancelled is not queued; a running job
older than the last cancellation of all (`cut`) has an older epoch; and a running job that
was cancelled by its token is in `canceled` still. So the check under the mutex rejects either.
`WantedIsHeld` follows a search a document waits for from the queue to its worker to the results;
`NothingBeforeDrained` and `UiIsHonest` carry a wait from its announcement to its return;
`SharedBounded` and the types tie three counters to the cardinalities of what they count. That
the first match in a sequence exists is proved from the least-number principle
(`NatLessThanWellFounded`), the only induction these proofs use.

**`MemoryWritesProofs`**, from `WritesAssumption` (executable addresses are addresses; the trap is
a byte, and not the only one; a call is a sequence of spans, not empty; a span gives bytes to
finitely many addresses; the limits are naturals): `TypeCorrect`, `TargetStaysWhole`,
`QueueAlwaysServed` and `WritesKept`, the refinement of `TargetWrites`, for any callers, calls,
memory and breakpoints, and also after damage was reported, where the run stops. `IInv` has three
groups. *The queue*: `CallsHold` (a caller has answers for the first of its requests, and each of
them was answered or cancelled), `QueueIsFresh` (what is queued was asked of the present target)
and `TakenHolds` (the request in hand is unanswered and not queued, unless its call is gone), with
`QueueAccounted` itself. Sums over the queue are cardinalities of sets of pairs of a request and an
address, so that what a removal subtracts is a difference of two such sets, for which no
induction is needed. *The loop*: `OwnerHolds` ties the session's state to the owner's step, and
`BreakIsComing` extends `NobodyStranded` to the moment before the target goes on. *The target*:
`TargetIsWhole` speaks of the moments between writes, so `WillBeWhole` says what a rollback of the
write in hand would leave, and `WriteHolds` that the breakpoints a write meets are those
it was prepared for. The refinement goes through each step: `Submit` is the promise's `Ask`,
`Return` its `Take`, `Commit` its `Write`, `BeginSession` its `Replace`; a deadline, a refusal, a
rollback, a detach and the cleanup are its `Refuse`; what fails and is reported is `Damage`; and
everything else, the native write included, leaves memory and fates as they were. A commit may
show the span written only because the request in hand, if nobody has cancelled it, belongs to a
call bound to the present target (`TakenHolds`), and because the bytes that were written around
the traps are still there (`WriteHolds`).

**`SymbolServiceProofs`**, from `SymbolAssumption` (costs are naturals, no answer is larger than
what may be retained, since records are trimmed to it first, and a cache holds at least one):
`TypeCorrect`, with the bounds of the caches, `PendingAlwaysUnderway` and `SessionsAlwaysSeparate`,
for any addresses, names, limits and numbers of sessions. `IInv` has two chains. *Sessions*: a
request carries the generation of its session (`RequestsAreSound`), a generation has one session
(`SessionsAreOne`), the backend is bound to the session of the request when it resolves
(`BackendHolds`), so an answer whose generation is still that of now was resolved in the session
of now (`CachesAreFresh`). *Lookups*: what is pending is under way, each once (`PendingHolds`),
and a basic lookup under way finds nothing cached and no other lookup of its address before it
(`BasicComesFirst`), which is why publishing it replaces nothing; that holds because a basic
lookup coalesces with a rich one but not the other way round. `WaitingHolds` says how far the
worker has come while the caller waits. What is under way is numbered along the queue; taking a
request moves all numbers by one, and two lemmas carry the invariant through any such move
(`MovedKeepsBasic`, `MovedKeepsPending`). Bytes are cardinalities again; what eviction leaves
(`EvictIs`) rests on the least-number principle, as in `LiveScanServiceProofs`.

**Model-checked only**: `StepEngine`, whose properties need the structure of the program that is
stepped through (that calls nest and return), an induction over its data; and every liveness
property, as liveness under fairness and ENABLED are outside what these provers handle. So is
what folds and recursive definitions compute for every input.

## 5. Disagreements found

Two are runs that check a sentence of the repository and end in a counterexample; the
quotations are in `PROJECT.json`.

- `lifecycle_swallowed_break` (`Debugger.cpp:7850`): Pause sets `breakRequested_` and injects its
  break afterwards. A break that a detach injected before comes in between and is taken for the
  Pause's; the Pause's own injection fails; the owner resumes the target to drain a break that is
  not under way, and waits for it without end, with detach waiting for the owner. `CallsReturn`
  excepts this wait by name (`LostBreak`).
- `step_over_recursion` (`Debugger.cpp:7477`): the temporary breakpoint of a Step Over ends the
  step for its thread at any stack depth; in a recursive function a deeper activation meets it
  first, and the step ends inside the call it was to run over.

The following were met as well. Where a property is named, it is defined in the module and TLC
refutes it under the configuration given; no run is kept for it. The others were seen while
reading the code for a model and lie behind one of its abstractions.

1. `WaiterSeesCancel` of `DebuggerLifecycle` (`MCDebuggerLifecycle.cfg`; `Debugger.cpp:351`):
   the cancel flag is set and notified without the mutex of the startup waiter, which may fall
   asleep just after; the cancellation waits for the next notification or the 30 s timeout.
2. `DetachCompletes` of `DebuggerLifecycle` (`MCDebuggerLifecycle.cfg`; `Debugger.cpp:751`): a
   Continue that is already queued when detach looks at the state makes the owner leave without a held event, and detach
   fails although no call failed.
3. `NoBreakLeftBehind` of `DebuggerLifecycle` (`MCDebuggerLifecycle.cfg`; `Debugger.cpp:1143`): a
   break injected after the owner has decided to leave reaches the target after its release.
4. `DestructorReturns` of `DebuggerLifecycle` (`MCDebuggerLifecycle.cfg`;
   `Debugger.cpp:8929`): cleanup retained without a held event never pumps the exit event of a
   terminated target; the destructor retries for ever. `CallsReturn` excepts this wait by name
   (`ExitNotPumped`).
5. `PreviousRemains` of `AtomicFile` with `MaxTroubles = 2` (`AtomicFile.cpp:119`): when
   `ReplaceFileW` fails after it has moved the old file, and the `MoveFileExW` that follows fails
   too, the previous contents are left under a staged name only, while the user is told that they
   remain available (`SignatureLibrary.cpp:191`).
6. `MarkedMeansInFlight` of `LiveScanService` (`App.cpp:5743`): Stop drops the queued image reads
   of "Analyze all modules"; their modules keep the mark "analyzing", against
   `ModuleRegistry.h:66`, and are skipped from then on.
7. `FreshCanBeTuned` of `BreakpointCommands` (`Debugger.cpp:5266`): the periods are swapped out
   under a second lock. An addition and its period that are queued in between are split, and the
   period finds no row, against the comment at 5264.
8. `StepOverReturns` of `StepEngine` (`Debugger.cpp:6272`): a breakpoint inside the callee of a
   Step Over gives the step up before it evaluates its condition; when that is false, the program
   runs on and the step never stops, against `docs/overview/06_debugger.md:111` and `:149`.
9. `HandleOutlivesBinding` of `SymbolService` (`SymbolService.cpp:251`): a session that is replaced
   while it is being bound is not recorded as active, and the end of its request closes the
   duplicated handle while the resolver is still bound to it; the next reset cleans up symbols with
   a closed handle, against `SymbolService.h:93-95`.
10. Crossing steps (`crossed` in `StepEngine`). A peer's trap, queued before the peer was suspended
   and handled while one thread steps off breakpoint A, overwrites the address to re-arm, so that
   A stays disarmed (`Debugger.cpp:6355`, `8551`). A peer's queued trap at a byte that has since
   been disarmed is passed on to the program, or taken for the break of a Pause (`7850`). A foreign thread's
   step behind a temporary breakpoint that has been replaced meanwhile forgets that the new one is
   planted (`7897-7929`, against the comment at `6102-6104`). The step off a breakpoint is
   applied to the thread the user has selected, not to the one that is parked there (`8391-8397`).
   A Pause during Run To leaves the temporary breakpoint behind (`7477`).
11. `PauseAnswered` of `StepEngine` with `Bp = {}` and `Targets = {}` (`Debugger.cpp:6742`): a step
   suspends every other thread, the helper of an injected break included. A step into an
   instruction that waits for a suspended thread never ends, and a Pause is not answered, against
   the comment at `Debugger.cpp:7893` ("this can't deadlock").
12. `ModulesAreAwaited` of `AnalysisService` (`App.cpp:2388`): the frame's drain finds nothing, the
   worker then publishes the last result and goes idle, and the look at `bulkPending()` gives the
   module up as "ended without a complete result", although it is neither cancelled, failed nor
   lost. The next frame ignores the result. The views allow one idle frame for this
   (`BinaryViewValueOrigin.cpp:73`), the modules none.
13. `CommandsAreServed` of `BreakpointCommands` without `unbroken` (`Debugger.cpp:1143`): when the
   break for a queued command cannot be injected, the flag is taken back and the caller returns;
   the command stays queued while the target runs, until its next event or the next command, and
   nobody is told.
14. A removal, unlike a switch-off, records no trap that a peer has queued at the address, and
   that trap is passed on to the program unhandled (`Debugger.cpp:5363-5366`, `5433`).
15. A masked read reads the target, releases `hProcMtx_` and masks the traps under `mtx_`; a
   breakpoint that is removed or planted in between shows its trap byte (`Debugger.cpp:1966-2030`).
16. The resume after a GameMaker stop marks the session running outside the block that looks at
   the write queue, so that a write queued in between waits for the next event
   (`Debugger.cpp:8317-8345`).
17. Two instances of the program rotate their staged backups of one file in the other order, so
   `BackupIsPreceding` is stated for one writing process; and they read, change and write the
   recents index without a lock between them (`Project.cpp:1333`).

## 6. What is not modelled

`PROJECT.json` lists every component with its status. Pure computation over encodings (decoders,
control flow, decompiler, unpackers, reports, naming) is most of the program's lines; it is
outside what TLC enumerates and has little state to relate. Drawing is left out; what the UI asks
of a component is an action of that component's module. Not modelled, though they have state that
could be: hardware breakpoints, observers and traces, GameMaker debugging, the JDWP client, the
document context, the analysis cache, the stores on top of `AtomicFile`, patch recovery, and the process memory tools. Within the
modelled components, the abstractions are those named in section 2, and the POSIX build of
`AtomicFile` (a plain rename) is left out.

## 7. The plan

Done: `DebuggerLifecycle`, `MemoryMutation`, `AtomicFile`, `InvestigationService`,
`LiveScanService`, `SymbolService`, `BreakpointCommands` and `MemoryWrites` (these two with their
refinements) and `AnalysisService`, all with proofs; `StepEngine`, checked.

Proofs next: `StepsLeaveNothing`, for programs that are assumed well nested.

Models that would add most, should the project grow: the debug-register slots with their per-thread
transactions (`DebuggerBreakpoints.cpp:190-285`), in `BreakpointCommands`' pass; the
document context, with one abstract specification, "a result is adopted only by the owner that
asked, and at most once", that it, `LiveScanService` and `AnalysisService` implement; the recents
index on an abstract atomic file; the JDWP client.
