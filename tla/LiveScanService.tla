-------------------------- MODULE LiveScanService --------------------------
(***************************************************************************)
(* The worker pool that scans the memory of the debugged process           *)
(* (Core/LiveScanService.cpp) and what the UI thread does with it: pattern *)
(* searches that belong to one document and are taken by their token,      *)
(* shared scans, and the reading of every module's image in one counted    *)
(* batch ("Analyze all modules").                                          *)
(*                                                                         *)
(* mtx_ makes each block under it one step.  The epoch, the cancellation   *)
(* checks and the batch counters are read outside it where the code does.  *)
(* A job's ranges, its progress and what a scan finds are left out: a scan *)
(* reads some ranges and then publishes, fails or is superseded.  The three *)
(* conditions of `superseded` are one step: nothing is done on their word   *)
(* alone, for publication checks again under the mutex.                    *)
(***************************************************************************)
EXTENDS Integers, Sequences, FiniteSets, SequencesExt

CONSTANTS
  Worker, Module,
  MaxRequests,      \* bound: requests
  MaxEpoch,         \* bound: cancellations that advance the epoch
  MaxShared         \* kMaxSharedResults

ASSUME ScanAssumption ==
  /\ IsFiniteSet(Worker) /\ IsFiniteSet(Module)
  /\ MaxRequests \in Nat /\ MaxEpoch \in Nat \ {0} /\ MaxShared \in Nat

VARIABLES
  queue, results,            \* queue_, results_
  sharedCount,               \* nonPatternResultCount_
  inFlight, inFlightPatterns, canceled,   \* inFlight_ and the two token sets
  epoch, pending, quit, nextToken,
  batchTotal, batchDone,
  pc, job,                   \* each worker's step and job
  uiPc, asking,              \* the UI thread's step; the modules it still has to request
  wanted,                    \* pattern requests neither taken nor cancelled by their document
  marked, loaded,            \* modules with the analyzing mark; modules with an image
  \* The variables below only observe.
  cut, refused, drained,     \* tokens superseded, cancelled, and awaited
  lost                       \* jobs whose failure could not be reported

service == <<queue, results, sharedCount, inFlight, inFlightPatterns, canceled, epoch, pending>>
batch   == <<batchTotal, batchDone>>
workers == <<pc, job>>
client  == <<uiPc, asking, wanted, marked, loaded>>
marks   == <<cut, refused, drained>>
vars == <<service, quit, nextToken, batch, workers, client, marks, lost>>

Tokens == 1 .. MaxRequests
Kinds  == {"pattern", "image", "shared"}
NoModule == "none"
Jobs   == [token : Tokens, kind : Kinds, epoch : 1 .. MaxEpoch, of : Module \cup {NoModule}]
NoJob  == [token |-> 0, kind |-> "shared", epoch |-> 0, of |-> NoModule]

IsPattern(r) == r.kind = "pattern"
IsShared(r)  == r.kind # "pattern"
Idle == queue = <<>> /\ inFlight = 0

----------------------------------------------------------------------------
Init ==
  /\ queue = <<>> /\ results = <<>> /\ sharedCount = 0
  /\ inFlight = 0 /\ inFlightPatterns = {} /\ canceled = {}
  /\ epoch = 1 /\ pending = FALSE /\ quit = FALSE /\ nextToken = 1
  /\ batchTotal = 0 /\ batchDone = 0
  /\ pc = [w \in Worker |-> "idle"] /\ job = [w \in Worker |-> NoJob]
  /\ uiPc = "ready" /\ asking = {} /\ wanted = {} /\ marked = {} /\ loaded = {}
  /\ cut = 1 /\ refused = {} /\ drained = 1
  /\ lost = {}

\* enqueue: token, queue and pending_ under the mutex, then notify_one.
Enqueue(kind, m) ==
  /\ nextToken <= MaxRequests
  /\ queue' = Append(queue, [token |-> nextToken, kind |-> kind, epoch |-> epoch, of |-> m])
  /\ nextToken' = nextToken + 1
  /\ pending' = TRUE
  /\ UNCHANGED <<results, sharedCount, inFlight, inFlightPatterns, canceled, epoch, quit,
                 workers, marks, lost>>

RequestPattern ==
  /\ uiPc = "ready"
  /\ Enqueue("pattern", NoModule)
  /\ wanted' = wanted \cup {queue'[Len(queue')]}
  /\ UNCHANGED <<batch, uiPc, asking, marked, loaded>>

RequestShared ==
  /\ uiPc = "ready"
  /\ Enqueue("shared", NoModule)
  /\ UNCHANGED <<batch, client>>

\* analyzeAllModules: marks the modules and announces the batch (two stores
\* outside the mutex), then requests one image after the other.
AnalyzeAll ==
  LET todo == Module \ (marked \cup loaded) IN
  /\ uiPc = "ready" /\ batchTotal = 0
  /\ todo # {} /\ nextToken + Cardinality(todo) <= MaxRequests + 1
  /\ asking' = todo /\ marked' = marked \cup todo
  /\ batchTotal' = Cardinality(todo)
  /\ uiPc' = "announce"
  /\ UNCHANGED <<service, quit, nextToken, batchDone, workers, wanted, loaded, marks, lost>>

Announce ==
  /\ uiPc = "announce"
  /\ batchDone' = 0 /\ uiPc' = "request"
  /\ UNCHANGED <<service, quit, nextToken, batchTotal, workers, asking, wanted, marked, loaded,
                 marks, lost>>

RequestImage ==
  /\ uiPc = "request"
  /\ \E m \in asking :
       /\ Enqueue("image", m)
       /\ asking' = asking \ {m}
       /\ uiPc' = IF asking = {m} THEN "ready" ELSE "request"
  /\ UNCHANGED <<batch, wanted, marked, loaded>>

----------------------------------------------------------------------------
\* tryTakePattern with a token the document keeps.
TakePattern ==
  /\ uiPc = "ready"
  /\ \E r \in wanted :
       /\ Contains(results, r)
       /\ results' = RemoveFirst(results, r)
       /\ wanted' = wanted \ {r}
  /\ UNCHANGED <<queue, sharedCount, inFlight, inFlightPatterns, canceled, epoch, pending, quit,
                 nextToken, batch, workers, uiPc, asking, marked, loaded, marks, lost>>

\* tryTakeNonPattern, and what the view does with an image: it loads it, or
\* gives the module up when the image is unreadable.  A superseded result is
\* dropped.
TakeShared ==
  LET found == SelectInSeq(results, IsShared)
      r     == results[found] IN
  /\ uiPc = "ready" /\ found # 0
  /\ results' = RemoveAt(results, found)
  /\ sharedCount' = sharedCount - 1
  /\ IF r.kind = "image" /\ r.epoch = epoch
     THEN /\ marked' = marked \ {r.of}
          /\ loaded' \in {loaded, loaded \cup {r.of}}
     ELSE UNCHANGED <<marked, loaded>>
  /\ UNCHANGED <<queue, inFlight, inFlightPatterns, canceled, epoch, pending, quit, nextToken,
                 batch, workers, uiPc, asking, wanted, marks, lost>>

\* Plausible bug: a search that does not run is remembered as cancelled too.
CancelsAlways(r) == canceled \cup {r.token}

CancelsInFlight(r) ==
  IF r.token \in inFlightPatterns THEN canceled \cup {r.token} ELSE canceled

\* cancelPattern: queued, finished and running work of one token (which at most
\* one entry of the queue and one result can have).
CancelPattern ==
  /\ uiPc = "ready"
  /\ \E r \in wanted :
       /\ queue' = RemoveFirst(queue, r) /\ results' = RemoveFirst(results, r)
       /\ canceled' = CancelsInFlight(r)
       /\ pending' = ~(queue' = <<>> /\ inFlight = 0)
       /\ wanted' = wanted \ {r}
       /\ refused' = refused \cup {r.token}
  /\ UNCHANGED <<sharedCount, inFlight, inFlightPatterns, epoch, quit, nextToken, batch, workers,
                 uiPc, asking, marked, loaded, cut, drained, lost>>

----------------------------------------------------------------------------
\* The common part of cancelPending and cancelAndWaitIdle, under the mutex.
Supersede ==
  /\ epoch < MaxEpoch
  /\ queue' = <<>> /\ results' = <<>> /\ sharedCount' = 0
  /\ epoch' = epoch + 1
  /\ batchTotal' = 0 /\ batchDone' = 0
  /\ cut' = nextToken
  /\ UNCHANGED <<inFlight, inFlightPatterns, canceled, quit, nextToken, workers, asking, wanted,
                 refused, lost>>

\* Plausible bug: the pool is called idle although workers still run.
PendingNever == FALSE

PendingAfterCancel == inFlight > 0

CancelPending ==
  /\ uiPc = "ready" /\ Supersede
  /\ pending' = PendingAfterCancel
  /\ UNCHANGED <<uiPc, drained>>

\* Stop in the status bar, shown while busy(); the modules keep their marks.
StopPressed == pending /\ CancelPending /\ UNCHANGED <<marked, loaded>>

\* synchronizeModuleSession: another debugger session; the registry is cleared.
SessionChanged == CancelPending /\ marked' = {} /\ loaded' = {}

CancelAndWait ==
  /\ uiPc = "ready" /\ Supersede
  /\ pending' = FALSE
  /\ uiPc' = "waiting"
  /\ UNCHANGED <<drained, marked, loaded>>

\* Plausible bug: the wait looks at the queue instead of the workers.
QueueEmpty == queue = <<>>

NothingInFlight == inFlight = 0

\* cvIdle_.wait ends.
WaitEnds ==
  /\ uiPc = "waiting" /\ NothingInFlight
  /\ uiPc' = "ready" /\ drained' = nextToken
  /\ UNCHANGED <<service, quit, nextToken, batch, workers, asking, wanted, marked, loaded, cut,
                 refused, lost>>

\* bumpEpoch, outside the mutex (public; only its tests call it today).
BumpEpoch ==
  /\ uiPc = "ready" /\ epoch < MaxEpoch
  /\ epoch' = epoch + 1
  /\ UNCHANGED <<queue, results, sharedCount, inFlight, inFlightPatterns, canceled, pending, quit,
                 nextToken, batch, workers, client, marks, lost>>

\* The destructor: cancel, wake all workers, join them.
Destroy ==
  /\ uiPc = "ready"
  /\ uiPc' = "joining" /\ quit' = TRUE
  /\ queue' = <<>> /\ results' = <<>> /\ sharedCount' = 0
  /\ epoch' = epoch + 1 /\ pending' = FALSE
  /\ cut' = nextToken
  /\ UNCHANGED <<inFlight, inFlightPatterns, canceled, nextToken, batch, workers, asking, wanted,
                 marked, loaded, refused, drained, lost>>

Joined ==
  /\ uiPc = "joining" /\ \A w \in Worker : pc[w] = "exited"
  /\ uiPc' = "gone"
  /\ UNCHANGED <<service, quit, nextToken, batch, workers, asking, wanted, marked, loaded, marks,
                 lost>>

----------------------------------------------------------------------------
Goto(w, step) == pc' = [pc EXCEPT ![w] = step]

\* What is left alone by a worker's step that takes or returns no job.
Elsewhere == UNCHANGED <<quit, nextToken, client, marks>>

\* threadMain: the wait on cv_, then a job is taken under the mutex.
Pick(w) ==
  /\ pc[w] = "idle" /\ ~quit /\ queue # <<>>
  /\ job' = [job EXCEPT ![w] = Head(queue)]
  /\ queue' = Tail(queue)
  /\ inFlight' = inFlight + 1
  /\ inFlightPatterns' =
       IF IsPattern(Head(queue)) THEN inFlightPatterns \cup {Head(queue).token}
       ELSE inFlightPatterns
  /\ pending' = TRUE
  /\ Goto(w, "scan")
  /\ UNCHANGED <<results, sharedCount, canceled, epoch, batch, lost>> /\ Elsewhere

Exit(w) ==
  /\ pc[w] = "idle" /\ quit
  /\ Goto(w, "exited")
  /\ UNCHANGED <<service, batch, job, lost>> /\ Elsewhere

Superseded(j) == quit \/ epoch # j.epoch \/ (IsPattern(j) /\ j.token \in canceled)

\* runJob before each range: is the job superseded, are ranges left?
Scan(w) ==
  /\ pc[w] = "scan"
  /\ IF Superseded(job[w]) THEN Goto(w, "finish")
     ELSE \E step \in {"read", "publish"} : Goto(w, step)
  /\ UNCHANGED <<service, batch, job, lost>> /\ Elsewhere

\* The reader is called; an exception ends the job.
Read(w) ==
  /\ pc[w] = "read"
  /\ \E step \in {"scan", "failed"} : Goto(w, step)
  /\ UNCHANGED <<service, batch, job, lost>> /\ Elsewhere

\* Plausible bug: the oldest result goes, whoever it belongs to.
PublishEvictingAny(r) ==
  LET appended == Append(results, r)
      over     == IsShared(r) /\ sharedCount + 1 > MaxShared IN
  /\ results' = IF over THEN Tail(appended) ELSE appended
  /\ sharedCount' = IF IsShared(r) /\ ~over THEN sharedCount + 1 ELSE sharedCount

\* publishResultLocked: ordinary results beyond the bound evict the oldest.
PublishLocked(r) ==
  LET appended == Append(results, r)
      over     == IsShared(r) /\ sharedCount + 1 > MaxShared
      oldest   == SelectInSeq(appended, IsShared) IN
  /\ results' = IF over THEN RemoveAt(appended, oldest) ELSE appended
  /\ sharedCount' = IF IsShared(r) /\ ~over THEN sharedCount + 1 ELSE sharedCount

\* publish: the epoch once more, without the mutex.
BeforePublish(w) ==
  /\ pc[w] = "publish"
  /\ Goto(w, IF epoch # job[w].epoch THEN "finish" ELSE "publishLocked")
  /\ UNCHANGED <<service, batch, job, lost>> /\ Elsewhere

\* Plausible bug: the check before the mutex is taken to be enough.
PublishUnchecked(w) ==
  /\ pc[w] = "publishLocked"
  /\ PublishLocked(job[w])
  /\ Goto(w, "finish")
  /\ UNCHANGED <<queue, inFlight, inFlightPatterns, canceled, epoch, pending, batch, job, lost>>
  /\ Elsewhere

\* publish: both checks again under the mutex, and the result.
PublishUnderMutex(w) ==
  /\ pc[w] = "publishLocked"
  /\ IF epoch # job[w].epoch \/ (IsPattern(job[w]) /\ job[w].token \in canceled)
     THEN UNCHANGED <<results, sharedCount>>
     ELSE PublishLocked(job[w])
  /\ Goto(w, "finish")
  /\ UNCHANGED <<queue, inFlight, inFlightPatterns, canceled, epoch, pending, batch, job, lost>>
  /\ Elsewhere

\* The handlers of threadMain: the failure is reported under the same checks;
\* a report that throws itself is dropped.
ReportFailure(w) ==
  /\ pc[w] = "failed"
  /\ \/ /\ IF epoch # job[w].epoch \/ (IsPattern(job[w]) /\ job[w].token \in canceled)
           THEN UNCHANGED <<results, sharedCount>>
           ELSE PublishLocked(job[w])
        /\ UNCHANGED lost
     \/ lost' = lost \cup {job[w].token} /\ UNCHANGED <<results, sharedCount>>
  /\ Goto(w, "finish")
  /\ UNCHANGED <<queue, inFlight, inFlightPatterns, canceled, epoch, pending, batch, job>>
  /\ Elsewhere

\* Plausible bug: the batch ends only when its count is passed.
BatchPast(done) == done > batchTotal

BatchOver(done) == done >= batchTotal

\* The last block of threadMain.
Finish(w) ==
  LET j == job[w] done == batchDone + 1 IN
  /\ pc[w] = "finish"
  /\ inFlight' = inFlight - 1
  /\ inFlightPatterns' = IF IsPattern(j) THEN inFlightPatterns \ {j.token} ELSE inFlightPatterns
  /\ canceled' = IF IsPattern(j) THEN canceled \ {j.token} ELSE canceled
  /\ IF j.kind = "image" /\ batchTotal > 0
     THEN /\ batchTotal' = IF BatchOver(done) THEN 0 ELSE batchTotal
          /\ batchDone'  = IF BatchOver(done) THEN 0 ELSE done
     ELSE UNCHANGED batch
  /\ pending' = ~(queue = <<>> /\ inFlight' = 0)
  /\ Goto(w, "idle") /\ job' = [job EXCEPT ![w] = NoJob]
  /\ UNCHANGED <<queue, results, sharedCount, epoch, lost>> /\ Elsewhere

WorkerStep(w) ==
  \/ Pick(w) \/ Exit(w) \/ Scan(w) \/ Read(w) \/ BeforePublish(w)
  \/ PublishUnderMutex(w) \/ ReportFailure(w) \/ Finish(w)

UiCompletes == Announce \/ RequestImage \/ WaitEnds \/ Joined

Next ==
  \/ RequestPattern \/ RequestShared \/ AnalyzeAll
  \/ TakePattern \/ TakeShared \/ CancelPattern
  \/ StopPressed \/ SessionChanged \/ CancelAndWait \/ BumpEpoch \/ Destroy
  \/ UiCompletes
  \/ \E w \in Worker : WorkerStep(w)

Spec == Init /\ [][Next]_vars

\* Threads are scheduled, a call of the reader returns, and a job has finitely
\* many ranges: a scan that is offered to end again and again does end.
FairSpec ==
  /\ Spec /\ WF_vars(UiCompletes)
  /\ \A w \in Worker : WF_vars(WorkerStep(w)) /\ SF_vars(Scan(w) /\ pc'[w] # "read")

----------------------------------------------------------------------------
\* The types of the variables; the set of running searches and the count of
\* running jobs are those of the workers.
TypeOK ==
  /\ queue \in Seq(Jobs) /\ results \in Seq(Jobs)
  /\ sharedCount \in 0 .. MaxShared
  /\ inFlight = Cardinality({w \in Worker : pc[w] \notin {"idle", "exited"}})
  /\ inFlightPatterns = {job[w].token : w \in {v \in Worker : IsPattern(job[v])}}
  /\ canceled \subseteq inFlightPatterns
  /\ epoch \in 1 .. MaxEpoch + 1 /\ pending \in BOOLEAN /\ quit \in BOOLEAN
  /\ nextToken \in 1 .. MaxRequests + 1
  /\ batchTotal \in Nat /\ batchDone \in Nat
  /\ pc \in [Worker -> {"idle", "scan", "read", "publish", "publishLocked", "failed", "finish",
                        "exited"}]
  /\ job \in [Worker -> Jobs \cup {NoJob}]
  /\ uiPc \in {"ready", "announce", "request", "waiting", "joining", "gone"}
  /\ asking \subseteq Module /\ wanted \subseteq Jobs
  /\ marked \subseteq Module /\ loaded \subseteq Module
  /\ cut \in 1 .. MaxRequests + 1 /\ drained \in 1 .. MaxRequests + 1
  /\ refused \subseteq Tokens /\ lost \subseteq Tokens

\* After cancelPattern no result of its token is delivered, and after
\* cancelPending or cancelAndWaitIdle none of an earlier request, wherever the
\* worker was (the checks of publish under the mutex).
RetiredNeverDelivered ==
  \A i \in DOMAIN results :
    results[i].token >= cut /\ results[i].token \notin refused

\* A document's search of the present epoch is queued, running or waiting to
\* be taken: no amount of other work evicts it, and none is forgotten
\* (publishResultLocked, "must not vanish").
PatternKept ==
  \A r \in wanted :
    r.epoch = epoch /\ r.token \notin lost =>
      Contains(queue, r) \/ Contains(results, r) \/ \E w \in Worker : job[w] = r

\* The bound on ordinary results counts what is there.
SharedBounded ==
  sharedCount = Cardinality({i \in DOMAIN results : IsShared(results[i])})

\* When cancelAndWaitIdle has returned, no worker is in the code of an earlier
\* request, which could read a process that is no longer debugged.
NoReaderAfterWait ==
  \A w \in Worker : job[w] # NoJob => job[w].token >= drained

\* busy() is what the UI waits on to retire its spinners: it is true exactly
\* while something is queued or running.
BusyIsHonest == uiPc \in {"ready", "request"} => (pending <=> ~Idle)

\* The mark of a module stands for an image read in flight ("image read or
\* background analysis is in flight/queued", ModuleRegistry.h:66; not kept by the
\* code: README, section 5).
MarkedMeansInFlight ==
  \A m \in marked :
    \/ m \in asking
    \/ \E i \in DOMAIN queue : queue[i].of = m
    \/ \E i \in DOMAIN results : results[i].of = m
    \/ \E w \in Worker : job[w].of = m

\* A batch comes to its end: "Analyze all modules" is disabled while one runs.
BatchEnds == batchTotal > 0 ~> (batchTotal = 0 \/ quit)

(* No result is delivered of what was cancelled, no wanted scan of a document *)
(* is lost, and the results the bound is about are the ones it counts.        *)
ResultsHonest == RetiredNeverDelivered /\ PatternKept /\ SharedBounded

(* What the service says of being idle is so: to the caller that waited for  *)
(* it and to the one that looks at busy().                                   *)
IdleIsHonest == NoReaderAfterWait /\ BusyIsHonest

=============================================================================
