--------------------------- MODULE AnalysisService --------------------------
(***************************************************************************)
(* The analysis pools (Core/AnalysisService.cpp) and those who wait for    *)
(* them.  Each document has a service of its own, and one more analyses    *)
(* the modules of the debugged process.  A service has a queue, workers    *)
(* and an epoch; all services share one scheduler, which admits at most    *)
(* Limit workers: first those of a service with an interactive request,    *)
(* then those of the active document, then the others.  A bulk job gives   *)
(* way at a checkpoint to better work that could run, and is resumed.      *)
(*                                                                         *)
(* The interface thread asks, cancels, and drains the results once a       *)
(* frame; what was marked as being analysed and is not answered when the   *)
(* service has nothing left to do is given up.                             *)
(*                                                                         *)
(* What a pass computes is left out, with its cache and its inputs; an     *)
(* interactive request is one that asks where a value comes from.          *)
(***************************************************************************)
EXTENDS Naturals, Sequences, FiniteSets, SequencesExt, Functions

CONSTANTS
  Owner, Capacity,     \* services, and how many workers each has
  Document,            \* those that belong to a document
  Limit,               \* globalWorkerLimit()
  Target, OwnerOf,     \* what can be analysed, and by which service
  Interactive,         \* the targets of interactive requests
  Passes,              \* of a target: its passes, in their order
  Patience,            \* of a target: the idle frames after which it is given
                       \* up; 0 when nobody waits for it
  MaxOutstanding,      \* kMaxOutstandingJobs
  MaxResults,          \* the 512 of publishResult
  MaxCalls             \* bound: what the interface asks of the services

\* A view gives up in the second idle frame at the earliest (++idleFrames > 1).
ASSUME PoolAssumption ==
  /\ IsFiniteSet(Owner) /\ Owner # {}
  /\ Capacity \in [Owner -> Nat \ {0}] /\ Limit \in Nat \ {0}
  /\ Document \subseteq Owner /\ OwnerOf \in [Target -> Owner] /\ Interactive \subseteq Target
  /\ \A t \in Target : Passes[t] \in Seq(Range(Passes[t]))
  /\ Patience \in [Target -> Nat] /\ \A t \in Interactive : Patience[t] >= 2
  /\ {MaxOutstanding, MaxResults, MaxCalls} \subseteq Nat

VARIABLES
  queue, results, epoch, quit, active,     \* of each service
  owners, admitted, running, best,         \* of the scheduler
  asleep,                                  \* the workers that wait for `changed`
  pc, job, yielded,                        \* of each worker
  want,                                    \* what the interface waits for
  ui,                                      \* the interface thread
  calls                                    \* counted, for the bound

service == <<queue, results, epoch, quit>>
shares  == <<admitted, running>>
workers == <<pc, job, yielded>>
vars == <<service, active, owners, shares, best, asleep, workers, want, ui,
          calls>>

Worker == UNION {{o} \X (1 .. Capacity[o]) : o \in Owner}
Of(w) == w[1]
All(t) == Range(Passes[t])
Terminal(t) == Last(Passes[t])
NoJob == [of |-> "none"]
Earliest(S) == CHOOSE n \in S : \A m \in S : n <= m
Latest(S) == CHOOSE n \in S : \A m \in S : m <= n
Ui(at, o) == ui' = [at |-> at, of |-> o]
AtRest == [at |-> "free", of |-> CHOOSE o \in Owner : TRUE]

Busy == {"run", "emit", "end"}
InFlight(o) == Cardinality({w \in Worker : Of(w) = o /\ pc[w] \in Busy})
Pending(o) == queue[o] # <<>> \/ InFlight(o) # 0
PendingFor(t) ==
  \/ \E n \in DOMAIN queue[OwnerOf[t]] : queue[OwnerOf[t]][n].of = t
  \/ \E w \in Worker : pc[w] \in Busy /\ job[w].of = t

----------------------------------------------------------------------------
\* The scheduler.

QueuedInteractive(o) == \E n \in DOMAIN queue[o] : queue[o][n].of \in Interactive

Priority(o) ==
  CASE quit[o] \/ queue[o] = <<>> -> 3
    [] ~quit[o] /\ QueuedInteractive(o) -> 0
    [] OTHER -> IF active[o] THEN 1 ELSE 2

\* Only services that have a worker to spare count.
Waiting == {Priority(o) : o \in {p \in owners : admitted[p] < Capacity[p]}}
BestRunnable == Earliest(Waiting \cup {3})

Refresh == best' = BestRunnable'
Notify == Refresh /\ asleep' = {}

Acquires(o) ==
  /\ running < Limit /\ admitted[o] < Capacity[o] /\ Priority(o) <= best

Acquire(w) ==
  /\ pc[w] = "acquire" /\ w \notin asleep
  /\ UNCHANGED <<service, active, owners, job, yielded, want, ui, calls>>
  /\ \/ /\ Priority(Of(w)) = 3
        /\ pc' = [pc EXCEPT ![w] = "idle"]
        /\ UNCHANGED <<shares, best, asleep>>
     \/ /\ Priority(Of(w)) # 3 /\ Acquires(Of(w))
        /\ pc' = [pc EXCEPT ![w] = "claim"]
        /\ admitted' = [admitted EXCEPT ![Of(w)] = @ + 1] /\ running' = running + 1
        /\ Refresh
        /\ UNCHANGED asleep
     \/ /\ Priority(Of(w)) # 3 /\ ~Acquires(Of(w))
        /\ asleep' = asleep \cup {w}
        /\ UNCHANGED <<pc, shares, best>>

\* Plausible bug: nobody is told.
QuietGiveBack(w) ==
  /\ admitted' = [admitted EXCEPT ![Of(w)] = @ - 1] /\ running' = running - 1
  /\ Refresh /\ UNCHANGED asleep

GiveBack(w) ==
  /\ admitted' = [admitted EXCEPT ![Of(w)] = @ - 1] /\ running' = running - 1
  /\ Notify

----------------------------------------------------------------------------
\* A worker.

Others == UNCHANGED <<active, owners, want, ui, calls>>

Wake(w) ==
  /\ pc[w] = "idle" /\ (quit[Of(w)] \/ queue[Of(w)] # <<>>)
  /\ pc' = [pc EXCEPT ![w] = IF quit[Of(w)] THEN "gone" ELSE "acquire"]
  /\ UNCHANGED <<service, shares, best, asleep, job, yielded>> /\ Others

\* The first interactive job, or else the first.
FirstOf(q) ==
  LET some == {n \in DOMAIN q : q[n].of \in Interactive}
  IN  IF some = {} THEN 1 ELSE Earliest(some)

Claim(w) ==
  LET o == Of(w) IN
  /\ pc[w] = "claim"
  /\ UNCHANGED <<results, epoch, quit>> /\ Others
  /\ IF quit[o] \/ queue[o] = <<>>
     THEN /\ pc' = [pc EXCEPT ![w] = IF quit[o] THEN "gone" ELSE "idle"]
          /\ UNCHANGED <<queue, job, yielded>>
          /\ GiveBack(w)
     ELSE /\ pc' = [pc EXCEPT ![w] = "run"]
          /\ job' = [job EXCEPT ![w] = queue[o][FirstOf(queue[o])]]
          /\ queue' = [queue EXCEPT ![o] = RemoveAt(@, FirstOf(@))]
          /\ yielded' = [yielded EXCEPT ![w] = FALSE]
          /\ UNCHANGED shares
          /\ Notify

\* Plausible bug: checkpoints look for the end of the service alone.
OldOnlyOnQuit(w) == quit[Of(w)]

Old(w) == quit[Of(w)] \/ epoch[Of(w)] # job[w].epoch

\* Plausible bug: a bulk job gives way to requests of its own service alone.
OutrankedAtHome(w) == job[w].of \notin Interactive /\ QueuedInteractive(Of(w))

\* Work that could run now is better than this job.
Outranked(w) ==
  LET rank == IF job[w].of \in Interactive THEN 0 ELSE IF active[Of(w)] THEN 1 ELSE 2
  IN  \/ job[w].of \notin Interactive /\ QueuedInteractive(Of(w))
      \/ best < rank

\* The flag that the interface sets when it asks again or retires the request.
Cancelled(w) ==
  /\ job[w].of \in Interactive
  /\ ~(want[job[w].of].on /\ want[job[w].of].id = job[w].id)

\* A checkpoint: the job is old, cancelled, or gives way.
Stop(w) ==
  /\ pc[w] = "run" /\ (Old(w) \/ Outranked(w) \/ Cancelled(w))
  /\ pc' = [pc EXCEPT ![w] = "end"]
  /\ yielded' = [yielded EXCEPT ![w] = ~Old(w) /\ Outranked(w)]
  /\ UNCHANGED <<service, shares, best, asleep, job>> /\ Others

Remaining(w) ==
  {n \in DOMAIN Passes[job[w].of] : Passes[job[w].of][n] \notin job[w].published}
NextPass(w) == Passes[job[w].of][Earliest(Remaining(w))]

Pass(w) ==
  /\ pc[w] = "run" /\ Remaining(w) # {}
  /\ ~Old(w) /\ ~Outranked(w) /\ ~Cancelled(w)
  /\ pc' = [pc EXCEPT ![w] = "emit"]
  /\ UNCHANGED <<service, shares, best, asleep, job, yielded>> /\ Others

Result(j, what) == [of |-> j.of, epoch |-> j.epoch, id |-> j.id, what |-> what]

\* Plausible bug: the list is not bounded.
UnboundedResults(rs) == rs

\* The oldest result makes room.
Bounded(rs) == IF Len(rs) > MaxResults THEN Tail(rs) ELSE rs
Publish(o, r) == results' = [results EXCEPT ![o] = Bounded(Append(@, r))]

\* The mutex is taken only now: an epoch may have ended since the checkpoint.
Emit(w) ==
  /\ pc[w] = "emit"
  /\ Publish(Of(w), Result(job[w], NextPass(w)))
  /\ job' = [job EXCEPT ![w].published = @ \cup {NextPass(w)}]
  /\ pc' = [pc EXCEPT ![w] = "run"]
  /\ UNCHANGED <<queue, epoch, quit, shares, best, asleep, yielded>> /\ Others

\* An exception, or a decoder that cannot be had.
Fail(w) ==
  /\ pc[w] = "run" /\ Remaining(w) # {}
  /\ Publish(Of(w), Result(job[w], "failure"))
  /\ pc' = [pc EXCEPT ![w] = "end"]
  /\ yielded' = [yielded EXCEPT ![w] = FALSE]
  /\ UNCHANGED <<queue, epoch, quit, shares, best, asleep, job>> /\ Others

Finish(w) ==
  /\ pc[w] = "run" /\ Remaining(w) = {}
  /\ pc' = [pc EXCEPT ![w] = "end"]
  /\ UNCHANGED <<service, shares, best, asleep, job, yielded>> /\ Others

\* Plausible bug: a job that gave way is resumed though its epoch has ended.
ResumesAnyway(w) == yielded[w] /\ ~quit[Of(w)]

Resumes(w) == yielded[w] /\ ~quit[Of(w)] /\ job[w].epoch = epoch[Of(w)]

End(w) ==
  /\ pc[w] = "end"
  /\ queue' = IF Resumes(w) THEN [queue EXCEPT ![Of(w)] = <<job[w]>> \o @] ELSE queue
  /\ job' = [job EXCEPT ![w] = NoJob] /\ yielded' = [yielded EXCEPT ![w] = FALSE]
  /\ pc' = [pc EXCEPT ![w] = "release"]
  /\ UNCHANGED <<results, epoch, quit, shares>> /\ Others
  /\ Notify

Release(w) ==
  /\ pc[w] = "release"
  /\ pc' = [pc EXCEPT ![w] = "idle"]
  /\ UNCHANGED <<service, job, yielded>> /\ Others
  /\ GiveBack(w)

----------------------------------------------------------------------------
\* The interface thread.

Free(o) == ui.at = "free" /\ o \in owners
ByUi == UNCHANGED <<owners, shares, workers>>
Counted == calls < MaxCalls /\ calls' = calls + 1
NewJob(t, id) == [of |-> t, epoch |-> epoch[OwnerOf[t]], id |-> id, published |-> {}]

\* A queued job that the new one takes the place of, or with no room left, one
\* that it displaces: the newest bulk job of which nothing is published.
Twins(q, j) == {n \in DOMAIN q : q[n].of = j.of /\ q[n].epoch = j.epoch}
Displaced(q, j) ==
  IF j.of \notin Interactive THEN {}
  ELSE {n \in DOMAIN q : q[n].of \notin Interactive /\ q[n].published = {}}

\* Plausible bug: the limit counts the queue alone.
FullQueue(o, q) == Len(q) >= MaxOutstanding

Full(o, q) == Len(q) + InFlight(o) >= MaxOutstanding

\* The queue with j in it, and the job that was refused, if one was.
Enqueue(o, j) ==
  LET q == queue[o] IN
  CASE Twins(q, j) # {} ->
         [q |-> [q EXCEPT ![Earliest(Twins(q, j))] = j], refused |-> NoJob]
    [] Twins(q, j) = {} /\ ~Full(o, q) ->
         [q |-> Append(q, j), refused |-> NoJob]
    [] Twins(q, j) = {} /\ Full(o, q) /\ Displaced(q, j) = {} ->
         [q |-> q, refused |-> j]
    [] OTHER ->
         LET n == Latest(Displaced(q, j))
         IN  [q |-> Append(RemoveAt(q, n), j), refused |-> q[n]]

\* A module that is being analysed is not asked for again; a newer question
\* about a value cancels the older one.
Request(t) ==
  LET o == OwnerOf[t]
      id == IF t \in Interactive THEN want[t].id + 1 ELSE 0
      e == Enqueue(o, NewJob(t, id))
  IN
  /\ Free(o) /\ Counted
  /\ t \notin Interactive => ~(want[t].on /\ want[t].epoch = epoch[o])
  /\ queue' = [queue EXCEPT ![o] = e.q]
  /\ IF e.refused = NoJob THEN UNCHANGED results
     ELSE Publish(o, Result(e.refused, "failure"))
  /\ want' = IF Patience[t] = 0 THEN want
             ELSE [want EXCEPT ![t] = [on |-> TRUE, id |-> id, epoch |-> epoch[o],
                                       idle |-> 0]]
  /\ UNCHANGED <<epoch, quit, active, ui>> /\ ByUi
  /\ Notify

\* cancelPending: what was marked in this epoch is not awaited any more; an
\* interactive request is retired in the next frame.
Unmarked(o) ==
  [t \in Target |-> IF OwnerOf[t] = o /\ t \notin Interactive
                    THEN [want[t] EXCEPT !.on = FALSE, !.idle = 0] ELSE want[t]]

Clear(o) ==
  /\ Counted
  /\ queue' = [queue EXCEPT ![o] = <<>>] /\ results' = [results EXCEPT ![o] = <<>>]
  /\ epoch' = [epoch EXCEPT ![o] = @ + 1]
  /\ want' = Unmarked(o)
  /\ UNCHANGED <<quit, active>> /\ ByUi
  /\ Notify

CancelPending(o) == Free(o) /\ Clear(o) /\ UNCHANGED ui
CancelAndWait(o) == Free(o) /\ Clear(o) /\ Ui("waiting", o)

\* Plausible bug: the wait is for an empty queue and forgets the jobs being run.
QueueIsEmpty(o) == queue[o] = <<>>

NothingReads(o) == InFlight(o) = 0

\* The wait is over: the image may now be changed or freed.
Idle ==
  /\ ui.at = "waiting" /\ NothingReads(ui.of)
  /\ Ui("changing", ui.of)
  /\ UNCHANGED <<service, active, best, asleep, want, calls>> /\ ByUi

Changed ==
  /\ ui.at = "changing" /\ ui' = AtRest
  /\ UNCHANGED <<service, active, best, asleep, want, calls>> /\ ByUi

\* A document's new epoch for new inputs; what is queued is dropped when taken.
BumpEpoch(o) ==
  /\ Free(o) /\ o \in Document /\ Counted
  /\ epoch' = [epoch EXCEPT ![o] = @ + 1]
  /\ UNCHANGED <<queue, results, quit, active, best, asleep, want, ui>>
  /\ ByUi

SetActiveDocument(o) ==
  /\ Free(o) /\ o \in Document /\ Counted
  /\ active' = [active EXCEPT ![o] = ~@]
  /\ Ui("notify", o)
  /\ UNCHANGED <<service, best, asleep, want>> /\ ByUi

\* ~AnalysisService, when a document is closed.
Destroy(o) ==
  /\ Free(o) /\ o \in Document
  /\ quit' = [quit EXCEPT ![o] = TRUE]
  /\ Ui("quit", o)
  /\ UNCHANGED <<queue, results, epoch, active, best, asleep, want, calls>>
  /\ ByUi

\* Plausible bug: the destructor wakes its workers and not the scheduler's sleepers.
NotifyNobody ==
  /\ ui.at \in {"notify", "quit"}
  /\ ui' = IF ui.at = "quit" THEN [ui EXCEPT !.at = "joining"] ELSE AtRest
  /\ UNCHANGED <<service, active, best, asleep, want, calls>> /\ ByUi

NotifyUi ==
  /\ ui.at \in {"notify", "quit"}
  /\ ui' = IF ui.at = "quit" THEN [ui EXCEPT !.at = "joining"] ELSE AtRest
  /\ UNCHANGED <<service, active, want, calls>> /\ ByUi
  /\ Notify

Join ==
  /\ ui.at = "joining" /\ \A w \in Worker : Of(w) = ui.of => pc[w] = "gone"
  /\ owners' = owners \ {ui.of}
  /\ want' = [t \in Target |-> IF OwnerOf[t] = ui.of THEN [want[t] EXCEPT !.on = FALSE]
                               ELSE want[t]]
  /\ queue' = [queue EXCEPT ![ui.of] = <<>>] /\ results' = [results EXCEPT ![ui.of] = <<>>]
  /\ ui' = AtRest
  /\ UNCHANGED <<epoch, quit, active, shares, workers, calls>>
  /\ Notify

\* Does the result end the wait for t?
Answers(r, t) ==
  /\ r.of = t /\ want[t].on /\ r.epoch = epoch[OwnerOf[t]]
  /\ r.epoch = want[t].epoch /\ r.id = want[t].id
  /\ r.what \in {"failure", Terminal(t)}

Drain(o) ==
  /\ Free(o)
  /\ results[o] # <<>> \/ \E t \in Target : OwnerOf[t] = o /\ want[t].on
  /\ want' = [t \in Target |->
       IF \E n \in DOMAIN results[o] : Answers(results[o][n], t)
       THEN [want[t] EXCEPT !.on = FALSE, !.idle = 0] ELSE want[t]]
  /\ results' = [results EXCEPT ![o] = <<>>]
  /\ Ui("drained", o)
  /\ UNCHANGED <<queue, epoch, quit, active, best, asleep, calls>> /\ ByUi

\* What is still wanted of a service that has nothing of it to do.
Unanswered(t) ==
  /\ want[t].on
  /\ IF t \in Interactive THEN ~PendingFor(t)
     ELSE want[t].epoch = epoch[OwnerOf[t]] /\ ~Pending(OwnerOf[t])

Idles(t) == IF Unanswered(t) THEN want[t].idle + 1 ELSE 0
\* Plausible bug: views are as impatient as modules.
GivenUpAtOnce(t) ==
  \/ Idles(t) >= 1
  \/ t \in Interactive /\ want[t].epoch # epoch[OwnerOf[t]]

GivenUp(t) ==
  \/ Idles(t) >= Patience[t]
  \/ t \in Interactive /\ want[t].epoch # epoch[OwnerOf[t]]

Check ==
  /\ ui.at = "drained"
  /\ want' = [t \in Target |->
       IF OwnerOf[t] # ui.of \/ ~want[t].on THEN want[t]
       ELSE IF GivenUp(t) THEN [want[t] EXCEPT !.on = FALSE, !.idle = 0]
       ELSE [want[t] EXCEPT !.idle = Idles(t)]]
  /\ ui' = AtRest
  /\ UNCHANGED <<service, active, best, asleep, calls>> /\ ByUi

----------------------------------------------------------------------------
Init ==
  /\ queue = [o \in Owner |-> <<>>] /\ results = [o \in Owner |-> <<>>]
  /\ epoch = [o \in Owner |-> 1] /\ quit = [o \in Owner |-> FALSE]
  /\ active = [o \in Owner |-> o \in Document]
  /\ owners = Owner /\ admitted = [o \in Owner |-> 0] /\ running = 0 /\ best = 3
  /\ asleep = {}
  /\ pc = [w \in Worker |-> "idle"] /\ job = [w \in Worker |-> NoJob]
  /\ yielded = [w \in Worker |-> FALSE]
  /\ want = [t \in Target |-> [on |-> FALSE, id |-> 0, epoch |-> 0, idle |-> 0]]
  /\ ui = AtRest
  /\ calls = 0

Checkpoint(w) == Stop(w) \/ Finish(w) \/ Emit(w)
Moves(w) ==
  Acquire(w) \/ Wake(w) \/ Claim(w) \/ Checkpoint(w) \/ End(w) \/ Release(w)

Commands(o) ==
  \/ CancelPending(o) \/ CancelAndWait(o) \/ BumpEpoch(o) \/ SetActiveDocument(o)
  \/ Destroy(o)
Returns == Idle \/ Changed \/ NotifyUi \/ Join \/ Check

Next ==
  \/ \E w \in Worker : Moves(w) \/ Pass(w) \/ Fail(w)
  \/ \E t \in Target : Request(t)
  \/ \E o \in Owner : Commands(o) \/ Drain(o)
  \/ Returns

\* Threads run and frames follow one another.  A pass need not end.
Fairness ==
  /\ \A w \in Worker : WF_vars(Moves(w))
  /\ WF_vars(Returns)
  /\ \A o \in Owner : SF_vars(Drain(o))

Spec == Init /\ [][Next]_vars /\ Fairness

----------------------------------------------------------------------------
Kinds == UNION {All(t) : t \in Target}
Job == [of : Target, epoch : 1 .. MaxCalls + 1, id : 0 .. MaxCalls, published : SUBSET Kinds]
JobOf(o) == {j \in Job : OwnerOf[j.of] = o /\ j.published \subseteq All(j.of)}
Outcome == [of : Target, epoch : 1 .. MaxCalls + 1, id : 0 .. MaxCalls,
            what : Kinds \cup {"failure"}]
OutcomeOf(o) == {r \in Outcome : OwnerOf[r.of] = o /\ r.what \in All(r.of) \cup {"failure"}}

TypeOK ==
  /\ queue \in [Owner -> Seq(Job)] /\ \A o \in Owner : queue[o] \in Seq(JobOf(o))
  /\ results \in [Owner -> Seq(Outcome)] /\ \A o \in Owner : results[o] \in Seq(OutcomeOf(o))
  /\ \A o \in Owner : Len(results[o]) <= MaxResults
  /\ epoch \in [Owner -> 1 .. MaxCalls + 1] /\ quit \in [Owner -> BOOLEAN]
  /\ active \in [Owner -> BOOLEAN] /\ owners \subseteq Owner
  /\ admitted \in [Owner -> Nat] /\ running \in Nat /\ best \in 0 .. 3
  /\ asleep \subseteq {w \in Worker : pc[w] = "acquire"}
  /\ pc \in [Worker -> {"idle", "acquire", "claim", "release", "gone"} \cup Busy]
  /\ job \in [Worker -> Job \cup {NoJob}]
  /\ \A w \in Worker : IF pc[w] \in Busy THEN job[w] \in JobOf(Of(w)) ELSE job[w] = NoJob
  /\ yielded \in [Worker -> BOOLEAN]
  /\ want \in [Target -> [on : BOOLEAN, id : 0 .. MaxCalls, epoch : 0 .. MaxCalls + 1,
                          idle : Nat]]
  /\ ui \in [at : {"free", "waiting", "changing", "notify", "quit", "joining", "drained"},
             of : Owner]
  /\ calls \in 0 .. MaxCalls

\* The scheduler's counts are those of the workers, its bounds hold, and what it
\* has cached of the services' priorities is true but for a notification that is
\* under way.  Nobody sleeps who could be admitted, unless a worker that is about
\* to claim a job will notify.
Notifying == ui.at \in {"notify", "quit"}
Claiming == \E w \in Worker : pc[w] = "claim"
Admitted == {w \in Worker : pc[w] \in Busy \cup {"claim", "release"}}
ScheduleHolds ==
  /\ running <= Limit
  /\ \A o \in Owner : admitted[o] = Cardinality({w \in Admitted : Of(w) = o})
  /\ running = Cardinality(Admitted)
  /\ Notifying \/ best = BestRunnable
  /\ \A w \in asleep : Acquires(Of(w)) \/ Priority(Of(w)) = 3 => Notifying \/ Claiming

\* While the interface changes or frees an image, no worker reads it, and no job
\* for it is queued; the limit on jobs holds whatever is coalesced, displaced and
\* resumed.
ImageIsFree ==
  /\ ui.at = "changing" => InFlight(ui.of) = 0 /\ queue[ui.of] = <<>>
  /\ \A o \in Owner : Len(queue[o]) + InFlight(o) <= MaxOutstanding
  /\ \A w \in Worker : Of(w) \notin owners => pc[w] = "gone"

PoolIsSound == ScheduleHolds /\ ImageIsFree

\* "A worker can finish between this frame's result drain and inspector render.
\* Allow the next drain to adopt its queued result before offering retry": who is
\* given up has no answer under way.
Answered(t) == \E n \in DOMAIN results[OwnerOf[t]] : Answers(results[OwnerOf[t]][n], t)
GivenUpInVain(t) ==
  /\ ui.at = "drained" /\ want[t].on /\ ~want'[t].on
  /\ Answered(t)
ViewIsPatient == [][\A t \in Interactive : ~GivenUpInVain(t)]_vars

\* "The result queue was drained above": a module is given up only when it has been
\* cancelled, has failed, or its result was lost (not kept by the code: README,
\* section 5).
ModulesAreAwaited == [][\A t \in Target \ Interactive : ~GivenUpInVain(t)]_vars

\* Passes need not end for a cancellation to return, for a document to close, or
\* for an interactive request to be taken: the others give way.  If they do end,
\* whoever waits is told, one way or another, although a result may be lost.
PassesEnd == \A w \in Worker : WF_vars(Pass(w))
NobodyWaitsForever ==
  /\ (ui.at = "waiting") ~> (ui.at # "waiting")
  /\ (ui.at = "joining") ~> (ui.at # "joining")
  /\ \A t \in Interactive : QueuedInteractive(OwnerOf[t]) ~> ~QueuedInteractive(OwnerOf[t])
  /\ PassesEnd => \A t \in {u \in Target : Patience[u] # 0} : want[t].on ~> ~want[t].on

=============================================================================
