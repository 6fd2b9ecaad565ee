------------------------ MODULE InvestigationService ------------------------
(***************************************************************************)
(* The latest-wins background service behind the command palette.  One UI  *)
(* thread starts document sessions, submits searches, polls, cancels and   *)
(* destroys the service; one worker thread owns the index back end.  The   *)
(* two condition variables are modelled by the program counters of the     *)
(* threads that sleep on them, so that a lost wake-up is a deadlock here.  *)
(***************************************************************************)
EXTENDS Integers, FiniteSets

CONSTANTS
  Generations,   \* document generations the UI may hand to the service
  None,          \* "no command", "no index", "no publication"
  MaxRequests,   \* bound: calls of beginSession and requestSearch
  MaxCancels,    \* bound: calls of cancel and cancelAndWaitIdle
  MaxFaults      \* bound: exceptions that escape the back end's boundaries

Commands == [generation : Generations, requestId : Nat, sessionToken : Nat]
Searches == [generation : Generations, requestId : Nat, sessionToken : Nat,
             searchToken : Nat, index : Nat \cup {None}]
Outcomes == {"complete", "failed", "cancelled"}
BuildPublications  == [generation : Generations, requestId : Nat, outcome : Outcomes]
SearchPublications == [generation : Generations, requestId : Nat, outcome : Outcomes,
                       index : Nat \cup {None}]

ASSUME InvestigationAssumption ==
  /\ Generations \subseteq Nat \ {0}
  /\ None \notin Nat \cup Commands \cup Searches \cup BuildPublications \cup SearchPublications
  /\ {MaxRequests, MaxCancels, MaxFaults} \subseteq Nat

VARIABLES
  stopping, sessionToken, searchToken,         \* atomics, read without the lock
  generation, sessionActive, nextRequestId,    \* the session
  pendingBuild, pendingSearch,                 \* at most one command of each kind
  active, busy,                                \* what the worker runs
  currentIndex, currentIndexGeneration,
  buildPublication, searchPublication,
  stats,                                       \* the counters stats() returns
  worker,                                      \* the worker's program counter
  backend,                                     \* the worker's back end: "ready" or "missing"
  command,                                     \* the command the worker holds
  ui,                                          \* the UI thread's program counter
  \* Variables below only observe: no action is enabled or disabled by them,
  \* except that the last two carry the bounds.
  latestBuild, latestSearch,                   \* newest request still wanted, or None
  consumed, lost,                              \* publications taken, ids whose publication threw
  cancels, faults

session  == <<generation, sessionActive, nextRequestId>>
queue    == <<pendingBuild, pendingSearch>>
index    == <<currentIndex, currentIndexGeneration>>
tokens   == <<stopping, sessionToken, searchToken>>
visible  == <<buildPublication, searchPublication>>
observed == <<latestBuild, latestSearch, consumed, lost>>
bounds   == <<cancels, faults>>
vars == <<tokens, session, queue, active, busy, index, visible, stats,
          worker, command, backend, ui, observed, bounds>>

----------------------------------------------------------------------------
Counters == {"requested", "coalesced", "dropped", "stale", "failed", "completed"}

\* add[c] is what one call adds to counter c; counters it does not name stay.
Count(add) == stats' = [c \in Counters |->
                          stats[c] + IF c \in DOMAIN add THEN add[c] ELSE 0]

One(condition) == IF condition THEN 1 ELSE 0

\* Plausible bug: only the document generation tells a stale build apart.
BuildStaleByGeneration(c) == stopping \/ ~sessionActive \/ c.generation # generation

BuildStale(c) == \/ stopping
                 \/ ~sessionActive
                 \/ c.generation # generation
                 \/ c.sessionToken # sessionToken

\* Plausible bug: a newer search of the same session does not make one stale.
SearchStaleBySession(c) == BuildStale(c)

SearchStale(c) == BuildStale(c) \/ c.searchToken # searchToken

\* Plausible bug: the sleeping worker is not notified.
NotifyWakeForgotten == worker

\* wake.notify_*: only a sleeping worker has anything to be woken from.
NotifyWake == IF worker = "asleep" THEN "check" ELSE worker
\* Plausible bug: the thread in cancelAndWaitIdle is not notified.
NotifyIdleForgotten == ui

\* idle.notify_all, for the one thread that can wait on it.
NotifyIdle == IF ui = "asleep" THEN "check" ELSE ui

\* Plausible bug: a search publication thrown away is not counted.
DiscardedUncounted == One(pendingBuild # None) + One(pendingSearch # None)
                      + One(buildPublication # None)

\* What a new or a cancelled session throws away.
Discarded == One(pendingBuild # None) + One(pendingSearch # None)
             + One(buildPublication # None) + One(searchPublication # None)

\* Plausible bug: the running operation is forgotten.
IdleIgnoringBusy == pendingBuild = None /\ pendingSearch = None

Idle == ~busy /\ pendingBuild = None /\ pendingSearch = None

\* Plausible bug: the retained query does not wait for its session's build.
SearchIsNextUnordered == pendingSearch # None

\* A session rebuild always precedes its retained latest query.
SearchIsNext == pendingSearch # None /\ pendingBuild = None

\* A slot after the worker moved its command out and reset it.
MovedFrom(slot) == None

Init ==
  /\ stopping = FALSE /\ sessionToken = 1 /\ searchToken = 1
  /\ generation = 0 /\ sessionActive = FALSE /\ nextRequestId = 1
  /\ pendingBuild = None /\ pendingSearch = None
  /\ active = "None" /\ busy = FALSE
  /\ currentIndex = None /\ currentIndexGeneration = 0
  /\ buildPublication = None /\ searchPublication = None
  /\ stats = [c \in Counters |-> 0]
  /\ worker = "start" /\ command = None /\ backend = "missing"
  /\ ui = "free"
  /\ latestBuild = None /\ latestSearch = None /\ consumed = {} /\ lost = {}
  /\ cancels = 0 /\ faults = 0

----------------------------------------------------------------------------
(* The UI thread.                                                          *)

BeginSession(g) ==
  /\ ui = "free" /\ ~stopping /\ stats["requested"] < MaxRequests
  /\ nextRequestId' = nextRequestId + 1
  /\ Count([requested |-> 1,
            coalesced |-> One(pendingBuild # None) + One(pendingSearch # None) + One(busy),
            dropped   |-> Discarded])
  /\ sessionToken' = sessionToken + 1
  /\ searchToken' = searchToken + 1
  /\ generation' = g /\ sessionActive' = TRUE
  /\ currentIndex' = None /\ currentIndexGeneration' = 0
  /\ buildPublication' = None /\ searchPublication' = None
  /\ pendingSearch' = None
  /\ pendingBuild' = [generation |-> g, requestId |-> nextRequestId,
                      sessionToken |-> sessionToken + 1]
  /\ worker' = NotifyWake
  /\ latestBuild' = nextRequestId /\ latestSearch' = None
  /\ UNCHANGED <<stopping, active, busy, command, backend, ui, consumed, lost, bounds>>

\* A search for another generation than the session's is refused and counted.
RequestSearch(g) ==
  /\ ui = "free" /\ ~stopping /\ stats["requested"] < MaxRequests
  /\ IF ~sessionActive \/ g # generation
     THEN /\ Count([requested |-> 1, stale |-> 1])
          /\ UNCHANGED <<searchToken, nextRequestId, pendingSearch, searchPublication,
                         worker, latestSearch>>
     ELSE /\ Count([requested |-> 1,
                    coalesced |-> One(pendingSearch # None) + One(active = "Search"),
                    dropped   |-> One(pendingSearch # None) + One(searchPublication # None)])
          /\ nextRequestId' = nextRequestId + 1
          /\ searchPublication' = None
          /\ searchToken' = searchToken + 1
          /\ pendingSearch' = [generation |-> g, requestId |-> nextRequestId,
                               sessionToken |-> sessionToken,
                               searchToken |-> searchToken + 1, index |-> None]
          /\ worker' = NotifyWake
          /\ latestSearch' = nextRequestId
  /\ UNCHANGED <<stopping, sessionToken, generation, sessionActive, pendingBuild, active, busy,
                 index, buildPublication, command, backend, ui, latestBuild, consumed, lost, bounds>>

ConsumeLatestSearch ==
  /\ ui = "free" /\ searchPublication # None
  /\ consumed' = consumed \cup {searchPublication.requestId}
  /\ searchPublication' = None
  /\ UNCHANGED <<tokens, session, queue, active, busy, index, buildPublication, stats,
                 worker, command, backend, ui, latestBuild, latestSearch, lost, bounds>>

\* cancel(); with wait, its caller cancelAndWaitIdle() goes on to the idle loop.
Cancel(wait) ==
  /\ ui = "free" /\ cancels < MaxCancels
  /\ cancels' = cancels + 1
  /\ sessionToken' = sessionToken + 1
  /\ searchToken' = searchToken + 1
  /\ Count([dropped |-> Discarded])
  /\ pendingBuild' = None /\ pendingSearch' = None
  /\ buildPublication' = None /\ searchPublication' = None
  /\ currentIndex' = None /\ currentIndexGeneration' = 0
  /\ sessionActive' = FALSE
  /\ worker' = NotifyWake
  /\ ui' = IF wait THEN "check" ELSE "free"
  /\ latestBuild' = None /\ latestSearch' = None
  /\ UNCHANGED <<stopping, generation, nextRequestId, active, busy, command, backend,
                 consumed, lost, faults>>

\* The predicate of idle.wait; a false one puts the caller to sleep.
WaitIdle ==
  /\ ui = "check"
  /\ ui' = IF Idle THEN "free" ELSE "asleep"
  /\ UNCHANGED <<tokens, session, queue, active, busy, index, visible, stats, worker,
                 command, backend, observed, bounds>>

\* ~Impl: stop, drop the queue, wake the worker, then join it.
Destroy ==
  /\ ui = "free"
  /\ stopping' = TRUE
  /\ sessionToken' = sessionToken + 1
  /\ searchToken' = searchToken + 1
  /\ pendingBuild' = None /\ pendingSearch' = None
  /\ worker' = NotifyWake
  /\ ui' = "join"
  /\ UNCHANGED <<session, active, busy, index, visible, stats, command, backend, observed, bounds>>

Join ==
  /\ ui = "join" /\ worker = "exited"
  /\ ui' = "gone"
  /\ UNCHANGED <<tokens, session, queue, active, busy, index, visible, stats, worker,
                 command, backend, observed, bounds>>

----------------------------------------------------------------------------
(* The worker thread.                                                      *)

\* The factory may throw or return null: every command then fails.
CreateBackend ==
  /\ worker = "start"
  /\ backend' \in {"ready", "missing"}
  /\ worker' = "check"
  /\ UNCHANGED <<tokens, session, queue, active, busy, index, visible, stats, command, ui,
                 observed, bounds>>

Sleep ==
  /\ worker = "check" /\ ~stopping /\ pendingBuild = None /\ pendingSearch = None
  /\ worker' = "asleep"
  /\ UNCHANGED <<tokens, session, queue, active, busy, index, visible, stats, command, backend,
                 ui, observed, bounds>>

\* A condition variable may wake its sleeper for no reason; nobody relies on it.
SpuriousWake ==
  /\ worker = "asleep" /\ worker' = "check"
  /\ UNCHANGED <<tokens, session, queue, active, busy, index, visible, stats, command, backend,
                 ui, observed, bounds>>

TakeBuild ==
  /\ worker = "check" /\ ~stopping /\ pendingBuild # None
  /\ command' = pendingBuild
  /\ pendingBuild' = None
  /\ active' = "Build" /\ busy' = TRUE /\ worker' = "run"
  /\ UNCHANGED <<tokens, session, pendingSearch, index, visible, stats, backend, ui, observed, bounds>>

\* A session's build goes first; the search carries the index it will read.
TakeSearch ==
  /\ worker = "check" /\ ~stopping /\ SearchIsNext
  /\ command' = IF currentIndex # None /\ currentIndexGeneration = pendingSearch.generation
                THEN [pendingSearch EXCEPT !.index = currentIndex]
                ELSE pendingSearch
  /\ pendingSearch' = MovedFrom(pendingSearch)
  /\ active' = "Search" /\ busy' = TRUE /\ worker' = "run"
  /\ UNCHANGED <<tokens, session, pendingBuild, index, visible, stats, backend, ui, observed, bounds>>

\* What the back end's cancellation callback would answer now.
CancelRequested == \/ stopping
                   \/ command.sessionToken # sessionToken
                   \/ active = "Search" /\ command.searchToken # searchToken

\* The back end returns or throws; without a back end, or for a search without
\* an index, the worker itself fails the command.  "noIndex" is a build that
\* claims completion but brings no index.
Run ==
  /\ worker = "run"
  /\ LET unable == backend = "missing" \/ (active = "Search" /\ command.index = None)
     IN \E r \in IF unable THEN {"failed"}
                 ELSE {"complete", "failed"}
                      \cup (IF CancelRequested THEN {"cancelled"} ELSE {})
                      \cup (IF active = "Build" THEN {"noIndex"} ELSE {}) :
          command' = [outcome |-> r, of |-> command]
  /\ worker' = "publish"
  /\ UNCHANGED <<tokens, session, queue, active, busy, index, visible, stats, backend, ui,
                 observed, bounds>>

\* Plausible bug: a build without an index is published as it came.
NormalisedNot(outcome) == outcome

\* A build that claims to be complete and carries no index has failed.
Normalised(outcome) == IF outcome = "noIndex" THEN "failed" ELSE outcome

\* The index a build returns, identified by the request that built it.
PublishBuild ==
  /\ worker = "publish" /\ active = "Build"
  /\ LET c == command.of
         outcome == Normalised(command.outcome)
     IN IF BuildStale(c)
        THEN Count([stale |-> 1]) /\ UNCHANGED <<index, buildPublication>>
        ELSE /\ buildPublication' = [generation |-> c.generation, requestId |-> c.requestId,
                                     outcome |-> outcome]
             /\ IF outcome = "complete"
                THEN /\ currentIndex' = c.requestId /\ currentIndexGeneration' = c.generation
                     /\ Count([completed |-> 1, dropped |-> One(buildPublication # None)])
                ELSE /\ currentIndex' = None /\ currentIndexGeneration' = 0
                     /\ Count([failed |-> 1, dropped |-> One(buildPublication # None)])
  /\ worker' = "finish"
  /\ UNCHANGED <<tokens, session, queue, active, busy, searchPublication, command, backend, ui,
                 observed, bounds>>

PublishSearch ==
  /\ worker = "publish" /\ active = "Search"
  /\ LET c == command.of
     IN IF SearchStale(c)
        THEN Count([stale |-> 1]) /\ UNCHANGED searchPublication
        ELSE /\ searchPublication' = [generation |-> c.generation, requestId |-> c.requestId,
                                      outcome |-> command.outcome, index |-> c.index]
             /\ Count([dropped   |-> One(searchPublication # None),
                       completed |-> One(command.outcome = "complete"),
                       failed    |-> One(command.outcome # "complete")])
  /\ worker' = "finish"
  /\ UNCHANGED <<tokens, session, queue, active, busy, index, buildPublication, command, backend,
                 ui, observed, bounds>>

\* Publication may run out of memory: the request is counted as failed and no
\* publication appears.
PublishThrows ==
  /\ worker = "publish" /\ faults < MaxFaults
  /\ ~ IF active = "Build" THEN BuildStale(command.of) ELSE SearchStale(command.of)
  /\ faults' = faults + 1
  /\ lost' = lost \cup {command.of.requestId}
  /\ Count([failed |-> 1])
  /\ worker' = "finish"
  /\ UNCHANGED <<tokens, session, queue, active, busy, index, visible, command, backend, ui,
                 latestBuild, latestSearch, consumed, cancels>>

FinishCommand ==
  /\ worker = "finish"
  /\ busy' = FALSE /\ active' = "None" /\ command' = None
  /\ ui' = IF pendingBuild = None /\ pendingSearch = None THEN NotifyIdle ELSE ui
  /\ worker' = "check"
  /\ UNCHANGED <<tokens, session, queue, index, visible, stats, backend, observed, bounds>>

Exit ==
  /\ worker = "check" /\ stopping
  /\ busy' = FALSE /\ active' = "None"
  /\ ui' = NotifyIdle
  /\ worker' = "exited"
  /\ UNCHANGED <<tokens, session, queue, index, visible, stats, command, backend, observed, bounds>>

\* failWorker: the last guard of the thread, for an exception outside the two
\* operation boundaries.  The service refuses everything from then on.
FailWorker ==
  /\ worker \in {"check", "finish"} /\ faults < MaxFaults
  /\ faults' = faults + 1
  /\ stopping' = TRUE
  /\ sessionToken' = sessionToken + 1
  /\ searchToken' = searchToken + 1
  /\ pendingBuild' = None /\ pendingSearch' = None
  /\ currentIndex' = None /\ currentIndexGeneration' = 0
  /\ busy' = FALSE /\ active' = "None" /\ command' = None
  /\ Count([failed |-> 1])
  /\ ui' = NotifyIdle
  /\ worker' = "exited"
  /\ UNCHANGED <<session, visible, backend, observed, cancels>>

----------------------------------------------------------------------------
UiStep == \/ \E g \in Generations : BeginSession(g) \/ RequestSearch(g)
          \/ ConsumeLatestSearch
          \/ \E wait \in BOOLEAN : Cancel(wait)
          \/ WaitIdle \/ Destroy \/ Join

WorkerStep == \/ CreateBackend \/ Sleep \/ TakeBuild \/ TakeSearch \/ Run
              \/ PublishBuild \/ PublishSearch \/ PublishThrows
              \/ FinishCommand \/ Exit \/ FailWorker

\* After the join nothing of the service is left to run.
Done == ui = "gone" /\ UNCHANGED vars

Next == UiStep \/ WorkerStep \/ SpuriousWake \/ Done

Spec == Init /\ [][Next]_vars

\* The operating system runs a runnable thread, and every back-end call ends:
\* an operation is bounded by its limits and polls its cancellation.
FairSpec == Spec /\ WF_vars(WorkerStep) /\ WF_vars(WaitIdle) /\ WF_vars(Join)

----------------------------------------------------------------------------
(* Properties.                                                             *)

\* The type of every variable of the service and of its two threads.
TypeOK ==
  /\ stopping \in BOOLEAN /\ sessionActive \in BOOLEAN /\ busy \in BOOLEAN
  /\ {sessionToken, searchToken, nextRequestId, currentIndexGeneration} \subseteq Nat
  /\ generation \in Generations \cup {0}
  /\ pendingBuild \in Commands \cup {None}
  /\ pendingSearch \in Searches \cup {None}
  /\ active \in {"None", "Build", "Search"}
  /\ currentIndex \in Nat \cup {None}
  /\ buildPublication \in BuildPublications \cup {None}
  /\ searchPublication \in SearchPublications \cup {None}
  /\ stats \in [Counters -> Nat]
  /\ worker \in {"start", "check", "asleep", "run", "publish", "finish", "exited"}
  /\ backend \in {"ready", "missing"}
  /\ ui \in {"free", "check", "asleep", "join", "gone"}

\* What the UI can see belongs to the newest request of its kind, even when a
\* document generation is used again: InvestigationService.h:84 "Latest query
\* wins within a generation", :58 "Starts/replaces a document session".
VisibleIsLatest ==
  /\ buildPublication # None =>
       buildPublication.requestId = latestBuild /\ buildPublication.generation = generation
  /\ searchPublication # None =>
       searchPublication.requestId = latestSearch /\ searchPublication.generation = generation
  /\ currentIndex # None =>
       sessionActive /\ currentIndex = latestBuild /\ currentIndexGeneration = generation

\* A search is answered from the index its own session built; with no index it
\* can only report failure, and only because that session's build failed.
SearchReadsItsSession ==
  searchPublication # None =>
    /\ searchPublication.index \in {None, latestBuild}
    /\ searchPublication.outcome = "complete" => searchPublication.index # None
    /\ searchPublication.index = None =>
         \/ backend = "missing"
         \/ latestBuild \in lost
         \/ buildPublication # None /\ buildPublication.outcome = "failed"

\* An operation that saw its cancellation flag is never published: a flag once
\* raised for a command stays raised.
CancelledNeverPublished ==
  \A p \in {buildPublication, searchPublication} \ {None} : p.outcome # "cancelled"

\* Every counted request is in exactly one place: refused or stale, dropped from
\* the queue or as a publication, consumed, lost, visible, queued or in flight.
RequestsAccountedFor ==
  ~stopping =>
    stats["requested"] =
      stats["stale"] + stats["dropped"] + Cardinality(consumed) + Cardinality(lost)
      + One(buildPublication # None) + One(searchPublication # None)
      + One(pendingBuild # None) + One(pendingSearch # None)
      + One(worker \in {"run", "publish"})

\* When cancelAndWaitIdle returns, no operation reads the old snapshot or index.
IdleMeansIdle ==
  [][ui = "check" /\ ui' = "free" => worker \notin {"run", "publish"}]_vars

\* cancelAndWaitIdle returns: no notification of idle is lost.
CancelReturns == ui \in {"check", "asleep"} ~> ui = "free"

\* The destructor joins the worker.
DestructorReturns == ui = "join" ~> ui = "gone"

\* The newest search is answered, unless something newer, a cancellation, a
\* failed publication or the end of the service takes its place.
SearchAnswered ==
  \A id \in 1..MaxRequests :
    latestSearch = id ~>
      \/ latestSearch # id
      \/ searchPublication # None /\ searchPublication.requestId = id
      \/ id \in consumed \cup lost
      \/ stopping

(* What the interface may see is of its newest request and session, was read *)
(* from the index of that session, and was not cancelled.                    *)
PublishedIsTrue == VisibleIsLatest /\ SearchReadsItsSession /\ CancelledNeverPublished

(* Each request has one end, and only the newest one's is seen.              *)
EndsAreTrue == PublishedIsTrue /\ RequestsAccountedFor

(* No wake-up is lost: the wait for an idle worker ends, the destructor      *)
(* joins it and the newest search is answered.                               *)
CallsReturn == CancelReturns /\ DestructorReturns /\ SearchAnswered

=============================================================================
