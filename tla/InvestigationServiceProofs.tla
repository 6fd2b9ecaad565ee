--------------------- MODULE InvestigationServiceProofs ---------------------
(***************************************************************************)
(* Proofs about the investigation service, for any generations and bounds. *)
(***************************************************************************)
EXTENDS InvestigationService, FiniteSetTheorems, TLAPS

----------------------------------------------------------------------------
(* The inductive invariant.                                                *)

\* The command that the worker runs or has run, while it is in flight.
Running == worker \in {"run", "publish"}
Flight  == IF worker = "publish" THEN command.of ELSE command

\* A worker that is at an operation is busy.
BusyWorker == worker \in {"run", "publish", "finish"} => busy

\* The worker holds its command, and an outcome that the command can have.
WorkerHolds ==
  /\ Running => active \in {"Build", "Search"}
  /\ Running /\ active = "Build" => Flight \in Commands
  /\ Running /\ active = "Search" => Flight \in Searches
  /\ worker = "publish" =>
       /\ command.outcome \in Outcomes \cup {"noIndex"}
       /\ active = "Search" => command.outcome # "noIndex"
       /\ active = "Search" /\ command.outcome = "complete" => Flight.index # None
       /\ command.outcome = "cancelled" =>
            \/ stopping \/ Flight.sessionToken # sessionToken
            \/ active = "Search" /\ Flight.searchToken # searchToken

\* What is queued is of this session, and asked for last.
QueueIsLatest ==
  /\ pendingBuild # None =>
       /\ sessionActive /\ pendingBuild.sessionToken = sessionToken
       /\ pendingBuild.generation = generation /\ pendingBuild.requestId = latestBuild
  /\ pendingSearch # None =>
       /\ sessionActive /\ pendingSearch.sessionToken = sessionToken
       /\ pendingSearch.searchToken = searchToken /\ pendingSearch.generation = generation
       /\ pendingSearch.requestId = latestSearch /\ pendingSearch.index = None

\* A command in flight that has the tokens of now is what was asked for last.
FlightIsLatest ==
  Running =>
    /\ Flight.sessionToken <= sessionToken
    /\ Flight.sessionToken = sessionToken => sessionActive /\ Flight.generation = generation
    /\ active = "Build" /\ Flight.sessionToken = sessionToken =>
         pendingBuild = None /\ Flight.requestId = latestBuild
    /\ active = "Search" =>
         /\ Flight.searchToken <= searchToken
         /\ Flight.sessionToken = sessionToken /\ Flight.searchToken = searchToken =>
              Flight.requestId = latestSearch

\* A build of this session is still to come.
BuildAhead == \/ pendingBuild # None
              \/ Running /\ active = "Build" /\ Flight.sessionToken = sessionToken

\* Why a search may be without an index.
NoIndexToRead == \/ backend = "missing" \/ latestBuild \in lost
                 \/ buildPublication # None /\ buildPublication.outcome = "failed"

\* Before its build a session has nothing to show; after it, an index or a reason.
IndexIsBuilt ==
  /\ worker = "start" =>
       searchPublication = None /\ (sessionActive /\ ~stopping => pendingBuild # None)
  /\ BuildAhead => buildPublication = None /\ searchPublication = None /\ currentIndex = None
  /\ sessionActive /\ ~stopping /\ ~BuildAhead /\ currentIndex = None => NoIndexToRead
  /\ Running /\ active = "Search" /\ Flight.sessionToken = sessionToken =>
       /\ ~BuildAhead
       /\ Flight.index \in {None, latestBuild}
       /\ Flight.index = None => NoIndexToRead

\* A request is in one place.
RequestsAreApart ==
  /\ latestBuild \in Nat \cup {None} /\ latestSearch \in Nat \cup {None}
  /\ IsFiniteSet(consumed) /\ IsFiniteSet(lost)
  /\ \A id \in consumed \cup lost : id \in Nat /\ id < nextRequestId
  /\ pendingBuild # None =>
       pendingBuild.requestId < nextRequestId /\ pendingBuild.requestId \notin consumed \cup lost
  /\ pendingSearch # None =>
       pendingSearch.requestId < nextRequestId /\ pendingSearch.requestId \notin consumed \cup lost
  /\ Running =>
       Flight.requestId < nextRequestId /\ Flight.requestId \notin consumed \cup lost
  /\ searchPublication # None =>
       searchPublication.requestId < nextRequestId /\ searchPublication.requestId \notin consumed
  /\ pendingBuild # None /\ pendingSearch # None =>
       pendingBuild.requestId # pendingSearch.requestId
  /\ pendingBuild # None /\ Running => pendingBuild.requestId # Flight.requestId
  /\ pendingSearch # None /\ Running => pendingSearch.requestId # Flight.requestId
  /\ searchPublication # None =>
       /\ pendingBuild # None => pendingBuild.requestId # searchPublication.requestId
       /\ pendingSearch # None => pendingSearch.requestId # searchPublication.requestId
       /\ Running => Flight.requestId # searchPublication.requestId

IInv == /\ TypeOK /\ BusyWorker /\ WorkerHolds /\ QueueIsLatest /\ FlightIsLatest /\ IndexIsBuilt
        /\ RequestsAreApart /\ EndsAreTrue

----------------------------------------------------------------------------
(* Type correctness.                                                       *)

\* The truth values, apart from the rest.
Truths == stopping \in BOOLEAN /\ sessionActive \in BOOLEAN /\ busy \in BOOLEAN

Values ==
  /\ {sessionToken, searchToken, nextRequestId, currentIndexGeneration} \subseteq Nat
  /\ generation \in Generations \cup {0}
  /\ pendingBuild \in Commands \cup {None}
  /\ pendingSearch \in Searches \cup {None}
  /\ active \in {"None", "Build", "Search"}
  /\ currentIndex \in Nat \cup {None}
  /\ buildPublication \in BuildPublications \cup {None}
  /\ searchPublication \in SearchPublications \cup {None}
  /\ stats \in [Counters -> Nat]
  /\ worker \in {"start", "check", "asleep", "run", "publish", "finish", "exited"}
  /\ backend \in {"ready", "missing"}
  /\ ui \in {"free", "check", "asleep", "join", "gone"}

\* What the worker holds, without what it means.
Held ==
  /\ Running => active \in {"Build", "Search"}
  /\ Running /\ active = "Build" => Flight \in Commands
  /\ Running /\ active = "Search" => Flight \in Searches
  /\ worker = "publish" => /\ command.outcome \in Outcomes \cup {"noIndex"}
                           /\ active = "Search" => command.outcome # "noIndex"

\* The two halves are type correctness.
LEMMA Halves == TypeOK <=> Truths /\ Values
  BY Zenon DEF TypeOK, Truths, Values

\* The service starts idle, without a session.
LEMMA InitTypes == Init => Truths /\ Values /\ Held
<1>1. Init => Truths
  BY Zenon DEF Init, Truths
<1>2. Init => Values
  BY SMT DEF Init, Values
<1>3. Init => Held
  BY SMT DEF Init, Held, Running
<1> QED
  BY <1>1, <1>2, <1>3

\* The truth values keep their type.
LEMMA StepTruths ==
  ASSUME Truths, Next
  PROVE  Truths'
<1> USE DEF Truths, tokens, session, vars
<1>1. CASE UiStep
  BY <1>1, Zenon DEF UiStep, BeginSession, RequestSearch, ConsumeLatestSearch, Cancel, WaitIdle,
                     Destroy, Join
<1>2. CASE WorkerStep
  BY <1>2, Zenon DEF WorkerStep, CreateBackend, Sleep, TakeBuild, TakeSearch, Run, PublishBuild,
                     PublishSearch, PublishThrows, FinishCommand, Exit, FailWorker
<1>3. CASE SpuriousWake \/ Done
  BY <1>3, Zenon DEF SpuriousWake, Done
<1> QED
  BY <1>1, <1>2, <1>3, Zenon DEF Next

\* The calls of the user interface keep the types.
LEMMA UiValues ==
  ASSUME Values, Held, UiStep
  PROVE  Values' /\ Held'
<1> USE InvestigationAssumption
    DEF Values, Held, Running, Flight, tokens, session, queue, index, visible, One, Counters,
        Count, Commands, Searches, NotifyWake, Discarded
<1>1. ASSUME NEW g \in Generations, BeginSession(g)
      PROVE  Values' /\ Held'
  BY <1>1, SMT DEF BeginSession
<1>2. ASSUME NEW g \in Generations, RequestSearch(g)
      PROVE  Values' /\ Held'
  BY <1>2, SMT DEF RequestSearch
<1>3. CASE ConsumeLatestSearch
  BY <1>3, SMT DEF ConsumeLatestSearch
<1>4. ASSUME NEW wait \in BOOLEAN, Cancel(wait)
      PROVE  Values' /\ Held'
  BY <1>4, SMT DEF Cancel
<1>5. CASE WaitIdle \/ Join
  BY <1>5, SMT DEF WaitIdle, Join
<1>6. CASE Destroy
  BY <1>6, SMT DEF Destroy
<1> QED
  BY <1>1, <1>2, <1>3, <1>4, <1>5, <1>6, Zenon DEF UiStep

\* The steps of the worker keep the types.
LEMMA WorkerValues ==
  ASSUME Values, Held, WorkerStep
  PROVE  Values' /\ Held'
<1> USE InvestigationAssumption
    DEF Values, Held, Running, Flight, tokens, session, queue, index, visible, One, Counters,
        Count, Commands, Searches, NotifyIdle, Outcomes
<1>1. CASE CreateBackend \/ Sleep
  BY <1>1, SMT DEF CreateBackend, Sleep
<1>2. CASE TakeBuild
  BY <1>2, SMT DEF TakeBuild
<1>3. CASE TakeSearch
  BY <1>3, SMT DEF TakeSearch, SearchIsNext, MovedFrom
<1>4. CASE Run
  BY <1>4, SMT DEF Run
<1>5. CASE PublishBuild
  BY <1>5, SMT DEF PublishBuild, Normalised, BuildPublications
<1>6. CASE PublishSearch
  BY <1>6, SMT DEF PublishSearch, SearchPublications
<1>7. CASE PublishThrows \/ FinishCommand
  BY <1>7, SMT DEF PublishThrows, FinishCommand
<1>8. CASE Exit \/ FailWorker
  BY <1>8, SMT DEF Exit, FailWorker
<1> QED
  BY <1>1, <1>2, <1>3, <1>4, <1>5, <1>6, <1>7, <1>8, Zenon DEF WorkerStep

\* The session, the queue, what is shown and what is counted have their types,
\* and so have the states of the two threads.
THEOREM TypeCorrect == Spec => []TypeOK
<1>1. Init => TypeOK /\ Held
  BY InitTypes, Halves
<1>2. TypeOK /\ Held /\ [Next]_vars => TypeOK' /\ Held'
  <2> SUFFICES ASSUME TypeOK, Held, [Next]_vars PROVE TypeOK' /\ Held'
    OBVIOUS
  <2>1. Truths /\ Values
    BY Halves
  <2>2. Truths' /\ Values' /\ Held'
    <3>1. CASE UiStep \/ WorkerStep
      BY <2>1, <3>1, StepTruths, UiValues, WorkerValues DEF Next
    <3>2. CASE SpuriousWake
      <4>1. Truths'
        BY <2>1, <3>2, StepTruths DEF Next
      <4>2. Values' /\ Held'
        BY <2>1, <3>2, SMT DEF SpuriousWake, Values, Held, Running, Flight, tokens, session,
                               queue, index, visible
      <4> QED
        BY <4>1, <4>2
    <3>3. CASE UNCHANGED vars
      <4>1. Truths'
        BY <2>1, <3>3, Zenon DEF vars, tokens, session, Truths
      <4>2. Values' /\ Held'
        BY <2>1, <3>3, SMT DEF vars, tokens, session, queue, index, visible, Values, Held,
                               Running, Flight
      <4> QED
        BY <4>1, <4>2
    <3> QED
      BY <3>1, <3>2, <3>3 DEF Next, Done
  <2> QED
    BY <2>2, Halves, PTL
<1> QED
  BY <1>1, <1>2, PTL DEF Spec

----------------------------------------------------------------------------
(* What is queued, in flight and shown.                                    *)

\* The calls of the interface leave the command in flight alone.
LEMMA UiFlight ==
  ASSUME TypeOK, UiStep
  PROVE  /\ Running' <=> Running
         /\ Flight' = Flight /\ active' = active /\ command' = command /\ backend' = backend
         /\ worker' = "publish" <=> worker = "publish"
         /\ worker' = "start" <=> worker = "start"
<1> USE DEF Running, Flight, NotifyWake
<1>1. CASE WaitIdle \/ Join \/ ConsumeLatestSearch
  BY <1>1, SMT DEF WaitIdle, Join, ConsumeLatestSearch
<1>2. /\ worker' = worker \/ worker' = NotifyWake
      /\ command' = command /\ active' = active /\ backend' = backend
  BY Zenon DEF UiStep, BeginSession, RequestSearch, Cancel, WaitIdle, Join, ConsumeLatestSearch,
               Destroy
<1> QED
  BY <1>2, SMT

\* A command in flight has tokens and a request.
LEMMA FlightType ==
  ASSUME WorkerHolds, Running
  PROVE  /\ Flight.sessionToken \in Nat /\ Flight.requestId \in Nat
         /\ Flight.generation \in Generations
         /\ active = "Search" => Flight.searchToken \in Nat /\ Flight.index \in Nat \cup {None}
  BY SMT DEF WorkerHolds, Commands, Searches

\* The worker takes its command from the queue and ends with it.
LEMMA StepHolds ==
  ASSUME IInv, Next \/ UNCHANGED vars
  PROVE  WorkerHolds'
<1> USE InvestigationAssumption
    DEF tokens, session, queue, index, visible, observed, bounds, IInv, TypeOK, Commands,
        Searches, WorkerHolds, FlightIsLatest, Running, Outcomes
<1>f. Running => /\ Flight.sessionToken \in Nat /\ Flight.requestId \in Nat
                 /\ active = "Search" => Flight.searchToken \in Nat
  BY FlightType
<1>u. UiStep => /\ Running' <=> Running
                /\ Flight' = Flight /\ active' = active /\ command' = command
                /\ backend' = backend
                /\ worker' = "publish" <=> worker = "publish"
                /\ worker' = "start" <=> worker = "start"
  BY UiFlight
<1>1. ASSUME NEW g \in Generations, BeginSession(g)
      PROVE  WorkerHolds'
  BY <1>1, <1>f, <1>u, SMT DEF UiStep, BeginSession
<1>2. ASSUME NEW g \in Generations, RequestSearch(g)
      PROVE  WorkerHolds'
  BY <1>2, <1>f, <1>u, SMT DEF UiStep, RequestSearch
<1>3. CASE ConsumeLatestSearch
  BY <1>3, <1>f, <1>u, SMT DEF UiStep, ConsumeLatestSearch
<1>4. ASSUME NEW wait \in BOOLEAN, Cancel(wait)
      PROVE  WorkerHolds'
  BY <1>4, <1>f, <1>u, SMT DEF UiStep, Cancel
<1>5. CASE Destroy
  BY <1>5, <1>f, <1>u, SMT DEF UiStep, Destroy
<1>6. CASE TakeBuild
  BY <1>6, SMT DEF TakeBuild, Flight
<1>7. CASE TakeSearch
  BY <1>7, SMT DEF TakeSearch, SearchIsNext, MovedFrom, Flight
<1>8. CASE Run
  BY <1>8, SMT DEF Run, CancelRequested, Flight
<1>9. CASE PublishBuild
  BY <1>9, <1>f, SMT DEF PublishBuild, BuildStale, Normalised, Flight
<1>10. CASE PublishSearch
  BY <1>10, <1>f, SMT DEF PublishSearch, SearchStale, BuildStale, Flight
<1>11. CASE PublishThrows
  BY <1>11, <1>f, SMT DEF PublishThrows, SearchStale, BuildStale, Flight
<1>12. CASE FinishCommand \/ Exit
  BY <1>12, SMT DEF FinishCommand, Exit, Flight
<1>13. CASE FailWorker
  BY <1>13, SMT DEF FailWorker, Flight
<1>14. CASE WaitIdle \/ Join \/ CreateBackend \/ Sleep \/ SpuriousWake \/ UNCHANGED vars
  BY <1>14, SMT DEF WaitIdle, Join, CreateBackend, Sleep, SpuriousWake, vars, Flight
<1> QED
  BY <1>1, <1>2, <1>3, <1>4, <1>5, <1>6, <1>7, <1>8, <1>9, <1>10, <1>11, <1>12, <1>13, <1>14, Zenon
     DEF Next, UiStep, WorkerStep, Done

\* A new request replaces the queue, and a token that moves empties it.
LEMMA StepQueue ==
  ASSUME IInv, Next \/ UNCHANGED vars
  PROVE  QueueIsLatest'
<1> USE InvestigationAssumption
    DEF tokens, session, queue, index, visible, observed, bounds, IInv, TypeOK, Commands,
        Searches, QueueIsLatest
<1>1. ASSUME NEW g \in Generations, BeginSession(g)
      PROVE  QueueIsLatest'
  BY <1>1, SMT DEF BeginSession
<1>2. ASSUME NEW g \in Generations, RequestSearch(g)
      PROVE  QueueIsLatest'
  BY <1>2, SMT DEF RequestSearch
<1>3. ASSUME NEW wait \in BOOLEAN, Cancel(wait)
      PROVE  QueueIsLatest'
  BY <1>3, SMT DEF Cancel
<1>4. CASE Destroy
  BY <1>4, SMT DEF Destroy
<1>5. CASE TakeBuild
  BY <1>5, SMT DEF TakeBuild
<1>6. CASE TakeSearch
  BY <1>6, SMT DEF TakeSearch, SearchIsNext, MovedFrom
<1>7. CASE FailWorker
  BY <1>7, SMT DEF FailWorker
<1>8. CASE UNCHANGED <<session, queue, sessionToken, searchToken, latestBuild, latestSearch>>
  BY <1>8, SMT
<1>9. ASSUME ConsumeLatestSearch \/ Run \/ PublishBuild \/ PublishSearch \/
           PublishThrows \/ FinishCommand \/ Exit \/ WaitIdle \/ Join \/ CreateBackend
           \/ Sleep \/ SpuriousWake \/ UNCHANGED vars
       PROVE  QueueIsLatest'
  BY <1>8, <1>9, Zenon
     DEF ConsumeLatestSearch, Run, PublishBuild, BuildStale, Normalised, PublishSearch,
     PublishThrows, FinishCommand, Exit, WaitIdle, Join, CreateBackend, Sleep,
     SpuriousWake, vars
<1> QED
  BY <1>1, <1>2, <1>3, <1>4, <1>5, <1>6, <1>7, <1>8, <1>9, Zenon
     DEF Next, UiStep, WorkerStep, Done

\* A request in flight loses its token to the next one.
LEMMA StepFlight ==
  ASSUME IInv, Next \/ UNCHANGED vars
  PROVE  FlightIsLatest'
<1> USE InvestigationAssumption
    DEF tokens, session, queue, index, visible, observed, bounds, IInv, TypeOK, Commands,
        Searches, WorkerHolds, QueueIsLatest, FlightIsLatest, Running
<1>f. Running => /\ Flight.sessionToken \in Nat /\ Flight.requestId \in Nat
                 /\ active = "Search" => Flight.searchToken \in Nat
  BY FlightType
<1>u. UiStep => /\ Running' <=> Running
                /\ Flight' = Flight /\ active' = active /\ command' = command
                /\ backend' = backend
                /\ worker' = "publish" <=> worker = "publish"
                /\ worker' = "start" <=> worker = "start"
  BY UiFlight
<1>1. ASSUME NEW g \in Generations, BeginSession(g)
      PROVE  FlightIsLatest'
  BY <1>1, <1>f, <1>u, SMT DEF UiStep, BeginSession
<1>2. ASSUME NEW g \in Generations, RequestSearch(g)
      PROVE  FlightIsLatest'
  BY <1>2, <1>f, <1>u, SMT DEF UiStep, RequestSearch
<1>3. CASE ConsumeLatestSearch
  BY <1>3, <1>f, <1>u, SMT DEF UiStep, ConsumeLatestSearch
<1>4. ASSUME NEW wait \in BOOLEAN, Cancel(wait)
      PROVE  FlightIsLatest'
  BY <1>4, <1>f, <1>u, SMT DEF UiStep, Cancel
<1>5. CASE Destroy
  BY <1>5, <1>f, <1>u, SMT DEF UiStep, Destroy
<1>6. CASE TakeBuild
  BY <1>6, SMT DEF TakeBuild, Flight
<1>7. CASE TakeSearch
  BY <1>7, SMT DEF TakeSearch, SearchIsNext, MovedFrom, Flight
<1>8. CASE Run
  BY <1>8, SMT DEF Run, CancelRequested, Flight
<1>9. CASE PublishBuild
  BY <1>9, <1>f, SMT DEF PublishBuild, BuildStale, Normalised, Flight
<1>10. CASE PublishSearch
  BY <1>10, <1>f, SMT DEF PublishSearch, SearchStale, BuildStale, Flight
<1>11. CASE PublishThrows
  BY <1>11, <1>f, SMT DEF PublishThrows, SearchStale, BuildStale, Flight
<1>12. CASE FinishCommand \/ Exit
  BY <1>12, SMT DEF FinishCommand, Exit, Flight
<1>13. CASE FailWorker
  BY <1>13, SMT DEF FailWorker, Flight
<1>14. CASE WaitIdle \/ Join \/ CreateBackend \/ Sleep \/ SpuriousWake \/ UNCHANGED vars
  BY <1>14, SMT DEF WaitIdle, Join, CreateBackend, Sleep, SpuriousWake, vars, Flight
<1> QED
  BY <1>1, <1>2, <1>3, <1>4, <1>5, <1>6, <1>7, <1>8, <1>9, <1>10, <1>11, <1>12, <1>13, <1>14, Zenon
     DEF Next, UiStep, WorkerStep, Done

\* A session has its build ahead, its index, or a reason to have none.
LEMMA StepIndex ==
  ASSUME IInv, Next \/ UNCHANGED vars
  PROVE  IndexIsBuilt'
<1> USE InvestigationAssumption
    DEF tokens, session, queue, index, visible, observed, bounds, IInv, TypeOK, Commands,
        Searches, WorkerHolds, QueueIsLatest, FlightIsLatest, IndexIsBuilt, BuildAhead,
        NoIndexToRead, EndsAreTrue, PublishedIsTrue, VisibleIsLatest, BuildPublications,
        SearchPublications, Running
<1>f. Running => /\ Flight.sessionToken \in Nat /\ Flight.requestId \in Nat
                 /\ active = "Search" => Flight.searchToken \in Nat
  BY FlightType
<1>u. UiStep => /\ Running' <=> Running
                /\ Flight' = Flight /\ active' = active /\ command' = command
                /\ backend' = backend
                /\ worker' = "publish" <=> worker = "publish"
                /\ worker' = "start" <=> worker = "start"
  BY UiFlight
<1>1. ASSUME NEW g \in Generations, BeginSession(g)
      PROVE  IndexIsBuilt'
  BY <1>1, <1>f, <1>u, SMT DEF UiStep, BeginSession
<1>2. ASSUME NEW g \in Generations, RequestSearch(g)
      PROVE  IndexIsBuilt'
  BY <1>2, <1>f, <1>u, SMT DEF UiStep, RequestSearch
<1>3. CASE ConsumeLatestSearch
  BY <1>3, <1>f, <1>u, SMT DEF UiStep, ConsumeLatestSearch
<1>4. ASSUME NEW wait \in BOOLEAN, Cancel(wait)
      PROVE  IndexIsBuilt'
  BY <1>4, <1>f, <1>u, SMT DEF UiStep, Cancel
<1>5. CASE Destroy
  BY <1>5, <1>f, <1>u, SMT DEF UiStep, Destroy
<1>6. CASE TakeBuild
  BY <1>6, SMT DEF TakeBuild, Flight
<1>7. CASE TakeSearch
  BY <1>7, SMT DEF TakeSearch, SearchIsNext, MovedFrom, Flight
<1>8. CASE Run
  BY <1>8, SMT DEF Run, CancelRequested, Flight
<1>9. CASE PublishBuild
  <2>1. /\ worker = "publish" /\ active = "Build" /\ Flight = command.of
        /\ worker' = "finish" /\ ~Running' /\ worker' # "start"
        /\ UNCHANGED <<tokens, session, queue, searchPublication, backend, observed>>
    BY <1>9, SMT DEF PublishBuild, Flight
  <2>2. Flight \in Commands
    BY <2>1, SMT
  <2>3. CASE BuildStale(Flight)
    <3>1. UNCHANGED <<index, buildPublication>>
      BY <1>9, <2>1, <2>3, Zenon DEF PublishBuild
    <3>2. stopping \/ ~sessionActive \/ Flight.sessionToken # sessionToken
      BY <2>1, <2>3, SMT DEF BuildStale
    <3> HIDE DEF Flight
    <3> QED
      BY <2>1, <3>1, <3>2, SMT
  <2>4. CASE ~BuildStale(Flight)
    <3>1. /\ ~stopping /\ sessionActive /\ Flight.sessionToken = sessionToken
          /\ pendingBuild = None /\ Flight.requestId = latestBuild /\ searchPublication = None
      BY <2>1, <2>4, SMT DEF BuildStale
    <3>2. command.outcome \in {"complete", "failed", "noIndex"}
      BY <2>1, <3>1, SMT DEF Outcomes
    <3>3. \/ currentIndex' = Flight.requestId
          \/ buildPublication' = [generation |-> Flight.generation,
                                  requestId |-> Flight.requestId, outcome |-> "failed"]
      BY <1>9, <2>1, <2>4, <3>2, SMT DEF PublishBuild, Normalised
    <3>4. currentIndex' # None \/ (buildPublication' # None /\ buildPublication'.outcome = "failed")
      <4>1. [generation |-> Flight.generation, requestId |-> Flight.requestId,
             outcome |-> "failed"] \in BuildPublications
        BY <2>2, SMT DEF BuildPublications, Outcomes
      <4> QED
        BY <2>2, <3>3, <4>1, SMT
    <3> QED
      BY <2>1, <3>1, <3>4, SMT
  <2> QED
    BY <2>3, <2>4
<1>10. CASE PublishSearch
  BY <1>10, <1>f, SMT DEF PublishSearch, SearchStale, BuildStale, Flight
<1>11. CASE PublishThrows
  BY <1>11, <1>f, SMT DEF PublishThrows, SearchStale, BuildStale, Flight
<1>12. CASE FinishCommand \/ Exit
  BY <1>12, SMT DEF FinishCommand, Exit, Flight
<1>13. CASE FailWorker
  BY <1>13, SMT DEF FailWorker, Flight
<1>14. CASE WaitIdle \/ Join \/ CreateBackend \/ Sleep \/ SpuriousWake \/ UNCHANGED vars
  BY <1>14, SMT DEF WaitIdle, Join, CreateBackend, Sleep, SpuriousWake, vars, Flight
<1> QED
  BY <1>1, <1>2, <1>3, <1>4, <1>5, <1>6, <1>7, <1>8, <1>9, <1>10, <1>11, <1>12, <1>13, <1>14, Zenon
     DEF Next, UiStep, WorkerStep, Done

\* What is published has the tokens of now, and is taken back with them.
LEMMA StepVisible ==
  ASSUME IInv, Next \/ UNCHANGED vars
  PROVE  VisibleIsLatest'
<1> USE InvestigationAssumption
    DEF tokens, session, queue, index, visible, observed, bounds, IInv, TypeOK, Commands,
        Searches, WorkerHolds, QueueIsLatest, FlightIsLatest, EndsAreTrue, PublishedIsTrue,
        VisibleIsLatest, BuildPublications, SearchPublications, Running
<1>f. Running => /\ Flight.sessionToken \in Nat /\ Flight.requestId \in Nat
                 /\ active = "Search" => Flight.searchToken \in Nat
  BY FlightType
<1>u. UiStep => /\ Running' <=> Running
                /\ Flight' = Flight /\ active' = active /\ command' = command
                /\ backend' = backend
                /\ worker' = "publish" <=> worker = "publish"
                /\ worker' = "start" <=> worker = "start"
  BY UiFlight
<1>1. ASSUME NEW g \in Generations, BeginSession(g)
      PROVE  VisibleIsLatest'
  BY <1>1, <1>f, <1>u, SMT DEF UiStep, BeginSession
<1>2. ASSUME NEW g \in Generations, RequestSearch(g)
      PROVE  VisibleIsLatest'
  BY <1>2, <1>f, <1>u, SMT DEF UiStep, RequestSearch
<1>3. CASE ConsumeLatestSearch
  BY <1>3, <1>f, <1>u, SMT DEF UiStep, ConsumeLatestSearch
<1>4. ASSUME NEW wait \in BOOLEAN, Cancel(wait)
      PROVE  VisibleIsLatest'
  BY <1>4, <1>f, <1>u, SMT DEF UiStep, Cancel
<1>5. CASE PublishBuild
  BY <1>5, <1>f, SMT DEF PublishBuild, BuildStale, Normalised, Flight
<1>6. CASE PublishSearch
  BY <1>6, <1>f, SMT DEF PublishSearch, SearchStale, BuildStale, Flight
<1>7. CASE FailWorker
  BY <1>7, SMT DEF FailWorker, Flight
<1>8. CASE UNCHANGED <<session, index, visible, latestBuild, latestSearch>>
  BY <1>8, SMT
<1>9. ASSUME Destroy \/ TakeBuild \/ TakeSearch \/ Run \/ PublishThrows \/ FinishCommand
           \/ Exit \/ WaitIdle \/ Join \/ CreateBackend \/ Sleep \/ SpuriousWake \/
           UNCHANGED vars
       PROVE  VisibleIsLatest'
  BY <1>8, <1>9, Zenon
     DEF Destroy, TakeBuild, TakeSearch, Run, PublishThrows, FinishCommand, Exit,
     WaitIdle, Join, CreateBackend, Sleep, SpuriousWake, vars
<1> QED
  BY <1>1, <1>2, <1>3, <1>4, <1>5, <1>6, <1>7, <1>8, <1>9, Zenon
     DEF Next, UiStep, WorkerStep, Done

\* A search is published with the index of its session, or with the reason for none.
LEMMA StepReads ==
  ASSUME IInv, Next \/ UNCHANGED vars
  PROVE  SearchReadsItsSession'
<1> USE InvestigationAssumption
    DEF tokens, session, queue, index, visible, observed, bounds, IInv, TypeOK, Commands,
        Searches, WorkerHolds, QueueIsLatest, FlightIsLatest, IndexIsBuilt, BuildAhead,
        NoIndexToRead, EndsAreTrue, PublishedIsTrue, SearchReadsItsSession,
        BuildPublications, SearchPublications, Running
<1>f. Running => /\ Flight.sessionToken \in Nat /\ Flight.requestId \in Nat
                 /\ active = "Search" => Flight.searchToken \in Nat
  BY FlightType
<1>u. UiStep => /\ Running' <=> Running
                /\ Flight' = Flight /\ active' = active /\ command' = command
                /\ backend' = backend
                /\ worker' = "publish" <=> worker = "publish"
                /\ worker' = "start" <=> worker = "start"
  BY UiFlight
<1>1. ASSUME NEW g \in Generations, BeginSession(g)
      PROVE  SearchReadsItsSession'
  BY <1>1, <1>f, <1>u, SMT DEF UiStep, BeginSession
<1>2. ASSUME NEW g \in Generations, RequestSearch(g)
      PROVE  SearchReadsItsSession'
  BY <1>2, <1>f, <1>u, SMT DEF UiStep, RequestSearch
<1>3. CASE ConsumeLatestSearch
  BY <1>3, <1>f, <1>u, SMT DEF UiStep, ConsumeLatestSearch
<1>4. ASSUME NEW wait \in BOOLEAN, Cancel(wait)
      PROVE  SearchReadsItsSession'
  BY <1>4, <1>f, <1>u, SMT DEF UiStep, Cancel
<1>5. CASE PublishBuild
  BY <1>5, <1>f, SMT DEF PublishBuild, BuildStale, Normalised, Flight
<1>6. CASE PublishSearch
  BY <1>6, <1>f, SMT DEF PublishSearch, SearchStale, BuildStale, Flight
<1>7. CASE PublishThrows
  BY <1>7, <1>f, SMT DEF PublishThrows, SearchStale, BuildStale, Flight
<1>8. CASE WaitIdle \/ Join \/ CreateBackend \/ Sleep \/ SpuriousWake \/ UNCHANGED vars
  BY <1>8, SMT DEF WaitIdle, Join, CreateBackend, Sleep, SpuriousWake, vars, Flight
<1>9. CASE UNCHANGED <<visible, backend, lost, latestBuild>>
  BY <1>9, SMT
<1>10. ASSUME Destroy \/ TakeBuild \/ TakeSearch \/ Run \/ FinishCommand \/ Exit \/
           FailWorker
       PROVE  SearchReadsItsSession'
  BY <1>9, <1>10, Zenon
     DEF Destroy, TakeBuild, TakeSearch, Run, FinishCommand, Exit, FailWorker
<1> QED
  BY <1>1, <1>2, <1>3, <1>4, <1>5, <1>6, <1>7, <1>8, <1>9, <1>10, Zenon
     DEF Next, UiStep, WorkerStep, Done

\* A command that saw its cancellation is stale when it would be published.
LEMMA StepCancelled ==
  ASSUME IInv, Next \/ UNCHANGED vars
  PROVE  CancelledNeverPublished'
<1> USE InvestigationAssumption
    DEF tokens, session, queue, index, visible, observed, bounds, IInv, TypeOK, Commands,
        Searches, WorkerHolds, FlightIsLatest, EndsAreTrue, PublishedIsTrue,
        CancelledNeverPublished, BuildPublications, SearchPublications, Running
<1>f. Running => /\ Flight.sessionToken \in Nat /\ Flight.requestId \in Nat
                 /\ active = "Search" => Flight.searchToken \in Nat
  BY FlightType
<1>u. UiStep => /\ Running' <=> Running
                /\ Flight' = Flight /\ active' = active /\ command' = command
                /\ backend' = backend
                /\ worker' = "publish" <=> worker = "publish"
                /\ worker' = "start" <=> worker = "start"
  BY UiFlight
<1>1. ASSUME NEW g \in Generations, BeginSession(g)
      PROVE  CancelledNeverPublished'
  BY <1>1, <1>f, <1>u, SMT DEF UiStep, BeginSession
<1>2. ASSUME NEW g \in Generations, RequestSearch(g)
      PROVE  CancelledNeverPublished'
  BY <1>2, <1>f, <1>u, SMT DEF UiStep, RequestSearch
<1>3. CASE ConsumeLatestSearch
  BY <1>3, <1>f, <1>u, SMT DEF UiStep, ConsumeLatestSearch
<1>4. ASSUME NEW wait \in BOOLEAN, Cancel(wait)
      PROVE  CancelledNeverPublished'
  BY <1>4, <1>f, <1>u, SMT DEF UiStep, Cancel
<1>5. CASE PublishBuild
  BY <1>5, <1>f, SMT DEF PublishBuild, BuildStale, Normalised, Flight
<1>6. CASE PublishSearch
  BY <1>6, <1>f, SMT DEF PublishSearch, SearchStale, BuildStale, Flight
<1>7. CASE UNCHANGED visible
  BY <1>7, SMT
<1>8. ASSUME Destroy \/ TakeBuild \/ TakeSearch \/ Run \/ PublishThrows \/ FinishCommand
           \/ Exit \/ FailWorker \/ WaitIdle \/ Join \/ CreateBackend \/ Sleep \/
           SpuriousWake \/ UNCHANGED vars
       PROVE  CancelledNeverPublished'
  BY <1>7, <1>8, Zenon
     DEF Destroy, TakeBuild, TakeSearch, Run, PublishThrows, FinishCommand, Exit,
     FailWorker, WaitIdle, Join, CreateBackend, Sleep, SpuriousWake, vars
<1> QED
  BY <1>1, <1>2, <1>3, <1>4, <1>5, <1>6, <1>7, <1>8, Zenon
     DEF Next, UiStep, WorkerStep, Done

\* A request moves on to one place and leaves the one it was in.
LEMMA StepApart ==
  ASSUME IInv, Next \/ UNCHANGED vars
  PROVE  RequestsAreApart'
<1> USE InvestigationAssumption
    DEF tokens, session, queue, index, visible, observed, bounds, IInv, TypeOK, Commands,
        Searches, WorkerHolds, RequestsAreApart, BuildPublications, SearchPublications,
        Running
<1>f. Running => /\ Flight.sessionToken \in Nat /\ Flight.requestId \in Nat
                 /\ active = "Search" => Flight.searchToken \in Nat
  BY FlightType
<1>u. UiStep => /\ Running' <=> Running
                /\ Flight' = Flight /\ active' = active /\ command' = command
                /\ backend' = backend
                /\ worker' = "publish" <=> worker = "publish"
                /\ worker' = "start" <=> worker = "start"
  BY UiFlight
<1>c. /\ \A x : IsFiniteSet(consumed \cup {x}) /\ IsFiniteSet(lost \cup {x})
  BY FS_AddElement
<1>1. ASSUME NEW g \in Generations, BeginSession(g)
      PROVE  RequestsAreApart'
  BY <1>1, <1>f, <1>u, SMT DEF UiStep, BeginSession
<1>2. ASSUME NEW g \in Generations, RequestSearch(g)
      PROVE  RequestsAreApart'
  BY <1>2, <1>f, <1>u, SMT DEF UiStep, RequestSearch
<1>3. CASE ConsumeLatestSearch
  <2> DEFINE id == searchPublication.requestId
  <2>1. /\ searchPublication # None /\ searchPublication' = None
        /\ consumed' = consumed \cup {id}
        /\ UNCHANGED <<session, queue, lost, latestBuild, latestSearch>>
    BY <1>3, Zenon DEF ConsumeLatestSearch
  <2>2. id \in Nat /\ id < nextRequestId
    BY <2>1, SMT
  <2>3. /\ pendingBuild # None => pendingBuild.requestId # id
        /\ pendingSearch # None => pendingSearch.requestId # id
        /\ Running => Flight.requestId # id
    BY <2>1, SMT
  <2>4. (Running' <=> Running) /\ Flight' = Flight
    BY <1>3, UiFlight, Zenon DEF UiStep
  <2>5. RequestsAreApart
    BY Zenon
  <2> HIDE DEF id, Running, IInv
  <2>6. IsFiniteSet(consumed') /\ IsFiniteSet(lost')
    BY <2>1, <2>5, <1>c, Zenon
  <2>7. \A x \in consumed' \cup lost' : x \in Nat /\ x < nextRequestId'
    BY <2>1, <2>2, <2>5, Zenon
  <2>8. \A x : x \notin consumed \cup lost /\ x # id => x \notin consumed' \cup lost'
    BY <2>1, Zenon
  <2> QED
    BY <2>1, <2>2, <2>3, <2>4, <2>5, <2>6, <2>7, <2>8, SMT
<1>4. ASSUME NEW wait \in BOOLEAN, Cancel(wait)
      PROVE  RequestsAreApart'
  BY <1>4, <1>f, <1>u, SMT DEF UiStep, Cancel
<1>5. CASE Destroy
  BY <1>5, <1>f, <1>u, SMT DEF UiStep, Destroy
<1>6. CASE TakeBuild
  BY <1>6, SMT DEF TakeBuild, Flight
<1>7. CASE TakeSearch
  BY <1>7, SMT DEF TakeSearch, SearchIsNext, MovedFrom, Flight
<1>8. CASE Run
  BY <1>8, SMT DEF Run, CancelRequested, Flight
<1>9. CASE PublishBuild
  BY <1>9, <1>f, SMT DEF PublishBuild, BuildStale, Normalised, Flight
<1>10. CASE PublishSearch
  BY <1>10, <1>f, SMT DEF PublishSearch, SearchStale, BuildStale, Flight
<1>11. CASE PublishThrows
  <2> DEFINE id == Flight.requestId
  <2>1. /\ Running /\ ~Running' /\ lost' = lost \cup {id}
        /\ UNCHANGED <<session, queue, searchPublication, consumed, latestBuild, latestSearch>>
    BY <1>11, SMT DEF PublishThrows, Flight
  <2>2. id \in Nat /\ id < nextRequestId
    BY <2>1, <1>f, SMT
  <2>3. /\ pendingBuild # None => pendingBuild.requestId # id
        /\ pendingSearch # None => pendingSearch.requestId # id
    BY <2>1, SMT
  <2>5. RequestsAreApart
    BY Zenon
  <2> HIDE DEF id, Running, IInv
  <2>6. IsFiniteSet(consumed') /\ IsFiniteSet(lost')
    BY <2>1, <2>5, <1>c, Zenon
  <2>7. \A x \in consumed' \cup lost' : x \in Nat /\ x < nextRequestId'
    BY <2>1, <2>2, <2>5, Zenon
  <2>8. \A x : x \notin consumed \cup lost /\ x # id => x \notin consumed' \cup lost'
    BY <2>1, Zenon
  <2> QED
    BY <2>1, <2>2, <2>3, <2>5, <2>6, <2>7, <2>8, SMT
<1>12. CASE FinishCommand \/ Exit
  BY <1>12, SMT DEF FinishCommand, Exit, Flight
<1>13. CASE FailWorker
  BY <1>13, SMT DEF FailWorker, Flight
<1>14. CASE WaitIdle \/ Join \/ CreateBackend \/ Sleep \/ SpuriousWake \/ UNCHANGED vars
  BY <1>14, SMT DEF WaitIdle, Join, CreateBackend, Sleep, SpuriousWake, vars, Flight
<1> QED
  BY <1>1, <1>2, <1>3, <1>4, <1>5, <1>6, <1>7, <1>8, <1>9, <1>10, <1>11, <1>12, <1>13, <1>14, Zenon
     DEF Next, UiStep, WorkerStep, Done

\* What a step adds to the counters, it moves between the places of requests.
LEMMA StepCounted ==
  ASSUME IInv, Next \/ UNCHANGED vars
  PROVE  RequestsAccountedFor'
<1> USE InvestigationAssumption
    DEF tokens, session, queue, index, visible, observed, bounds, IInv, TypeOK, Commands,
        Searches, Counters, Count, One, Discarded, WorkerHolds, RequestsAreApart,
        EndsAreTrue, RequestsAccountedFor, BuildPublications, SearchPublications, Running
<1>f. Running => /\ Flight.sessionToken \in Nat /\ Flight.requestId \in Nat
                 /\ active = "Search" => Flight.searchToken \in Nat
  BY FlightType
<1>u. UiStep => /\ Running' <=> Running
                /\ Flight' = Flight /\ active' = active /\ command' = command
                /\ backend' = backend
                /\ worker' = "publish" <=> worker = "publish"
                /\ worker' = "start" <=> worker = "start"
  BY UiFlight
<1>c. /\ Cardinality(consumed) \in Nat /\ Cardinality(lost) \in Nat
      /\ \A x : x \notin consumed => Cardinality(consumed \cup {x}) = Cardinality(consumed) + 1
      /\ \A x : x \notin lost => Cardinality(lost \cup {x}) = Cardinality(lost) + 1
  BY FS_AddElement, FS_CardinalityType
<1>1. ASSUME NEW g \in Generations, BeginSession(g)
      PROVE  RequestsAccountedFor'
  <2> HIDE DEF IInv, TypeOK, WorkerHolds, RequestsAreApart, EndsAreTrue, Searches, Commands,
               BuildPublications, SearchPublications, Running, RequestsAccountedFor, Count, One,
               Discarded
  <2>1. /\ ~stopping /\ (worker' = worker \/ worker' = NotifyWake)
        /\ Count([requested |-> 1,
                  coalesced |-> One(pendingBuild # None) + One(pendingSearch # None) + One(busy),
                  dropped   |-> Discarded])
        /\ buildPublication' = None /\ searchPublication' = None /\ pendingSearch' = None
        /\ pendingBuild' = [generation |-> g, requestId |-> nextRequestId,
                            sessionToken |-> sessionToken + 1]
        /\ UNCHANGED <<stopping, consumed, lost>>
    BY <1>1, Zenon DEF BeginSession
  <2>2. worker' \in {"run", "publish"} <=> worker \in {"run", "publish"}
    BY <2>1, SMT DEF NotifyWake
  <2>3. stats \in [Counters -> Nat] /\ RequestsAccountedFor
    BY Zenon DEF IInv, TypeOK, EndsAreTrue
  <2>4. pendingBuild' # None
    <3>1. sessionToken \in Nat /\ nextRequestId \in Nat
      BY Zenon DEF IInv, TypeOK
    <3>2. pendingBuild' \in Commands
      BY <2>1, <3>1, SMT DEF Commands
    <3> QED
      BY <3>2, Zenon
  <2>5. /\ stats'["requested"] = stats["requested"] + 1
        /\ stats'["stale"] = stats["stale"]
        /\ stats'["dropped"] = stats["dropped"] + Discarded
    BY <2>1, <2>3, SMT DEF Count, One, Discarded
  <2> QED
    BY <1>c, <2>1, <2>2, <2>3, <2>4, <2>5, SMT DEF RequestsAccountedFor, One, Discarded
<1>2. ASSUME NEW g \in Generations, RequestSearch(g)
      PROVE  RequestsAccountedFor'
  <2> HIDE DEF IInv, TypeOK, WorkerHolds, RequestsAreApart, EndsAreTrue, Searches, Commands,
               BuildPublications, SearchPublications, Running, RequestsAccountedFor, Count, One
  <2>1. /\ ~stopping /\ (worker' = worker \/ worker' = NotifyWake)
        /\ UNCHANGED <<stopping, pendingBuild, buildPublication, consumed, lost>>
    BY <1>2, Zenon DEF RequestSearch, index, observed
  <2>2. worker' \in {"run", "publish"} <=> worker \in {"run", "publish"}
    BY <2>1, SMT DEF NotifyWake
  <2>3. stats \in [Counters -> Nat] /\ RequestsAccountedFor
    BY Zenon DEF IInv, TypeOK, EndsAreTrue
  <2>4. CASE ~sessionActive \/ g # generation
    <3>1. Count([requested |-> 1, stale |-> 1]) /\ UNCHANGED <<pendingSearch, searchPublication>>
      BY <1>2, <2>4, Zenon DEF RequestSearch
    <3>2. /\ stats'["requested"] = stats["requested"] + 1
          /\ stats'["stale"] = stats["stale"] + 1 /\ stats'["dropped"] = stats["dropped"]
      BY <2>3, <3>1, SMT DEF Count
    <3> QED
      BY <1>c, <2>1, <2>2, <2>3, <3>1, <3>2, SMT DEF RequestsAccountedFor, One
  <2>5. CASE ~(~sessionActive \/ g # generation)
    <3>1. /\ Count([requested |-> 1,
                    coalesced |-> One(pendingSearch # None) + One(active = "Search"),
                    dropped   |-> One(pendingSearch # None) + One(searchPublication # None)])
          /\ searchPublication' = None
          /\ pendingSearch' = [generation |-> g, requestId |-> nextRequestId,
                               sessionToken |-> sessionToken,
                               searchToken |-> searchToken + 1, index |-> None]
      BY <1>2, <2>5, Zenon DEF RequestSearch
    <3>2. pendingSearch' # None
      <4>1. {sessionToken, searchToken, nextRequestId} \subseteq Nat
        BY SMT DEF IInv, TypeOK
      <4>2. pendingSearch' \in Searches
        BY <3>1, <4>1, SMT DEF Searches
      <4> QED
        BY <4>2, Zenon
    <3>3. /\ stats'["requested"] = stats["requested"] + 1
          /\ stats'["stale"] = stats["stale"]
          /\ stats'["dropped"] = stats["dropped"] + One(pendingSearch # None)
                                 + One(searchPublication # None)
      BY <2>3, <3>1, SMT DEF Count, One
    <3> QED
      BY <1>c, <2>1, <2>2, <2>3, <3>1, <3>2, <3>3, SMT DEF RequestsAccountedFor, One
  <2> QED
    BY <2>4, <2>5
<1>3. CASE ConsumeLatestSearch
  <2>1. /\ searchPublication # None /\ searchPublication' = None
        /\ consumed' = consumed \cup {searchPublication.requestId}
        /\ UNCHANGED <<stopping, stats, queue, lost, buildPublication, worker>>
    BY <1>3, Zenon DEF ConsumeLatestSearch
  <2>2. Cardinality(consumed') = Cardinality(consumed) + 1
    BY <2>1, <1>c, Zenon
  <2> QED
    BY <2>1, <2>2, <1>c, SMT
<1>4. ASSUME NEW wait \in BOOLEAN, Cancel(wait)
      PROVE  RequestsAccountedFor'
  <2> HIDE DEF IInv, TypeOK, WorkerHolds, RequestsAreApart, EndsAreTrue, Searches, Commands,
               BuildPublications, SearchPublications, Running, RequestsAccountedFor, Count, One,
               Discarded
  <2>1. /\ (worker' = worker \/ worker' = NotifyWake) /\ Count([dropped |-> Discarded])
        /\ buildPublication' = None /\ searchPublication' = None
        /\ pendingBuild' = None /\ pendingSearch' = None
        /\ UNCHANGED <<stopping, consumed, lost>>
    BY <1>4, Zenon DEF Cancel
  <2>2. worker' \in {"run", "publish"} <=> worker \in {"run", "publish"}
    BY <2>1, SMT DEF NotifyWake
  <2>3. stats \in [Counters -> Nat] /\ RequestsAccountedFor
    BY Zenon DEF IInv, TypeOK, EndsAreTrue
  <2>4. /\ stats'["requested"] = stats["requested"] /\ stats'["stale"] = stats["stale"]
        /\ stats'["dropped"] = stats["dropped"] + Discarded
    BY <2>1, <2>3, SMT DEF Count, One, Discarded
  <2> QED
    BY <1>c, <2>1, <2>2, <2>3, <2>4, SMT DEF RequestsAccountedFor, One, Discarded
<1>5. CASE Destroy
  BY <1>5, <1>c, <1>f, <1>u, SMT DEF UiStep, Destroy
<1>6. CASE TakeBuild
  BY <1>6, <1>c, SMT DEF TakeBuild, Flight
<1>7. CASE TakeSearch
  BY <1>7, <1>c, SMT DEF TakeSearch, SearchIsNext, MovedFrom, Flight
<1>8. CASE Run
  BY <1>8, <1>c, SMT DEF Run, CancelRequested, Flight
<1>9. CASE PublishBuild
  <2>1. /\ worker = "publish" /\ worker' = "finish"
        /\ UNCHANGED <<stopping, queue, searchPublication, consumed, lost>>
    BY <1>9, SMT DEF PublishBuild
  <2>2. CASE BuildStale(command.of)
    <3>1. Count([stale |-> 1]) /\ UNCHANGED buildPublication
      BY <1>9, <2>2, Zenon DEF PublishBuild
    <3> QED
      BY <2>1, <3>1, <1>c, SMT
  <2>3. CASE ~BuildStale(command.of)
    <3>1. /\ stats'["requested"] = stats["requested"] /\ stats'["stale"] = stats["stale"]
          /\ stats'["dropped"] = stats["dropped"] + One(buildPublication # None)
      BY <1>9, <2>3, SMT DEF PublishBuild
    <3>2. buildPublication' # None
      <4>1. /\ worker = "publish" /\ active = "Build" /\ command.of \in Commands
            /\ command.outcome \in Outcomes \cup {"noIndex"}
        BY <1>9, SMT DEF PublishBuild, Flight
      <4>2. buildPublication' \in BuildPublications
        BY <1>9, <2>3, <4>1, SMT DEF PublishBuild, Normalised, Outcomes
      <4> QED
        BY <4>2
    <3> QED
      BY <2>1, <3>1, <3>2, <1>c, SMT
  <2> QED
    BY <2>2, <2>3
<1>10. CASE PublishSearch
  <2> HIDE DEF IInv, TypeOK, WorkerHolds, RequestsAreApart, EndsAreTrue, Searches, Commands,
               BuildPublications, SearchPublications, Running, RequestsAccountedFor, Count, One
  <2>1. /\ worker = "publish" /\ worker' = "finish"
        /\ UNCHANGED <<stopping, pendingBuild, pendingSearch, buildPublication, consumed, lost>>
    BY <1>10, Zenon DEF PublishSearch, queue, observed
  <2>2. stats \in [Counters -> Nat] /\ RequestsAccountedFor
    BY Zenon DEF IInv, TypeOK, EndsAreTrue
  <2>3. CASE SearchStale(command.of)
    <3>1. Count([stale |-> 1]) /\ searchPublication' = searchPublication
      BY <1>10, <2>3, Zenon DEF PublishSearch
    <3>2. /\ stats'["requested"] = stats["requested"]
          /\ stats'["stale"] = stats["stale"] + 1 /\ stats'["dropped"] = stats["dropped"]
      BY <2>2, <3>1, SMT DEF Count
    <3> QED
      BY <1>c, <2>1, <2>2, <3>1, <3>2, SMT DEF RequestsAccountedFor, One
  <2>4. CASE ~SearchStale(command.of)
    <3>1. /\ searchPublication' = [generation |-> command.of.generation,
                                   requestId |-> command.of.requestId,
                                   outcome |-> command.outcome, index |-> command.of.index]
          /\ Count([dropped   |-> One(searchPublication # None),
                    completed |-> One(command.outcome = "complete"),
                    failed    |-> One(command.outcome # "complete")])
      BY <1>10, <2>4, Zenon DEF PublishSearch
    <3>2. searchPublication' # None
      <4>1. worker = "publish" /\ active = "Search"
        BY <1>10, Zenon DEF PublishSearch
      <4>2. command.of \in Searches /\ command.outcome \in Outcomes
        BY <4>1, SMT DEF IInv, WorkerHolds, Running, Flight
      <4>3. searchPublication' \in SearchPublications
        BY <3>1, <4>2, SMT DEF Searches, SearchPublications
      <4> QED
        BY <4>3, Zenon
    <3>3. /\ stats'["requested"] = stats["requested"] /\ stats'["stale"] = stats["stale"]
          /\ stats'["dropped"] = stats["dropped"] + One(searchPublication # None)
      BY <2>2, <3>1, SMT DEF Count, One
    <3> QED
      BY <1>c, <2>1, <2>2, <3>2, <3>3, SMT DEF RequestsAccountedFor, One
  <2> QED
    BY <2>3, <2>4
<1>11. CASE PublishThrows
  BY <1>11, <1>c, <1>f, SMT DEF PublishThrows, SearchStale, BuildStale, Flight
<1>12. CASE FinishCommand \/ Exit
  BY <1>12, <1>c, SMT DEF FinishCommand, Exit, Flight
<1>13. CASE FailWorker
  BY <1>13, <1>c, SMT DEF FailWorker, Flight
<1>14. CASE WaitIdle \/ Join \/ CreateBackend \/ Sleep \/ SpuriousWake \/ UNCHANGED vars
  BY <1>14, <1>c, SMT DEF WaitIdle, Join, CreateBackend, Sleep, SpuriousWake, vars, Flight
<1> QED
  BY <1>1, <1>2, <1>3, <1>4, <1>5, <1>6, <1>7, <1>8, <1>9, <1>10, <1>11, <1>12, <1>13, <1>14, Zenon
     DEF Next, UiStep, WorkerStep, Done
\* The worker is busy from the moment it takes a command until it has finished it.
LEMMA StepBusy ==
  ASSUME TypeOK, BusyWorker, Next \/ UNCHANGED vars
  PROVE  BusyWorker'
<1> USE DEF BusyWorker
<1>1. CASE UNCHANGED busy /\ worker' \notin {"run", "publish", "finish"}
  BY <1>1, Zenon
<1>2. CASE UiStep
  <2>1. worker' = worker \/ worker' = NotifyWake
    BY <1>2, Zenon DEF UiStep, BeginSession, RequestSearch, ConsumeLatestSearch, Cancel, WaitIdle,
                       Destroy, Join
  <2>2. worker' \in {"run", "publish", "finish"} => worker \in {"run", "publish", "finish"}
    BY <2>1, SMT DEF NotifyWake
  <2>3. UNCHANGED busy
    BY <1>2, Zenon DEF UiStep, BeginSession, RequestSearch, ConsumeLatestSearch, Cancel, WaitIdle,
                       Destroy, Join
  <2> QED
    BY <2>2, <2>3, Zenon
<1>3. CASE CreateBackend \/ Sleep \/ SpuriousWake \/ FinishCommand \/ Exit \/ FailWorker
  <2>1. worker' \in {"check", "asleep", "exited"}
    BY <1>3, Zenon DEF CreateBackend, Sleep, SpuriousWake, FinishCommand, Exit, FailWorker
  <2>2. worker' \notin {"run", "publish", "finish"}
    BY <2>1, SMT
  <2> QED
    BY <2>2, Zenon
<1>4. CASE TakeBuild \/ TakeSearch
  BY <1>4, Zenon DEF TakeBuild, TakeSearch
<1>5. CASE Run \/ PublishBuild \/ PublishSearch \/ PublishThrows
  BY <1>5, Zenon DEF Run, PublishBuild, PublishSearch, PublishThrows
<1>6. CASE UNCHANGED vars
  BY <1>6, Zenon DEF vars
<1> QED
  BY <1>2, <1>3, <1>4, <1>5, <1>6, Zenon DEF Next, WorkerStep, Done

\* The invariant holds from the start, and every step preserves it.
LEMMA Inductive == Spec => []IInv
<1>1. Init => IInv
  <2> SUFFICES ASSUME Init PROVE IInv
    OBVIOUS
  <2>1. TypeOK
    BY InitTypes, Halves
  <2>2. WorkerHolds /\ QueueIsLatest /\ FlightIsLatest /\ IndexIsBuilt
    BY SMT DEF Init, WorkerHolds, QueueIsLatest, FlightIsLatest, IndexIsBuilt, BuildAhead, Running
  <2>3. RequestsAreApart /\ Cardinality(consumed) = 0 /\ Cardinality(lost) = 0
    BY FS_EmptySet, SMT DEF Init, RequestsAreApart, Running
  <2>4. EndsAreTrue
    <3>1. VisibleIsLatest /\ SearchReadsItsSession /\ CancelledNeverPublished
      BY SMT DEF Init, VisibleIsLatest, SearchReadsItsSession, CancelledNeverPublished
    <3>2. RequestsAccountedFor
      BY <2>3, SMT DEF Init, RequestsAccountedFor, One, Counters
    <3> QED
      BY <3>1, <3>2 DEF EndsAreTrue, PublishedIsTrue
  <2>5. BusyWorker
    BY SMT DEF Init, BusyWorker
  <2> QED
    BY <2>1, <2>2, <2>3, <2>4, <2>5 DEF IInv
<1>2. TypeOK' /\ IInv /\ [Next]_vars => IInv'
  <2> SUFFICES ASSUME TypeOK', IInv, [Next]_vars PROVE IInv'
    OBVIOUS
  <2>1. Next \/ UNCHANGED vars
    OBVIOUS
  <2>2. BusyWorker'
    BY <2>1, StepBusy, Zenon DEF IInv, Next, Done, vars, BusyWorker
  <2>3. WorkerHolds' /\ QueueIsLatest' /\ FlightIsLatest' /\ IndexIsBuilt' /\ RequestsAreApart'
    BY <2>1, StepHolds, StepQueue, StepFlight, StepIndex, StepApart
  <2>4. EndsAreTrue'
    BY <2>1, StepVisible, StepReads, StepCancelled, StepCounted DEF EndsAreTrue, PublishedIsTrue
  <2> QED
    BY <2>2, <2>3, <2>4 DEF IInv
<1> QED
  BY <1>1, <1>2, TypeCorrect, PTL DEF Spec

----------------------------------------------------------------------------
(* The theorems.                                                           *)

\* What the palette sees is of its newest request, was read from the index of its
\* session and was not cancelled, and every request has one end.
THEOREM EndsAlwaysTrue == Spec => []EndsAreTrue
<1>1. IInv => EndsAreTrue
  BY DEF IInv
<1> QED
  BY <1>1, Inductive, PTL

\* When cancelAndWaitIdle returns, the worker reads neither snapshot nor index.
THEOREM IdleIsMeant == Spec => IdleMeansIdle
<1>1. IInv /\ [Next]_vars =>
        [ui = "check" /\ ui' = "free" => worker \notin {"run", "publish"}]_vars
  <2> SUFFICES ASSUME IInv, Next, ui = "check", ui' = "free"
               PROVE  worker \notin {"run", "publish"}
    OBVIOUS
  <2>1. CASE WaitIdle
    BY <2>1, Zenon DEF WaitIdle, Idle, IInv, BusyWorker
  <2>2. CASE UNCHANGED ui \/ ui # "check" \/ ui' # "free"
    BY <2>2, SMT
  <2>3. NotifyIdle = "check"
    BY SMT DEF NotifyIdle
  <2>4. /\ UiStep => WaitIdle \/ UNCHANGED ui \/ ui # "check" \/ ui' # "free"
        /\ "check" # "free"
    BY SMT DEF UiStep, BeginSession, RequestSearch, ConsumeLatestSearch, Cancel, Destroy, Join
  <2>5. WorkerStep => UNCHANGED ui \/ ui' = NotifyIdle
    BY Zenon DEF WorkerStep, CreateBackend, Sleep, TakeBuild, TakeSearch, Run, PublishBuild,
                 PublishSearch, PublishThrows, FinishCommand, Exit, FailWorker
  <2>6. SpuriousWake \/ Done => UNCHANGED ui
    BY Zenon DEF SpuriousWake, Done, vars
  <2> QED
    BY <2>1, <2>2, <2>3, <2>4, <2>5, <2>6 DEF Next
<1> QED
  BY <1>1, Inductive, PTL DEF Spec, IdleMeansIdle

=============================================================================
