----------------------- MODULE AnalysisServiceProofs ------------------------
(***************************************************************************)
(* For any services, workers, limits and targets: the scheduler's books    *)
(* are those of the workers, nobody sleeps who could work, nothing reads an*)
(* image that is being changed, the bound on jobs holds, and a view gives  *)
(* up only when no answer is under way.                                    *)
(***************************************************************************)
EXTENDS AnalysisService, FiniteSetTheorems, SequenceTheorems,
        FunctionTheorems, WellFoundedInduction, TLAPS

----------------------------------------------------------------------------
(* The inductive invariant.                                                *)

\* No job, epoch or request is ahead of the counters, and a worker that is about
\* to publish has something to publish.
InTime ==
  /\ \A o \in Owner : epoch[o] <= calls + 1
  /\ \A o \in Owner : \A n \in DOMAIN queue[o] : queue[o][n].epoch <= epoch[o]
  /\ \A w \in Worker : pc[w] \in Busy => job[w].epoch <= epoch[Of(w)]
  /\ \A w \in Worker : pc[w] = "emit" => Remaining(w) # {}
  /\ \A t \in Target : want[t].id <= calls

\* While the interface waits for a service, or changes its image, nothing is queued
\* for it, and what still runs is of an older epoch: it will not be resumed.
Emptied ==
  ui.at \in {"waiting", "changing"} =>
    /\ queue[ui.of] = <<>>
    /\ \A w \in Worker : Of(w) = ui.of /\ pc[w] \in Busy => job[w].epoch # epoch[ui.of]

\* Of a view that has been idle for a frame no job is left, and after the drain no
\* answer.
IdleIsOver ==
  \A t \in Interactive : want[t].on /\ want[t].idle # 0 =>
    /\ ~PendingFor(t)
    /\ ui.at = "drained" /\ ui.of = OwnerOf[t] => ~Answered(t)

IInv ==
  TypeOK /\ InTime /\ ScheduleHolds /\ Emptied /\ ImageIsFree /\ IdleIsOver

----------------------------------------------------------------------------
(* Numbers, sequences and workers.                                         *)

\* A set of numbers has an earliest one.
LEMMA EarliestOf ==
  ASSUME NEW S \in SUBSET Nat, S # {}
  PROVE  Earliest(S) \in S /\ \A k \in S : Earliest(S) <= k
<1> DEFINE R == OpToRel(<, Nat)
<1>1. IsWellFoundedOn(R, Nat)
  BY NatLessThanWellFounded
<1>2. \A k, m \in Nat : k < m => <<k, m>> \in R
  BY DEF OpToRel
<1> HIDE DEF R
<1>3. PICK m \in S : \A k \in S : ~(<<k, m>> \in R)
  BY <1>1, WFMin
<1>4. ASSUME NEW k \in S PROVE m <= k
  <2>1. k \in Nat /\ m \in Nat /\ ~(k < m)
    BY <1>2, <1>3
  <2> QED
    BY <2>1
<1> QED
  BY <1>4 DEF Earliest

\* A bounded one has a latest.
LEMMA LatestOf ==
  ASSUME NEW n \in Nat, NEW S \in SUBSET (1 .. n), S # {}
  PROVE  Latest(S) \in S
<1> DEFINE T == {m \in Nat : \E k \in S : m = n - k}
<1>1. T \in SUBSET Nat /\ T # {}
  <2>1. PICK k \in 1 .. n : k \in S
    OBVIOUS
  <2>2. n - k \in T
    BY <2>1
  <2> QED
    BY <2>2
<1> HIDE DEF T
<1>2. Earliest(T) \in T /\ \A m \in T : Earliest(T) <= m
  BY <1>1, EarliestOf
<1>3. PICK k \in S : Earliest(T) = n - k
  BY <1>2 DEF T
<1>4. \A m \in S : m <= k
  BY <1>2, <1>3 DEF T
<1> QED
  BY <1>4 DEF Latest

\* A sequence without one of its entries.
LEMMA WithoutOne ==
  ASSUME NEW S, NEW s \in Seq(S), NEW i \in 1 .. Len(s)
  PROVE  RemoveAt(s, i) \in Seq(S) /\ Len(RemoveAt(s, i)) = Len(s) - 1
<1> DEFINE a == SubSeq(s, 1, i - 1)
           b == SubSeq(s, i + 1, Len(s))
<1>1. Len(s) \in Nat /\ \A j \in 1 .. Len(s) : s[j] \in S
  BY LenProperties, ElementOfSeq
<1>2. a \in Seq(S) /\ Len(a) = i - 1
  <2>1. 1 \in Int /\ i - 1 \in Int /\ \A j \in 1 .. i - 1 : s[j] \in S
    BY <1>1
  <2>2. a \in Seq(S) /\ Len(a) = IF 1 <= i - 1 THEN (i - 1) - 1 + 1 ELSE 0
    BY <2>1, SubSeqProperties
  <2> HIDE DEF a
  <2> QED
    BY <2>2
<1>3. b \in Seq(S) /\ Len(b) = Len(s) - i
  <2>1. i + 1 \in Int /\ Len(s) \in Int /\ \A j \in i + 1 .. Len(s) : s[j] \in S
    BY <1>1
  <2>2. b \in Seq(S) /\ Len(b) = IF i + 1 <= Len(s) THEN Len(s) - (i + 1) + 1 ELSE 0
    BY <2>1, SubSeqProperties
  <2> HIDE DEF b
  <2> QED
    BY <1>1, <2>2
<1>4. RemoveAt(s, i) = a \o b
  BY DEF RemoveAt
<1> HIDE DEF a, b
<1>5. a \o b \in Seq(S) /\ Len(a \o b) = Len(a) + Len(b)
  BY <1>2, <1>3, ConcatProperties
<1> QED
  BY <1>1, <1>2, <1>3, <1>4, <1>5

\* A sequence with one entry more in front or behind.
LEMMA WithOne ==
  ASSUME NEW S, NEW s \in Seq(S), NEW e \in S
  PROVE  /\ <<e>> \o s \in Seq(S) /\ Len(<<e>> \o s) = Len(s) + 1
         /\ Append(s, e) \in Seq(S) /\ Len(Append(s, e)) = Len(s) + 1
<1>1. <<e>> \in Seq(S) /\ Len(<<e>>) = 1
  OBVIOUS
<1>2. <<e>> \o s \in Seq(S) /\ Len(<<e>> \o s) = Len(<<e>>) + Len(s)
  BY <1>1, ConcatProperties
<1>3. Len(s) \in Nat
  BY LenProperties
<1>4. Append(s, e) \in Seq(S) /\ Len(Append(s, e)) = Len(s) + 1
  BY AppendProperties
<1> QED
  BY <1>1, <1>2, <1>3, <1>4

\* There are finitely many workers, each of a service.
LEMMA Workers == IsFiniteSet(Worker) /\ \A w \in Worker : Of(w) \in Owner
<1> DEFINE f == [o \in Owner |-> {o} \X (1 .. Capacity[o])]
           T == {{o} \X (1 .. Capacity[o]) : o \in Owner}
<1>1. IsFiniteSet(Owner) /\ Capacity \in [Owner -> Nat \ {0}]
  BY PoolAssumption
<1>2. f \in Surjection(Owner, T)
  BY DEF Surjection
<1>3. IsFiniteSet(T)
  BY <1>1, <1>2, FS_Surjection
<1>4. ASSUME NEW o \in Owner PROVE IsFiniteSet({o} \X (1 .. Capacity[o]))
  <2>1. IsFiniteSet({o})
    BY FS_Singleton
  <2>2. 1 \in Int /\ Capacity[o] \in Int
    BY <1>1
  <2>3. IsFiniteSet(1 .. Capacity[o])
    BY <2>2, FS_Interval
  <2> QED
    BY <2>1, <2>3, FS_Product
<1>5. \A U \in T : IsFiniteSet(U)
  BY <1>4
<1>6. IsFiniteSet(UNION T)
  BY <1>3, <1>5, FS_UNION
<1>7. Worker = UNION T
  BY DEF Worker
<1>8. ASSUME NEW w \in Worker PROVE Of(w) \in Owner
  <2>1. PICK o \in Owner : w \in {o} \X (1 .. Capacity[o])
    BY DEF Worker
  <2> QED
    BY <2>1 DEF Of
<1> QED
  BY <1>6, <1>7, <1>8

----------------------------------------------------------------------------
(* The invariant in parts.                                                 *)

Lists ==
  /\ queue \in [Owner -> Seq(Job)] /\ \A o \in Owner : queue[o] \in Seq(JobOf(o))
  /\ results \in [Owner -> Seq(Outcome)] /\ \A o \in Owner : results[o] \in Seq(OutcomeOf(o))
  /\ \A o \in Owner : Len(results[o]) <= MaxResults

Books ==
  /\ epoch \in [Owner -> 1 .. MaxCalls + 1] /\ quit \in [Owner -> BOOLEAN]
  /\ active \in [Owner -> BOOLEAN] /\ owners \subseteq Owner
  /\ calls \in 0 .. MaxCalls

Sums == admitted \in [Owner -> Nat] /\ running \in Nat

Steps == {"idle", "acquire", "claim", "release", "gone"} \cup Busy
Crew ==
  /\ asleep \subseteq {w \in Worker : pc[w] = "acquire"}
  /\ pc \in [Worker -> Steps] /\ yielded \in [Worker -> BOOLEAN]

Jobs ==
  /\ job \in [Worker -> Job \cup {NoJob}]
  /\ \A w \in Worker : IF pc[w] \in Busy THEN job[w] \in JobOf(Of(w)) ELSE job[w] = NoJob

Wants ==
  /\ want \in [Target -> [on : BOOLEAN, id : 0 .. MaxCalls, epoch : 0 .. MaxCalls + 1,
                          idle : Nat]]
  /\ ui \in [at : {"free", "waiting", "changing", "notify", "quit", "joining", "drained"},
             of : Owner]

\* The scheduler's books, its cache, and its sleepers.
Counts ==
  /\ running <= Limit /\ running = Cardinality(Admitted)
  /\ \A o \in Owner : admitted[o] = Cardinality({w \in Admitted : Of(w) = o})
Cached == Notifying \/ best = BestRunnable
Sleepers ==
  \A w \in asleep : Acquires(Of(w)) \/ Priority(Of(w)) = 3 => Notifying \/ Claiming

Freed == ui.at = "changing" => InFlight(ui.of) = 0 /\ queue[ui.of] = <<>>
Limited == \A o \in Owner : Len(queue[o]) + InFlight(o) <= MaxOutstanding
Departed == \A w \in Worker : Of(w) \notin owners => pc[w] = "gone"

LEMMA Parts ==
  /\ TypeOK <=> Lists /\ Books /\ Sums /\ best \in 0 .. 3 /\ Crew /\ Jobs /\ Wants
  /\ ScheduleHolds <=> Counts /\ Cached /\ Sleepers
  /\ ImageIsFree <=> Freed /\ Limited /\ Departed
<1>1. TypeOK <=> Lists /\ Books /\ Sums /\ best \in 0 .. 3 /\ Crew /\ Jobs /\ Wants
  BY Zenon DEF TypeOK, Lists, Books, Sums, Crew, Jobs, Wants, Steps
<1>2. ScheduleHolds <=> Counts /\ Cached /\ Sleepers
  BY Zenon DEF ScheduleHolds, Counts, Cached, Sleepers
<1>3. ImageIsFree <=> Freed /\ Limited /\ Departed
  BY Zenon DEF ImageIsFree, Freed, Limited, Departed
<1> QED
  BY <1>1, <1>2, <1>3, Zenon

----------------------------------------------------------------------------
(* The scheduler.                                                          *)

\* A worker that changes its step joins the admitted or leaves them.
LEMMA AdmittedMove ==
  ASSUME Crew, NEW w \in Worker, NEW s, pc' = [pc EXCEPT ![w] = s]
  PROVE  Admitted' = IF s \in Busy \cup {"claim", "release"} THEN Admitted \cup {w}
                     ELSE Admitted \ {w}
  BY DEF Admitted, Crew

LEMMA AdmittedFinite == IsFiniteSet(Admitted)
<1>1. Admitted \in SUBSET Worker
  BY DEF Admitted
<1> QED
  BY <1>1, Workers, FS_Subset

LEMMA CountsStay ==
  ASSUME Counts, Sums, UNCHANGED shares, Admitted' = Admitted
  PROVE  Counts' /\ Sums'
<1>1. running' = running /\ admitted' = admitted
  BY Zenon DEF shares
<1>2. \A o \in Owner : {w \in Admitted' : Of(w) = o} = {w \in Admitted : Of(w) = o}
  BY Zenon
<1> QED
  BY <1>1, <1>2 DEF Counts, Sums

LEMMA CountsJoin ==
  ASSUME Counts, Sums, NEW w \in Worker, w \notin Admitted, running < Limit,
         Admitted' = Admitted \cup {w}, running' = running + 1,
         admitted' = [admitted EXCEPT ![Of(w)] = @ + 1]
  PROVE  Counts' /\ Sums'
<1>1. Of(w) \in Owner
  BY Workers
<1>2. Limit \in Nat
  BY PoolAssumption
<1>3. Cardinality(Admitted') = Cardinality(Admitted) + 1
  BY AdmittedFinite, FS_AddElement
<1>4. ASSUME NEW o \in Owner
      PROVE  admitted'[o] = Cardinality({v \in Admitted' : Of(v) = o})
  <2> DEFINE A == {v \in Admitted : Of(v) = o}
  <2>1. IsFiniteSet(A)
    BY AdmittedFinite, FS_Subset
  <2>2. admitted[o] = Cardinality(A) /\ admitted[o] \in Nat
    BY DEF Counts, Sums
  <2>3. CASE Of(w) = o
    <3>1. {v \in Admitted' : Of(v) = o} = A \cup {w} /\ w \notin A
      BY <2>3
    <3>2. Cardinality(A \cup {w}) = Cardinality(A) + 1
      BY <2>1, <3>1, FS_AddElement
    <3>3. admitted'[o] = admitted[o] + 1
      BY <2>3 DEF Sums
    <3> HIDE DEF A
    <3> QED
      BY <2>2, <3>1, <3>2, <3>3
  <2>4. CASE Of(w) # o
    <3>1. {v \in Admitted' : Of(v) = o} = A
      BY <2>4
    <3>2. admitted'[o] = admitted[o]
      BY <2>4 DEF Sums
    <3> HIDE DEF A
    <3> QED
      BY <2>2, <3>1, <3>2
  <2> QED
    BY <2>3, <2>4
<1>5. admitted' \in [Owner -> Nat] /\ running' \in Nat
  BY <1>1 DEF Sums
<1>6. running' <= Limit
  BY <1>2 DEF Sums
<1> QED
  BY <1>3, <1>4, <1>5, <1>6 DEF Counts, Sums

LEMMA CountsLeave ==
  ASSUME Counts, Sums, NEW w \in Worker, w \in Admitted,
         Admitted' = Admitted \ {w}, running' = running - 1,
         admitted' = [admitted EXCEPT ![Of(w)] = @ - 1]
  PROVE  Counts' /\ Sums'
<1>1. Of(w) \in Owner
  BY Workers
<1>2. Limit \in Nat
  BY PoolAssumption
<1>3. IsFiniteSet(Admitted') /\ Cardinality(Admitted') = Cardinality(Admitted) - 1
  BY AdmittedFinite, FS_RemoveElement
<1>4. ASSUME NEW o \in Owner
      PROVE  /\ admitted'[o] = Cardinality({v \in Admitted' : Of(v) = o})
             /\ admitted'[o] \in Nat
  <2> DEFINE A == {v \in Admitted : Of(v) = o}
             B == {v \in Admitted' : Of(v) = o}
  <2>1. IsFiniteSet(A)
    BY AdmittedFinite, FS_Subset
  <2>2. admitted[o] = Cardinality(A) /\ admitted[o] \in Nat
    BY DEF Counts, Sums
  <2>3. IsFiniteSet(B)
    BY <1>3, FS_Subset
  <2>4. Cardinality(B) \in Nat
    BY <2>3, FS_CardinalityType
  <2>5. CASE Of(w) = o
    <3>1. B = A \ {w} /\ w \in A
      BY <2>5
    <3>2. Cardinality(A \ {w}) = Cardinality(A) - 1
      BY <2>1, <3>1, FS_RemoveElement
    <3>3. admitted'[o] = admitted[o] - 1
      BY <2>5 DEF Sums
    <3> HIDE DEF A, B
    <3>4. admitted'[o] = Cardinality(B) /\ admitted'[o] \in Nat
      BY <2>2, <2>4, <3>1, <3>2, <3>3
    <3> QED
      BY <3>4 DEF B
  <2>6. CASE Of(w) # o
    <3>1. B = A
      BY <2>6
    <3>2. admitted'[o] = admitted[o]
      BY <2>6 DEF Sums
    <3> HIDE DEF A, B
    <3>3. admitted'[o] = Cardinality(B) /\ admitted'[o] \in Nat
      BY <2>2, <3>1, <3>2
    <3> QED
      BY <3>3 DEF B
  <2> QED
    BY <2>5, <2>6
<1>5. Cardinality(Admitted') \in Nat
  BY <1>3, FS_CardinalityType
<1>6. DOMAIN admitted' = Owner /\ admitted' = [o \in Owner |-> admitted'[o]]
  BY DEF Sums
<1>7. admitted' \in [Owner -> Nat]
  BY <1>4, <1>6
<1>8. running' = Cardinality(Admitted') /\ running' \in Nat /\ running' <= Limit
  BY <1>2, <1>3, <1>5 DEF Counts, Sums
<1> QED
  BY <1>4, <1>7, <1>8 DEF Counts, Sums

UiStep ==
  \/ \E t \in Target : Request(t)
  \/ \E o \in Owner : Commands(o) \/ Drain(o)
  \/ Returns

\* The interface thread is no worker.
LEMMA UiLeaves == UiStep => UNCHANGED <<shares, workers>>
<1> USE DEF ByUi
<1>1. ASSUME NEW t \in Target, Request(t) PROVE UNCHANGED <<shares, workers>>
  BY <1>1, Zenon DEF Request
<1>2. ASSUME NEW o \in Owner, Commands(o) PROVE UNCHANGED <<shares, workers>>
  <2>1. CASE CancelPending(o) \/ CancelAndWait(o)
    BY <2>1, Zenon DEF CancelPending, CancelAndWait, Clear
  <2>2. CASE BumpEpoch(o) \/ SetActiveDocument(o) \/ Destroy(o)
    BY <2>2, Zenon DEF BumpEpoch, SetActiveDocument, Destroy
  <2> QED
    BY <1>2, <2>1, <2>2, Zenon DEF Commands
<1>3. ASSUME NEW o \in Owner, Drain(o) PROVE UNCHANGED <<shares, workers>>
  BY <1>3, Zenon DEF Drain
<1>4. CASE Idle \/ Changed \/ NotifyUi
  BY <1>4, Zenon DEF Idle, Changed, NotifyUi
<1>5. CASE Join
  BY <1>5, Zenon DEF Join
<1>6. CASE Check
  BY <1>6, Zenon DEF Check
<1> QED
  BY <1>1, <1>2, <1>3, <1>4, <1>5, <1>6, Zenon DEF UiStep, Returns

\* A step is the interface's or a worker's.
LEMMA Actors ==
  Next <=> UiStep \/ \E w \in Worker : Moves(w) \/ Pass(w) \/ Fail(w)
  BY Zenon DEF Next, UiStep

\* The worker works on: it stays admitted.
Works(w) == Stop(w) \/ Pass(w) \/ Emit(w) \/ Fail(w) \/ Finish(w)

LEMMA Deeds ==
  ASSUME NEW w \in Worker
  PROVE  Moves(w) \/ Pass(w) \/ Fail(w) <=>
           Acquire(w) \/ Wake(w) \/ Claim(w) \/ Works(w) \/ End(w) \/ Release(w)
  BY Zenon DEF Moves, Checkpoint, Works

\* Where a working worker is afterwards; only its job and the results change.
LEMMA WorkingOn ==
  ASSUME NEW w \in Worker, Works(w)
  PROVE  /\ pc[w] \in {"run", "emit"}
         /\ \E s \in Busy : pc' = [pc EXCEPT ![w] = s]
         /\ UNCHANGED <<queue, epoch, quit, active, owners, shares, best, asleep, want, ui, calls>>
<1>1. CASE Stop(w)
  BY <1>1, Zenon DEF Stop, Busy, service, Others
<1>2. CASE Pass(w)
  BY <1>2, Zenon DEF Pass, Busy, service, Others
<1>3. CASE Emit(w)
  BY <1>3, Zenon DEF Emit, Busy, Others
<1>4. CASE Fail(w)
  BY <1>4, Zenon DEF Fail, Busy, Others
<1>5. CASE Finish(w)
  BY <1>5, Zenon DEF Finish, Busy, service, Others
<1> QED
  BY <1>1, <1>2, <1>3, <1>4, <1>5, Zenon DEF Works

\* The books are kept.
LEMMA StepCounts ==
  ASSUME Counts, Sums, Crew, Next
  PROVE  Counts' /\ Sums'
<1>1. CASE UiStep
  <2>1. UNCHANGED shares /\ pc' = pc
    BY <1>1, UiLeaves, Zenon DEF workers
  <2>2. Admitted' = Admitted
    BY <2>1 DEF Admitted
  <2> QED
    BY <2>1, <2>2, CountsStay
<1>2. ASSUME NEW w \in Worker,
             Acquire(w) \/ Wake(w) \/ Claim(w) \/ Works(w) \/ End(w) \/ Release(w)
      PROVE  Counts' /\ Sums'
  <2>1. ASSUME UNCHANGED shares, NEW s, pc' = [pc EXCEPT ![w] = s],
               IF w \in Admitted THEN s \in Busy \cup {"claim", "release"}
               ELSE s \notin Busy \cup {"claim", "release"}
        PROVE  Counts' /\ Sums'
    <3>1. Admitted' = Admitted
      <4>1. Admitted' = IF s \in Busy \cup {"claim", "release"} THEN Admitted \cup {w}
                        ELSE Admitted \ {w}
        BY <2>1, AdmittedMove
      <4>2. CASE w \in Admitted
        BY <2>1, <4>1, <4>2
      <4>3. CASE w \notin Admitted
        BY <2>1, <4>1, <4>3
      <4> QED
        BY <4>2, <4>3
    <3> QED
      BY <2>1, <3>1, CountsStay
  <2>2. ASSUME NEW s, s \notin Busy \cup {"claim", "release"}, pc' = [pc EXCEPT ![w] = s],
               w \in Admitted, GiveBack(w)
        PROVE  Counts' /\ Sums'
    <3>1. Admitted' = Admitted \ {w}
      BY <2>2, AdmittedMove
    <3>2. running' = running - 1 /\ admitted' = [admitted EXCEPT ![Of(w)] = @ - 1]
      BY <2>2 DEF GiveBack
    <3> QED
      BY <2>2, <3>1, <3>2, CountsLeave
  <2>3. CASE Acquire(w)
    <3>1. pc[w] = "acquire" /\ w \notin Admitted
      BY <2>3 DEF Acquire, Admitted, Busy
    <3>2. CASE UNCHANGED shares /\ pc' = [pc EXCEPT ![w] = "idle"]
      BY <2>1, <3>1, <3>2 DEF Busy
    <3>3. CASE UNCHANGED shares /\ pc' = pc
      <4>1. Admitted' = Admitted
        BY <3>3 DEF Admitted
      <4> QED
        BY <3>3, <4>1, CountsStay
    <3>4. CASE /\ Acquires(Of(w)) /\ pc' = [pc EXCEPT ![w] = "claim"]
               /\ admitted' = [admitted EXCEPT ![Of(w)] = @ + 1] /\ running' = running + 1
      <4>1. Admitted' = Admitted \cup {w}
        BY <3>4, AdmittedMove
      <4>2. running < Limit
        BY <3>4 DEF Acquires
      <4> QED
        BY <3>1, <3>4, <4>1, <4>2, CountsJoin
    <3> QED
      BY <2>3, <3>2, <3>3, <3>4, Zenon DEF Acquire, shares
  <2>4. CASE Wake(w)
    <3>1. w \notin Admitted /\ UNCHANGED shares
      BY <2>4 DEF Wake, Admitted, Busy
    <3>2. pc' = [pc EXCEPT ![w] = IF quit[Of(w)] THEN "gone" ELSE "acquire"]
      BY <2>4, Zenon DEF Wake
    <3>3. (IF quit[Of(w)] THEN "gone" ELSE "acquire") \notin Busy \cup {"claim", "release"}
      BY DEF Busy
    <3> QED
      BY <2>1, <3>1, <3>2, <3>3
  <2>5. CASE Claim(w)
    <3>1. w \in Admitted
      BY <2>5 DEF Claim, Admitted
    <3>2. CASE quit[Of(w)] \/ queue[Of(w)] = <<>>
      <4>1. GiveBack(w) /\ pc' = [pc EXCEPT ![w] = IF quit[Of(w)] THEN "gone" ELSE "idle"]
        BY <2>5, <3>2, Zenon DEF Claim
      <4>2. (IF quit[Of(w)] THEN "gone" ELSE "idle") \notin Busy \cup {"claim", "release"}
        BY DEF Busy
      <4> QED
        BY <2>2, <3>1, <4>1, <4>2
    <3>3. CASE ~(quit[Of(w)] \/ queue[Of(w)] = <<>>)
      <4>1. UNCHANGED shares /\ pc' = [pc EXCEPT ![w] = "run"]
        BY <2>5, <3>3, Zenon DEF Claim
      <4> QED
        BY <2>1, <3>1, <4>1 DEF Busy
    <3> QED
      BY <3>2, <3>3
  <2>6. CASE Works(w)
    <3>1. w \in Admitted
      BY <2>6, WorkingOn DEF Admitted, Busy
    <3>2. PICK s \in Busy : pc' = [pc EXCEPT ![w] = s] /\ UNCHANGED shares
      BY <2>6, WorkingOn
    <3> QED
      BY <2>1, <3>1, <3>2
  <2>7. CASE End(w)
    <3>1. UNCHANGED shares /\ pc' = [pc EXCEPT ![w] = "release"]
      BY <2>7, Zenon DEF End, shares
    <3>2. w \in Admitted
      BY <2>7 DEF End, Admitted, Busy
    <3> QED
      BY <2>1, <3>1, <3>2
  <2>8. CASE Release(w)
    <3>1. GiveBack(w) /\ pc' = [pc EXCEPT ![w] = "idle"]
      BY <2>8, Zenon DEF Release
    <3>2. w \in Admitted
      BY <2>8 DEF Release, Admitted
    <3> QED
      BY <2>2, <3>1, <3>2 DEF Busy
  <2> QED
    BY <1>2, <2>3, <2>4, <2>5, <2>6, <2>7, <2>8
<1> QED
  BY <1>1, <1>2, Actors, Deeds, Zenon

\* The best of some ranks.
LEMMA BestRank ==
  ASSUME NEW S \in SUBSET (0 .. 3)
  PROVE  Earliest(S \cup {3}) \in 0 .. 3
<1>1. S \cup {3} \in SUBSET Nat /\ S \cup {3} # {} /\ S \cup {3} \in SUBSET (0 .. 3)
  OBVIOUS
<1>2. Earliest(S \cup {3}) \in S \cup {3}
  BY <1>1, EarliestOf
<1> QED
  BY <1>1, <1>2

LEMMA Ranks == \A o : Priority(o) \in 0 .. 3 /\ Priority(o)' \in 0 .. 3
  BY DEF Priority

LEMMA BestType == BestRunnable \in 0 .. 3 /\ BestRunnable' \in 0 .. 3
<1>1. Waiting \in SUBSET (0 .. 3) /\ Waiting' \in SUBSET (0 .. 3)
  BY Ranks DEF Waiting
<1> QED
  BY <1>1, BestRank DEF BestRunnable

\* What a rank depends on.
LEMMA RankStands ==
  ASSUME UNCHANGED <<queue, quit, active>>
  PROVE  \A o : Priority(o)' = Priority(o)
  BY DEF Priority, QueuedInteractive

LEMMA BestStands ==
  ASSUME UNCHANGED <<queue, quit, active, owners, admitted>>
  PROVE  BestRunnable' = BestRunnable
<1>1. \A o : Priority(o)' = Priority(o)
  BY RankStands
<1>2. Waiting' = Waiting
  BY <1>1 DEF Waiting
<1> QED
  BY <1>2, Zenon DEF BestRunnable

\* A notification: what is cached is true, and everybody is awake.
Told == best' = BestRunnable' /\ asleep' = {}

LEMMA TellsAll == Notify => Told
  BY Zenon DEF Notify, Refresh, Told

\* What the interface does to the scheduler.
LEMMA UiTells ==
  ASSUME UiStep
  PROVE  \/ Told
         \/ UNCHANGED <<queue, quit, active, owners, admitted, best, asleep>> /\ ui.at # "notify"
              /\ ui.at # "quit"
         \/ UNCHANGED <<queue, owners, admitted, best, asleep>> /\ Notifying'
<1>1. UNCHANGED <<admitted, running>>
  BY UiLeaves, Zenon DEF shares
<1>2. ASSUME NEW t \in Target, Request(t) PROVE Told
  BY <1>2, TellsAll, Zenon DEF Request
<1>3. ASSUME NEW o \in Owner, CancelPending(o) \/ CancelAndWait(o) PROVE Told
  BY <1>3, TellsAll, Zenon DEF CancelPending, CancelAndWait, Clear
<1>4. ASSUME NEW o \in Owner, BumpEpoch(o)
      PROVE  UNCHANGED <<queue, quit, active, owners, admitted, best, asleep>> /\ ui.at = "free"
  BY <1>1, <1>4, Zenon DEF BumpEpoch, Free, ByUi
<1>5. ASSUME NEW o \in Owner, SetActiveDocument(o) \/ Destroy(o)
      PROVE  /\ UNCHANGED <<queue, owners, admitted, best, asleep>>
             /\ ui' = [at |-> "notify", of |-> o] \/ ui' = [at |-> "quit", of |-> o]
  BY <1>1, <1>5, Zenon DEF SetActiveDocument, Destroy, Ui, ByUi, service
<1>6. ASSUME NEW o \in Owner, Drain(o)
      PROVE  UNCHANGED <<queue, quit, active, owners, admitted, best, asleep>> /\ ui.at = "free"
  BY <1>1, <1>6, Zenon DEF Drain, Free, ByUi
<1>7. CASE Idle \/ Changed \/ Check
  <2>1. UNCHANGED <<queue, quit, active, owners, admitted, best, asleep>>
    BY <1>1, <1>7, Zenon DEF Idle, Changed, Check, ByUi, service
  <2>2. ui.at = "waiting" \/ ui.at = "changing" \/ ui.at = "drained"
    BY <1>7, Zenon DEF Idle, Changed, Check
  <2> QED
    BY <2>1, <2>2
<1>8. CASE NotifyUi \/ Join
  BY <1>8, TellsAll, Zenon DEF NotifyUi, Join
<1>9. ASSUME NEW o \in Owner, ui' = [at |-> "notify", of |-> o] \/ ui' = [at |-> "quit", of |-> o]
      PROVE  Notifying'
  BY <1>9 DEF Notifying
<1>10. ASSUME ui.at = "free" PROVE ui.at # "notify" /\ ui.at # "quit"
  BY <1>10
<1> QED
  BY <1>2, <1>3, <1>4, <1>5, <1>6, <1>7, <1>8, <1>9, <1>10, Zenon
     DEF UiStep, Commands, Returns

\* What is cached of the priorities is true, but for a notification under way.
LEMMA StepCached ==
  ASSUME Cached, best \in 0 .. 3, Next
  PROVE  Cached' /\ best' \in 0 .. 3
<1>1. ASSUME best' = BestRunnable' PROVE Cached' /\ best' \in 0 .. 3
  BY <1>1, BestType, Zenon DEF Cached
<1>2. ASSUME UNCHANGED <<queue, quit, active, owners, admitted, best>>, Notifying => Notifying'
      PROVE  Cached' /\ best' \in 0 .. 3
  <2>1. BestRunnable' = BestRunnable
    BY <1>2, BestStands
  <2> QED
    BY <1>2, <2>1, Zenon DEF Cached
<1>3. CASE UiStep
  <2>1. CASE Told
    BY <1>1, <2>1, Zenon DEF Told
  <2>2. CASE UNCHANGED <<queue, quit, active, owners, admitted, best, asleep>> /\ ~Notifying
    BY <1>2, <2>2, Zenon
  <2>3. CASE UNCHANGED best /\ Notifying'
    BY <2>3, Zenon DEF Cached
  <2>4. ui.at # "notify" /\ ui.at # "quit" => ~Notifying
    BY DEF Notifying
  <2> QED
    BY <1>3, <2>1, <2>2, <2>3, <2>4, UiTells, Zenon
<1>4. ASSUME NEW w \in Worker, Acquire(w) PROVE Cached' /\ best' \in 0 .. 3
  <2>1. CASE Refresh
    BY <1>1, <2>1, Zenon DEF Refresh
  <2>2. CASE UNCHANGED <<shares, best>>
    <3>1. UNCHANGED <<queue, quit, active, owners, admitted, best, ui>>
      BY <1>4, <2>2, Zenon DEF Acquire, service, shares
    <3> QED
      BY <1>2, <3>1, Zenon DEF Notifying
  <2> QED
    BY <1>4, <2>1, <2>2, Zenon DEF Acquire
<1>5. ASSUME NEW w \in Worker, Wake(w) PROVE Cached' /\ best' \in 0 .. 3
  <2>1. UNCHANGED <<queue, quit, active, owners, admitted, best, ui>>
    BY <1>5, Zenon DEF Wake, Others, service, shares
  <2> QED
    BY <1>2, <2>1, Zenon DEF Notifying
<1>6. ASSUME NEW w \in Worker, Works(w) PROVE Cached' /\ best' \in 0 .. 3
  <2>1. UNCHANGED <<queue, quit, active, owners, admitted, best, ui>>
    BY <1>6, WorkingOn, Zenon DEF shares
  <2> QED
    BY <1>2, <2>1, Zenon DEF Notifying
<1>7. ASSUME NEW w \in Worker, Claim(w) \/ End(w) \/ Release(w) PROVE Told
  BY <1>7, TellsAll, Zenon DEF Claim, End, Release, GiveBack
<1> QED
  BY <1>1, <1>3, <1>4, <1>5, <1>6, <1>7, Actors, Deeds, Zenon DEF Told

\* Nobody sleeps who could be admitted, but for a notification under way.
LEMMA StepSleepers ==
  ASSUME Sleepers, Crew, Next
  PROVE  Sleepers'
<1>1. ASSUME Told PROVE Sleepers'
  BY <1>1 DEF Told, Sleepers
<1>2. ASSUME UNCHANGED <<queue, quit, active, shares, best>>,
             Notifying => Notifying', Claiming => Claiming',
             \A w \in asleep' \ asleep : ~Acquires(Of(w)) /\ Priority(Of(w)) # 3
      PROVE  Sleepers'
  <2>1. \A o : Priority(o)' = Priority(o)
    BY <1>2, RankStands
  <2>2. \A o : Acquires(o)' <=> Acquires(o)
    BY <1>2, <2>1, Zenon DEF Acquires, shares
  <2> QED
    BY <1>2, <2>1, <2>2, Zenon DEF Sleepers
<1>3. CASE UiStep
  <2>1. pc' = pc /\ UNCHANGED shares
    BY <1>3, UiLeaves, Zenon DEF workers
  <2>2. CASE UNCHANGED <<queue, quit, active, owners, admitted, best, asleep>> /\ ~Notifying
    BY <1>2, <2>1, <2>2, Zenon DEF Claiming
  <2>3. CASE Notifying'
    BY <2>3, Zenon DEF Sleepers
  <2>4. ui.at # "notify" /\ ui.at # "quit" => ~Notifying
    BY DEF Notifying
  <2> QED
    BY <1>1, <1>3, <2>2, <2>3, <2>4, UiTells, Zenon
<1>4. ASSUME NEW w \in Worker, NEW s, pc' = [pc EXCEPT ![w] = s], pc[w] # "claim"
      PROVE  Claiming => Claiming'
  BY <1>4 DEF Claiming, Crew
<1>5. ASSUME NEW w \in Worker, Acquire(w) PROVE Sleepers'
  <2>1. pc[w] # "claim" /\ UNCHANGED <<queue, quit, active, ui>>
    BY <1>5 DEF Acquire, service
  <2>2. CASE pc' = [pc EXCEPT ![w] = "idle"] /\ UNCHANGED <<shares, best, asleep>>
    BY <1>2, <1>4, <2>1, <2>2, Zenon DEF Notifying
  <2>3. CASE pc' = [pc EXCEPT ![w] = "claim"]
    <3>1. pc'[w] = "claim"
      BY <2>3 DEF Crew
    <3> QED
      BY <3>1, Zenon DEF Sleepers, Claiming
  <2>4. CASE /\ Priority(Of(w)) # 3 /\ ~Acquires(Of(w))
             /\ asleep' = asleep \cup {w} /\ UNCHANGED <<pc, shares, best>>
    <3>1. \A v \in asleep' \ asleep : v = w
      BY <2>4
    <3>2. \A v \in asleep' \ asleep : ~Acquires(Of(v)) /\ Priority(Of(v)) # 3
      BY <2>4, <3>1, Zenon
    <3>3. (Notifying => Notifying') /\ (Claiming => Claiming')
      BY <2>1, <2>4, Zenon DEF Notifying, Claiming
    <3> QED
      BY <1>2, <2>1, <2>4, <3>2, <3>3, Zenon
  <2> QED
    BY <1>5, <2>2, <2>3, <2>4, Zenon DEF Acquire
<1>6. ASSUME NEW w \in Worker, Wake(w) PROVE Sleepers'
  <2>1. /\ UNCHANGED <<queue, quit, active, shares, best, asleep, ui>> /\ pc[w] # "claim"
        /\ pc' = [pc EXCEPT ![w] = IF quit[Of(w)] THEN "gone" ELSE "acquire"]
    BY <1>6 DEF Wake, Others, service
  <2> QED
    BY <1>2, <1>4, <2>1, Zenon DEF Notifying
<1>7. ASSUME NEW w \in Worker, Works(w) PROVE Sleepers'
  <2>1. UNCHANGED <<queue, quit, active, shares, best, asleep, ui>>
    BY <1>7, WorkingOn, Zenon
  <2>2. PICK s \in Busy : pc' = [pc EXCEPT ![w] = s]
    BY <1>7, WorkingOn
  <2>3. pc[w] # "claim"
    BY <1>7, WorkingOn
  <2> QED
    BY <1>2, <1>4, <2>1, <2>2, <2>3, Zenon DEF Notifying
<1>8. ASSUME NEW w \in Worker, Claim(w) \/ End(w) \/ Release(w) PROVE Told
  BY <1>8, TellsAll, Zenon DEF Claim, End, Release, GiveBack
<1> QED
  BY <1>1, <1>3, <1>5, <1>6, <1>7, <1>8, Actors, Deeds, Zenon

\* Where the workers are.
LEMMA StepCrew ==
  ASSUME Crew, quit \in [Owner -> BOOLEAN], Next
  PROVE  Crew'
<1>1. ASSUME UNCHANGED pc, UNCHANGED yielded, asleep' = {} \/ asleep' = asleep PROVE Crew'
  BY <1>1 DEF Crew
<1>2. CASE UiStep
  <2>1. UNCHANGED <<pc, yielded>>
    BY <1>2, UiLeaves, Zenon DEF workers
  <2>2. asleep' = {} \/ asleep' = asleep
    BY <1>2, UiTells, Zenon DEF Told
  <2> QED
    BY <1>1, <2>1, <2>2
<1>3. ASSUME NEW w \in Worker, NEW s \in Steps, pc' = [pc EXCEPT ![w] = s],
             asleep' = {} \/ (asleep' = asleep /\ w \notin asleep),
             yielded' \in [Worker -> BOOLEAN]
      PROVE  Crew'
  BY <1>3 DEF Crew
<1>4. ASSUME NEW w \in Worker, pc[w] # "acquire" PROVE w \notin asleep
  BY <1>4 DEF Crew
<1>5. ASSUME NEW w \in Worker, Acquire(w) PROVE Crew'
  <2>1. w \notin asleep /\ pc[w] = "acquire" /\ yielded' = yielded
    BY <1>5, Zenon DEF Acquire
  <2>2. CASE pc' = [pc EXCEPT ![w] = "idle"] /\ asleep' = asleep
    BY <1>3, <2>1, <2>2 DEF Crew, Steps
  <2>3. CASE pc' = [pc EXCEPT ![w] = "claim"] /\ asleep' = asleep
    BY <1>3, <2>1, <2>3 DEF Crew, Steps
  <2>4. CASE pc' = pc /\ asleep' = asleep \cup {w}
    BY <2>1, <2>4 DEF Crew
  <2> QED
    BY <1>5, <2>2, <2>3, <2>4, Zenon DEF Acquire
<1>6. ASSUME NEW w \in Worker, Wake(w) PROVE Crew'
  <2>1. /\ pc[w] = "idle" /\ asleep' = asleep /\ yielded' = yielded
        /\ pc' = [pc EXCEPT ![w] = IF quit[Of(w)] THEN "gone" ELSE "acquire"]
    BY <1>6, Zenon DEF Wake
  <2>2. w \notin asleep
    BY <1>4, <2>1
  <2>3. (IF quit[Of(w)] THEN "gone" ELSE "acquire") \in Steps
    BY DEF Steps
  <2> QED
    BY <1>3, <2>1, <2>2, <2>3 DEF Crew
<1>7. ASSUME NEW w \in Worker, Claim(w) PROVE Crew'
  <2>1. asleep' = {}
    BY <1>7, TellsAll, Zenon DEF Claim, GiveBack, Told
  <2>2. CASE pc' = [pc EXCEPT ![w] = IF quit[Of(w)] THEN "gone" ELSE "idle"] /\ yielded' = yielded
    <3>1. (IF quit[Of(w)] THEN "gone" ELSE "idle") \in Steps
      BY DEF Steps
    <3> QED
      BY <1>3, <2>1, <2>2, <3>1 DEF Crew
  <2>3. CASE pc' = [pc EXCEPT ![w] = "run"] /\ yielded' = [yielded EXCEPT ![w] = FALSE]
    BY <1>3, <2>1, <2>3 DEF Crew, Steps, Busy
  <2> QED
    BY <1>7, <2>2, <2>3, Zenon DEF Claim
<1>8. ASSUME NEW w \in Worker, Works(w) PROVE Crew'
  <2>1. PICK s \in Busy : pc' = [pc EXCEPT ![w] = s]
    BY <1>8, WorkingOn
  <2>2. asleep' = asleep /\ w \notin asleep /\ s \in Steps
    BY <1>4, <1>8, WorkingOn DEF Steps
  <2>3. Old(w) \in BOOLEAN /\ Outranked(w) \in BOOLEAN
    BY Workers DEF Old, Outranked
  <2>4. \E b \in BOOLEAN : yielded' = [yielded EXCEPT ![w] = b] \/ yielded' = yielded
    BY <1>8, <2>3 DEF Works, Stop, Pass, Emit, Fail, Finish
  <2>5. yielded' \in [Worker -> BOOLEAN]
    BY <2>4 DEF Crew
  <2> QED
    BY <1>3, <2>1, <2>2, <2>5
<1>9. ASSUME NEW w \in Worker, End(w) PROVE Crew'
  <2>1. asleep' = {}
    BY <1>9, TellsAll, Zenon DEF End, Told
  <2>2. pc' = [pc EXCEPT ![w] = "release"] /\ yielded' = [yielded EXCEPT ![w] = FALSE]
    BY <1>9, Zenon DEF End
  <2> QED
    BY <1>3, <2>1, <2>2 DEF Crew, Steps
<1>10. ASSUME NEW w \in Worker, Release(w) PROVE Crew'
  <2>1. asleep' = {}
    BY <1>10, TellsAll, Zenon DEF Release, GiveBack, Told
  <2>2. pc' = [pc EXCEPT ![w] = "idle"] /\ yielded' = yielded
    BY <1>10, Zenon DEF Release
  <2> QED
    BY <1>3, <2>1, <2>2 DEF Crew, Steps
<1> QED
  BY <1>2, <1>5, <1>6, <1>7, <1>8, <1>9, <1>10, Actors, Deeds, Zenon

\* Workers whose service is gone have left before and stay away.
LEMMA StepDeparted ==
  ASSUME Departed, Crew, Next
  PROVE  Departed'
<1>1. CASE UiStep
  <2>1. pc' = pc
    BY <1>1, UiLeaves, Zenon DEF workers
  <2>2. CASE Join
    <3>1. /\ \A w \in Worker : Of(w) = ui.of => pc[w] = "gone"
          /\ owners' = owners \ {ui.of}
      BY <2>2, Zenon DEF Join
    <3> QED
      BY <2>1, <3>1 DEF Departed
  <2>3. ASSUME ~Join PROVE owners' = owners
    <3>1. ASSUME NEW t \in Target, Request(t) PROVE owners' = owners
      BY <3>1, Zenon DEF Request, ByUi
    <3>2. ASSUME NEW o \in Owner, Commands(o) \/ Drain(o) PROVE owners' = owners
      BY <3>2, Zenon DEF Commands, CancelPending, CancelAndWait, Clear, BumpEpoch,
                         SetActiveDocument, Destroy, Drain, ByUi
    <3>3. CASE Idle \/ Changed \/ NotifyUi \/ Check
      BY <3>3, Zenon DEF Idle, Changed, NotifyUi, Check, ByUi
    <3> QED
      BY <1>1, <2>3, <3>1, <3>2, <3>3, Zenon DEF UiStep, Returns
  <2> QED
    BY <2>1, <2>2, <2>3, Zenon DEF Departed
<1>2. ASSUME NEW w \in Worker,
             Acquire(w) \/ Wake(w) \/ Claim(w) \/ Works(w) \/ End(w) \/ Release(w)
      PROVE  Departed'
  <2>1. owners' = owners
    <3>1. CASE Works(w)
      BY <3>1, WorkingOn
    <3> QED
      BY <1>2, <3>1, Zenon DEF Acquire, Wake, Claim, End, Release, Others
  <2>2. pc[w] # "gone"
    <3>1. CASE Works(w)
      BY <3>1, WorkingOn
    <3> QED
      BY <1>2, <3>1 DEF Acquire, Wake, Claim, End, Release
  <2>3. pc' = pc \/ \E s : pc' = [pc EXCEPT ![w] = s]
    <3>1. CASE Works(w)
      BY <3>1, WorkingOn
    <3> QED
      BY <1>2, <3>1, Zenon DEF Acquire, Wake, Claim, End, Release
  <2> QED
    BY <2>1, <2>2, <2>3 DEF Departed, Crew
<1> QED
  BY <1>1, <1>2, Actors, Deeds, Zenon

----------------------------------------------------------------------------
(* The queues.                                                             *)

LEMMA FirstIs ==
  ASSUME NEW S, NEW q \in Seq(S), q # <<>>
  PROVE  FirstOf(q) \in 1 .. Len(q)
<1> DEFINE some == {n \in DOMAIN q : q[n].of \in Interactive}
<1>1. Len(q) \in Nat \ {0} /\ DOMAIN q = 1 .. Len(q)
  BY EmptySeq, LenProperties
<1>2. some \in SUBSET Nat /\ some \in SUBSET (1 .. Len(q))
  BY <1>1
<1>3. FirstOf(q) = IF some = {} THEN 1 ELSE Earliest(some)
  BY DEF FirstOf
<1> HIDE DEF some
<1>4. CASE some = {}
  BY <1>1, <1>3, <1>4
<1>5. CASE some # {}
  <2>1. Earliest(some) \in some
    BY <1>2, <1>5, EarliestOf
  <2> QED
    BY <1>2, <1>3, <1>5, <2>1
<1> QED
  BY <1>4, <1>5

\* A request adds its job, or replaces one, or refuses one of the two; the limit on
\* the jobs holds.
LEMMA Enqueued ==
  ASSUME NEW S, NEW o \in Owner, NEW j \in S, queue[o] \in Seq(S), InFlight(o) \in Nat,
         Len(queue[o]) + InFlight(o) <= MaxOutstanding
  PROVE  /\ Enqueue(o, j).q \in Seq(S)
         /\ Enqueue(o, j).refused \in S \cup {NoJob}
         /\ Len(Enqueue(o, j).q) + InFlight(o) <= MaxOutstanding
<1> DEFINE q == queue[o]
           e == Enqueue(o, j)
<1>1. q \in Seq(S) /\ Len(q) \in Nat /\ DOMAIN q = 1 .. Len(q)
  BY LenProperties
<1>2. Twins(q, j) \in SUBSET (1 .. Len(q)) /\ Displaced(q, j) \in SUBSET (1 .. Len(q))
  BY <1>1 DEF Twins, Displaced
<1>3. InFlight(o) \in Nat /\ MaxOutstanding \in Nat /\ Len(q) + InFlight(o) <= MaxOutstanding
  BY PoolAssumption
<1> HIDE DEF q
<1>4. CASE Twins(q, j) # {}
  <2> DEFINE n == Earliest(Twins(q, j))
  <2>1. Twins(q, j) \in SUBSET Nat
    BY <1>2
  <2>2. n \in 1 .. Len(q)
    BY <1>2, <1>4, <2>1, EarliestOf
  <2>3. e = [q |-> [q EXCEPT ![n] = j], refused |-> NoJob]
    BY <1>4 DEF Enqueue, q
  <2> HIDE DEF n, e
  <2>4. [q EXCEPT ![n] = j] \in Seq(S) /\ Len([q EXCEPT ![n] = j]) = Len(q)
    BY <1>1, <2>2, ExceptSeq
  <2>5. e.q = [q EXCEPT ![n] = j] /\ e.refused = NoJob
    BY <2>3
  <2> QED
    BY <1>3, <2>4, <2>5 DEF e
<1>5. CASE Twins(q, j) = {} /\ ~Full(o, q)
  <2>1. e = [q |-> Append(q, j), refused |-> NoJob]
    BY <1>5 DEF Enqueue, q
  <2>2. Append(q, j) \in Seq(S) /\ Len(Append(q, j)) = Len(q) + 1
    BY <1>1, WithOne
  <2>3. Len(q) + InFlight(o) < MaxOutstanding
    BY <1>1, <1>3, <1>5 DEF Full
  <2> HIDE DEF e
  <2>4. e.q = Append(q, j) /\ e.refused = NoJob
    BY <2>1
  <2> QED
    BY <1>1, <1>3, <2>2, <2>3, <2>4 DEF e
<1>6. CASE Twins(q, j) = {} /\ Full(o, q) /\ Displaced(q, j) = {}
  <2>1. e = [q |-> q, refused |-> j]
    BY <1>6 DEF Enqueue, q
  <2> HIDE DEF e
  <2>2. e.q = q /\ e.refused = j
    BY <2>1
  <2> QED
    BY <1>1, <1>3, <2>2 DEF e
<1>7. CASE Twins(q, j) = {} /\ Full(o, q) /\ Displaced(q, j) # {}
  <2> DEFINE n == Latest(Displaced(q, j))
             r == RemoveAt(q, n)
  <2>1. n \in 1 .. Len(q)
    BY <1>1, <1>2, <1>7, LatestOf
  <2>2. e = [q |-> Append(r, j), refused |-> q[n]]
    BY <1>7 DEF Enqueue, q
  <2> HIDE DEF n, e
  <2>3. r \in Seq(S) /\ Len(r) = Len(q) - 1
    BY <1>1, <2>1, WithoutOne
  <2> HIDE DEF r
  <2>4. Append(r, j) \in Seq(S) /\ Len(Append(r, j)) = Len(r) + 1
    BY <2>3, WithOne
  <2>5. q[n] \in S
    BY <1>1, <2>1, ElementOfSeq
  <2>6. e.q = Append(r, j) /\ e.refused = q[n]
    BY <2>2
  <2> QED
    BY <1>1, <1>3, <2>3, <2>4, <2>5, <2>6 DEF e
<1> QED
  BY <1>4, <1>5, <1>6, <1>7

----------------------------------------------------------------------------
(* Epochs, and the jobs of each.                                           *)

Clock == \A o \in Owner : epoch[o] <= calls + 1

\* The count of calls bounds the epochs, which only grow.
LEMMA StepBooks ==
  ASSUME Books, Clock, Next
  PROVE  Books' /\ Clock' /\ \A o \in Owner : epoch[o] <= epoch'[o]
<1>1. MaxCalls \in Nat
  BY PoolAssumption
<1>2. ASSUME UNCHANGED <<epoch, quit, active>>, owners' \subseteq owners, calls' \in 0 .. MaxCalls,
             calls <= calls'
      PROVE  Books' /\ Clock' /\ \A o \in Owner : epoch[o] <= epoch'[o]
  BY <1>1, <1>2 DEF Books, Clock
<1>3. calls \in 0 .. MaxCalls
  BY DEF Books
<1>4. ASSUME Counted PROVE calls' = calls + 1 /\ calls' \in 0 .. MaxCalls
  BY <1>1, <1>3, <1>4 DEF Counted
<1>5. ASSUME NEW o \in Owner, Counted, epoch' = [epoch EXCEPT ![o] = @ + 1],
             UNCHANGED <<quit, active, owners>>
      PROVE  Books' /\ Clock' /\ \A p \in Owner : epoch[p] <= epoch'[p]
  <2>1. calls' = calls + 1 /\ calls' \in 0 .. MaxCalls
    BY <1>4, <1>5
  <2>2. ASSUME NEW p \in Owner
        PROVE  /\ epoch[p] \in 1 .. MaxCalls + 1 /\ epoch'[p] \in 1 .. MaxCalls + 1
               /\ epoch[p] <= epoch'[p] /\ epoch'[p] <= calls' + 1
    <3>1. /\ epoch[p] \in 1 .. MaxCalls + 1 /\ epoch[p] <= calls + 1
          /\ epoch'[p] = IF p = o THEN epoch[p] + 1 ELSE epoch[p]
      BY <1>5 DEF Books, Clock
    <3> QED
      BY <1>1, <1>3, <2>1, <3>1
  <2>3. epoch' = [p \in Owner |-> epoch'[p]]
    BY <1>5 DEF Books
  <2>4. epoch' \in [Owner -> 1 .. MaxCalls + 1]
    BY <2>2, <2>3
  <2> QED
    BY <1>5, <2>1, <2>2, <2>4 DEF Books, Clock
<1>6. ASSUME NEW t \in Target, Request(t) PROVE UNCHANGED <<epoch, quit, active, owners>> /\ Counted
  BY <1>6, Zenon DEF Request, ByUi
<1>7. ASSUME NEW o \in Owner, CancelPending(o) \/ CancelAndWait(o) \/ BumpEpoch(o)
      PROVE  /\ Counted /\ epoch' = [epoch EXCEPT ![o] = @ + 1]
             /\ UNCHANGED <<quit, active, owners>>
  BY <1>7, Zenon DEF CancelPending, CancelAndWait, Clear, BumpEpoch, ByUi
<1>8. ASSUME NEW o \in Owner, SetActiveDocument(o) PROVE Books' /\ Clock' /\ epoch' = epoch
  <2>1. /\ Counted /\ UNCHANGED <<epoch, quit, owners>> /\ active' = [active EXCEPT ![o] = ~@]
    BY <1>8, Zenon DEF SetActiveDocument, service, ByUi
  <2> QED
    BY <1>1, <1>4, <2>1 DEF Books, Clock
<1>9. ASSUME NEW o \in Owner, Destroy(o) PROVE Books' /\ Clock' /\ epoch' = epoch
  <2>1. UNCHANGED <<epoch, calls, active, owners>> /\ quit' = [quit EXCEPT ![o] = TRUE]
    BY <1>9, Zenon DEF Destroy, ByUi
  <2> QED
    BY <2>1 DEF Books, Clock
<1>10. ASSUME NEW o \in Owner, Drain(o) PROVE UNCHANGED <<epoch, quit, active, owners, calls>>
  BY <1>10, Zenon DEF Drain, ByUi
<1>11. CASE Idle \/ Changed \/ NotifyUi \/ Check
  <2>1. UNCHANGED <<epoch, quit, active, owners, calls>>
    BY <1>11, Zenon DEF Idle, Changed, NotifyUi, Check, service, ByUi
  <2> QED
    BY <1>1, <1>2, <1>3, <2>1
<1>12. CASE Join
  <2>1. UNCHANGED <<epoch, quit, active, calls>> /\ owners' \subseteq owners
    BY <1>12 DEF Join
  <2> QED
    BY <1>1, <1>2, <1>3, <2>1
<1>13. ASSUME NEW w \in Worker,
              Acquire(w) \/ Wake(w) \/ Claim(w) \/ Works(w) \/ End(w) \/ Release(w)
       PROVE  UNCHANGED <<epoch, quit, active, owners, calls>>
  <2>1. CASE Works(w)
    BY <2>1, WorkingOn
  <2> QED
    BY <1>13, <2>1, Zenon DEF Acquire, Wake, Claim, End, Release, Others, service
<1>14. ASSUME UNCHANGED <<epoch, quit, active, owners, calls>>
       PROVE  Books' /\ Clock' /\ \A o \in Owner : epoch[o] <= epoch'[o]
  BY <1>2, <1>3, <1>14
<1>15. ASSUME UNCHANGED epoch PROVE \A o \in Owner : epoch[o] <= epoch'[o]
  BY <1>15 DEF Books
<1>16. ASSUME NEW t \in Target, Request(t)
       PROVE  Books' /\ Clock' /\ \A o \in Owner : epoch[o] <= epoch'[o]
  BY <1>2, <1>3, <1>4, <1>6, <1>16
<1>17. ASSUME NEW o \in Owner, Commands(o) \/ Drain(o)
       PROVE  Books' /\ Clock' /\ \A p \in Owner : epoch[p] <= epoch'[p]
  BY <1>5, <1>7, <1>8, <1>9, <1>10, <1>14, <1>15, <1>17, Zenon DEF Commands
<1> QED
  BY <1>11, <1>12, <1>13, <1>14, <1>16, <1>17, Actors, Deeds, Zenon DEF UiStep, Returns

\* Jobs of an epoch that has begun.
Known(o) == {j \in JobOf(o) : j.epoch <= epoch[o]}

Fresh ==
  /\ queue \in [Owner -> Seq(Job)] /\ \A o \in Owner : queue[o] \in Seq(Known(o))
  /\ job \in [Worker -> Job \cup {NoJob}]
  /\ \A w \in Worker : IF pc[w] \in Busy THEN job[w] \in Known(Of(w)) ELSE job[w] = NoJob
  /\ \A w \in Worker : pc[w] = "emit" => Remaining(w) # {}

Ids == \A t \in Target : want[t].id <= calls

Reported ==
  /\ results \in [Owner -> Seq(Outcome)] /\ \A o \in Owner : results[o] \in Seq(OutcomeOf(o))
  /\ \A o \in Owner : Len(results[o]) <= MaxResults

\* The types and times of the lists are those of their entries.
LEMMA FreshIs == TypeOK /\ InTime <=>
  Fresh /\ Reported /\ Books /\ Clock /\ Sums /\ best \in 0 .. 3 /\ Crew /\ Wants /\ Ids
<1>1. ASSUME TypeOK, InTime PROVE Fresh
  <2>1. ASSUME NEW o \in Owner PROVE queue[o] \in Seq(Known(o))
    <3>1. queue[o] \in Seq(JobOf(o)) /\ \A n \in DOMAIN queue[o] : queue[o][n].epoch <= epoch[o]
      BY <1>1, Zenon DEF TypeOK, InTime
    <3>2. \A n \in 1 .. Len(queue[o]) : queue[o][n] \in Known(o)
      BY <3>1, LenProperties, ElementOfSeq DEF Known
    <3>3. Len(queue[o]) \in Nat /\ DOMAIN queue[o] = 1 .. Len(queue[o])
          /\ queue[o] \in [1 .. Len(queue[o]) -> JobOf(o)]
      BY <3>1, LenProperties
    <3>4. queue[o] \in [1 .. Len(queue[o]) -> Known(o)]
      BY <3>2, <3>3
    <3> QED
      BY <3>3, <3>4, SeqDef
  <2>2. ASSUME NEW w \in Worker, pc[w] \in Busy PROVE job[w] \in Known(Of(w))
    <3>1. job[w] \in JobOf(Of(w)) /\ job[w].epoch <= epoch[Of(w)]
      BY <1>1, <2>2, Zenon DEF TypeOK, InTime
    <3> QED
      BY <3>1 DEF Known
  <2> QED
    BY <1>1, <2>1, <2>2, Zenon DEF TypeOK, InTime, Fresh
<1>2. ASSUME TypeOK, InTime
      PROVE  Reported /\ Books /\ Clock /\ Sums /\ best \in 0 .. 3 /\ Crew /\ Wants /\ Ids
  BY <1>2, Parts, Zenon DEF InTime, Clock, Ids, Lists, Reported
<1>3. ASSUME Fresh, Clock, Ids PROVE InTime
  <2>1. ASSUME NEW o \in Owner, NEW n \in DOMAIN queue[o] PROVE queue[o][n].epoch <= epoch[o]
    <3>1. queue[o] \in Seq(Known(o))
      BY <1>3, Zenon DEF Fresh
    <3>2. queue[o][n] \in Known(o)
      BY <3>1, LenProperties, ElementOfSeq
    <3> QED
      BY <3>2 DEF Known
  <2>2. ASSUME NEW w \in Worker, pc[w] \in Busy PROVE job[w].epoch <= epoch[Of(w)]
    <3>1. job[w] \in Known(Of(w))
      BY <1>3, <2>2, Zenon DEF Fresh
    <3> QED
      BY <3>1 DEF Known
  <2> QED
    BY <1>3, <2>1, <2>2, Zenon DEF InTime, Clock, Ids, Fresh
<1>4. ASSUME Fresh PROVE /\ \A o \in Owner : queue[o] \in Seq(JobOf(o))
                         /\ Jobs
  <2>1. \A o : Known(o) \subseteq JobOf(o)
    BY DEF Known
  <2>2. ASSUME NEW o \in Owner PROVE queue[o] \in Seq(JobOf(o))
    <3>1. queue[o] \in Seq(Known(o))
      BY <1>4, Zenon DEF Fresh
    <3> QED
      BY <2>1, <3>1, SeqMonotonic
  <2>3. Jobs
    BY <1>4, <2>1 DEF Fresh, Jobs
  <2> QED
    BY <2>2, <2>3
<1>5. ASSUME Fresh, Reported PROVE Lists
  BY <1>4, <1>5, Zenon DEF Fresh, Lists, Reported
<1> QED
  BY <1>1, <1>2, <1>3, <1>4, <1>5, Parts, Zenon

LEMMA InFlightNumber == \A o : InFlight(o) \in Nat
<1> SUFFICES ASSUME NEW o PROVE InFlight(o) \in Nat
  OBVIOUS
<1>1. {w \in Worker : Of(w) = o /\ pc[w] \in Busy} \in SUBSET Worker
  OBVIOUS
<1>2. IsFiniteSet({w \in Worker : Of(w) = o /\ pc[w] \in Busy})
  BY <1>1, Workers, FS_Subset
<1> QED
  BY <1>2, FS_CardinalityType DEF InFlight

\* The next pass is one that is left.
LEMMA NextPassIs ==
  ASSUME NEW w \in Worker, job[w] \in JobOf(Of(w)), Remaining(w) # {}
  PROVE  NextPass(w) \in All(job[w].of) /\ job[w].of \in Target
<1> DEFINE s == Passes[job[w].of]
<1>1. job[w].of \in Target
  BY DEF JobOf, Job
<1>2. s \in Seq(Range(s))
  BY <1>1, PoolAssumption
<1>3. DOMAIN s = 1 .. Len(s) /\ Len(s) \in Nat
  BY <1>2, LenProperties
<1>4. Remaining(w) \in SUBSET Nat /\ Remaining(w) \subseteq DOMAIN s
  BY <1>3 DEF Remaining
<1>5. Earliest(Remaining(w)) \in Remaining(w)
  BY <1>4, EarliestOf
<1>6. NextPass(w) \in Range(s)
  BY <1>4, <1>5 DEF NextPass, Range
<1> QED
  BY <1>1, <1>6 DEF All

\* A job of which one more pass is published.
LEMMA OneMorePass ==
  ASSUME NEW w \in Worker, job[w] \in Known(Of(w)), Remaining(w) # {}
  PROVE  [job[w] EXCEPT !.published = @ \cup {NextPass(w)}] \in Known(Of(w))
<1> DEFINE p == NextPass(w)
           j == job[w]
<1>1. job[w] \in JobOf(Of(w))
  BY DEF Known
<1>2. p \in All(j.of) /\ j.of \in Target
  BY <1>1, NextPassIs
<1>3. p \in Kinds
  BY <1>2 DEF Kinds
<1>4. j \in Job /\ OwnerOf[j.of] = Of(w) /\ j.published \subseteq All(j.of)
      /\ j.epoch <= epoch[Of(w)]
  BY DEF Known, JobOf
<1> HIDE DEF p, j
<1>5. [j EXCEPT !.published = @ \cup {p}] \in Job
  BY <1>3, <1>4 DEF Job
<1>6. /\ [j EXCEPT !.published = @ \cup {p}].of = j.of
      /\ [j EXCEPT !.published = @ \cup {p}].epoch = j.epoch
      /\ [j EXCEPT !.published = @ \cup {p}].published = j.published \cup {p}
  BY <1>4 DEF Job
<1>7. [j EXCEPT !.published = @ \cup {p}] \in JobOf(Of(w))
  BY <1>2, <1>4, <1>5, <1>6 DEF JobOf
<1>8. [j EXCEPT !.published = @ \cup {p}] \in Known(Of(w))
  BY <1>4, <1>6, <1>7 DEF Known
<1> QED
  BY <1>8 DEF p, j

\* Only the interface's calls end an epoch.
LEMMA KnownGrows ==
  ASSUME \A o \in Owner : epoch[o] <= epoch'[o], Books, Books', NEW o \in Owner
  PROVE  Known(o) \subseteq Known(o)'
<1>1. epoch[o] \in Nat /\ epoch'[o] \in Nat /\ epoch[o] <= epoch'[o]
  BY DEF Books
<1> QED
  BY <1>1 DEF Known, JobOf, Job

LEMMA KnownStands ==
  ASSUME UNCHANGED epoch
  PROVE  \A o : Known(o)' = Known(o)
  BY DEF Known

\* A worker that goes on with the job it has, or with none.
LEMMA FreshMove ==
  ASSUME Fresh, Crew, NEW w \in Worker, NEW s, pc' = [pc EXCEPT ![w] = s],
         pc[w] \in Busy <=> s \in Busy, s = "emit" => Remaining(w) # {},
         UNCHANGED <<queue, epoch, job>>
  PROVE  Fresh'
<1>1. \A o : Known(o)' = Known(o)
  BY KnownStands
<1>2. \A v \in Worker : pc'[v] = IF v = w THEN s ELSE pc[v]
  BY DEF Crew
<1>3. \A v \in Worker : Remaining(v)' = Remaining(v)
  BY DEF Remaining
<1>4. \A v \in Worker : IF pc'[v] \in Busy THEN job'[v] \in Known(Of(v))' ELSE job'[v] = NoJob
  BY <1>1, <1>2, Zenon DEF Fresh
<1>5. \A v \in Worker : pc'[v] = "emit" => Remaining(v)' # {}
  BY <1>2, <1>3, Zenon DEF Fresh
<1> QED
  BY <1>1, <1>4, <1>5, Zenon DEF Fresh

\* A worker that takes a job, or works on it, or gives it back.
LEMMA FreshWork ==
  ASSUME Fresh, Crew, NEW w \in Worker, NEW s, s # "emit", pc' = [pc EXCEPT ![w] = s],
         NEW j, job' = [job EXCEPT ![w] = j],
         IF s \in Busy THEN j \in Known(Of(w)) ELSE j = NoJob,
         NEW q \in Seq(Known(Of(w))), queue' = [queue EXCEPT ![Of(w)] = q],
         UNCHANGED epoch
  PROVE  Fresh'
<1>1. \A o : Known(o)' = Known(o) /\ Known(o) \subseteq Job
  BY KnownStands DEF Known, JobOf
<1>2. \A v \in Worker : pc'[v] = IF v = w THEN s ELSE pc[v]
  BY DEF Crew
<1>3. Of(w) \in Owner
  BY Workers
<1>4. \A o \in Owner : queue'[o] = IF o = Of(w) THEN q ELSE queue[o]
  BY <1>3 DEF Fresh
<1>5. q \in Seq(Job)
  BY <1>1, SeqMonotonic
<1>6. queue' \in [Owner -> Seq(Job)]
  BY <1>3, <1>5 DEF Fresh
<1>7. \A o \in Owner : queue'[o] \in Seq(Known(o)')
  BY <1>1, <1>4, Zenon DEF Fresh
<1>8. j \in Job \cup {NoJob}
  BY <1>1
<1>9. job' \in [Worker -> Job \cup {NoJob}] /\ \A v \in Worker : job'[v] = IF v = w THEN j ELSE job[v]
  BY <1>8 DEF Fresh
<1>10. ASSUME NEW v \in Worker
       PROVE  IF pc'[v] \in Busy THEN job'[v] \in Known(Of(v))' ELSE job'[v] = NoJob
  <2>1. Known(Of(v))' = Known(Of(v))
    BY <1>1
  <2>2. IF pc[v] \in Busy THEN job[v] \in Known(Of(v)) ELSE job[v] = NoJob
    BY Zenon DEF Fresh
  <2>3. /\ v = w => pc'[v] = s /\ job'[v] = j
        /\ v # w => pc'[v] = pc[v] /\ job'[v] = job[v]
    BY <1>2, <1>9
  <2> QED
    BY <2>1, <2>2, <2>3
<1>11. \A v \in Worker : v # w => Remaining(v)' = Remaining(v)
  BY <1>9 DEF Remaining
<1>12. \A v \in Worker : pc'[v] = "emit" => Remaining(v)' # {}
  BY <1>2, <1>11, Zenon DEF Fresh
<1> QED
  BY <1>6, <1>7, <1>9, <1>10, <1>12, Zenon DEF Fresh

LEMMA FreshWorker ==
  ASSUME Fresh, Crew, NEW w \in Worker,
         Acquire(w) \/ Wake(w) \/ Claim(w) \/ Works(w) \/ End(w) \/ Release(w)
  PROVE  Fresh'
<1> DEFINE o == Of(w)
           q == queue[o]
<1>1. o \in Owner /\ q \in Seq(Known(o))
  BY Workers DEF Fresh
<1>2. "idle" \notin Busy /\ "acquire" \notin Busy /\ "claim" \notin Busy /\ "gone" \notin Busy
      /\ "release" \notin Busy /\ "run" \in Busy /\ "emit" \in Busy /\ "end" \in Busy
  BY DEF Busy
<1>3. queue = [queue EXCEPT ![o] = q] /\ job = [job EXCEPT ![w] = job[w]]
  BY <1>1 DEF Fresh
<1>4. ASSUME UNCHANGED <<pc, queue, epoch, job>> PROVE Fresh'
  <2>1. \A p : Known(p)' = Known(p)
    BY <1>4, KnownStands
  <2>2. \A v : Remaining(v)' = Remaining(v)
    BY <1>4 DEF Remaining
  <2> QED
    BY <1>4, <2>1, <2>2, Zenon DEF Fresh
<1>5. CASE Acquire(w)
  <2>1. pc[w] = "acquire" /\ UNCHANGED <<queue, epoch, job>>
    BY <1>5, Zenon DEF Acquire, service
  <2>2. pc' = [pc EXCEPT ![w] = "idle"] \/ pc' = [pc EXCEPT ![w] = "claim"] \/ pc' = pc
    BY <1>5, Zenon DEF Acquire
  <2>3. "idle" # "emit" /\ "claim" # "emit"
    OBVIOUS
  <2> QED
    BY <1>2, <1>4, <2>1, <2>2, <2>3, FreshMove
<1>6. CASE Wake(w)
  <2> DEFINE s == IF quit[o] THEN "gone" ELSE "acquire"
  <2>1. pc[w] = "idle" /\ UNCHANGED <<queue, epoch, job>> /\ pc' = [pc EXCEPT ![w] = s]
    BY <1>6, Zenon DEF Wake, service
  <2>2. s \notin Busy /\ s # "emit"
    BY <1>2
  <2> HIDE DEF s
  <2> QED
    BY <1>2, <2>1, <2>2, FreshMove
<1>7. CASE Claim(w)
  <2>1. CASE quit[o] \/ q = <<>>
    <3> DEFINE s == IF quit[o] THEN "gone" ELSE "idle"
    <3>1. pc[w] = "claim" /\ UNCHANGED <<queue, epoch, job>> /\ pc' = [pc EXCEPT ![w] = s]
      BY <1>7, <2>1, Zenon DEF Claim
    <3>2. s \notin Busy /\ s # "emit"
      BY <1>2
    <3> HIDE DEF s
    <3> QED
      BY <1>2, <3>1, <3>2, FreshMove
  <2>2. CASE ~(quit[o] \/ q = <<>>)
    <3> DEFINE n == FirstOf(q)
               rest == RemoveAt(q, n)
    <3>1. /\ pc' = [pc EXCEPT ![w] = "run"] /\ job' = [job EXCEPT ![w] = q[n]]
          /\ queue' = [queue EXCEPT ![o] = RemoveAt(@, FirstOf(@))] /\ UNCHANGED epoch
      BY <1>7, <2>2, Zenon DEF Claim
    <3>2. n \in 1 .. Len(q)
      BY <1>1, <2>2, FirstIs
    <3>3. queue' = [queue EXCEPT ![o] = rest]
      BY <3>1
    <3> HIDE DEF n
    <3>4. rest \in Seq(Known(o)) /\ q[n] \in Known(o)
      BY <1>1, <3>2, WithoutOne, ElementOfSeq
    <3> HIDE DEF rest, q
    <3>5. "run" # "emit"
      OBVIOUS
    <3> QED
      BY <1>2, <3>1, <3>3, <3>4, <3>5, FreshWork
  <2> QED
    BY <2>1, <2>2
<1>8. CASE Works(w)
  <2>1. pc[w] \in {"run", "emit"} /\ UNCHANGED <<queue, epoch>>
    BY <1>8, WorkingOn
  <2>2. CASE Emit(w)
    <3> DEFINE j == [job[w] EXCEPT !.published = @ \cup {NextPass(w)}]
    <3>1. /\ pc[w] = "emit" /\ pc' = [pc EXCEPT ![w] = "run"]
          /\ job' = [job EXCEPT ![w].published = @ \cup {NextPass(w)}]
      BY <2>2, Zenon DEF Emit
    <3>2. job' = [job EXCEPT ![w] = j]
      BY <3>1
    <3>3. job[w] \in Known(o) /\ Remaining(w) # {}
      BY <1>2, <3>1, Zenon DEF Fresh
    <3>4. j \in Known(o)
      BY <3>3, OneMorePass
    <3>5. queue' = [queue EXCEPT ![o] = q] /\ "run" # "emit"
      BY <1>3, <2>1
    <3> HIDE DEF j, q
    <3> QED
      BY <1>1, <1>2, <2>1, <3>1, <3>2, <3>4, <3>5, FreshWork
  <2>3. CASE Pass(w)
    <3>1. pc' = [pc EXCEPT ![w] = "emit"] /\ Remaining(w) # {} /\ UNCHANGED job
      BY <2>3, Zenon DEF Pass
    <3> QED
      BY <1>2, <2>1, <3>1, FreshMove
  <2>4. CASE Stop(w) \/ Fail(w) \/ Finish(w)
    <3>1. pc' = [pc EXCEPT ![w] = "end"] /\ UNCHANGED job /\ "end" # "emit"
      BY <2>4 DEF Stop, Fail, Finish
    <3> QED
      BY <1>2, <2>1, <3>1, FreshMove
  <2> QED
    BY <1>8, <2>2, <2>3, <2>4, Zenon DEF Works
<1>9. CASE End(w)
  <2>1. /\ pc[w] = "end" /\ pc' = [pc EXCEPT ![w] = "release"]
        /\ job' = [job EXCEPT ![w] = NoJob] /\ UNCHANGED epoch
        /\ queue' = IF Resumes(w) THEN [queue EXCEPT ![o] = <<job[w]>> \o @] ELSE queue
    BY <1>9, Zenon DEF End
  <2>2. job[w] \in Known(o)
    BY <1>2, <2>1, Zenon DEF Fresh
  <2> DEFINE r == IF Resumes(w) THEN <<job[w]>> \o q ELSE q
  <2>3. r \in Seq(Known(o))
    BY <1>1, <2>2, WithOne
  <2>4. queue' = [queue EXCEPT ![o] = r]
    BY <1>3, <2>1
  <2>5. "release" # "emit"
    OBVIOUS
  <2> HIDE DEF r
  <2> QED
    BY <1>2, <2>1, <2>3, <2>4, <2>5, FreshWork
<1>10. CASE Release(w)
  <2>1. pc[w] = "release" /\ UNCHANGED <<queue, epoch, job>> /\ pc' = [pc EXCEPT ![w] = "idle"]
    BY <1>10, Zenon DEF Release, service
  <2> QED
    BY <1>2, <2>1, FreshMove
<1> QED
  BY <1>5, <1>6, <1>7, <1>8, <1>9, <1>10

\* What the interface does to the queues.
LEMMA FreshLists ==
  ASSUME Fresh, Books, Books', \A o \in Owner : epoch[o] <= epoch'[o], UNCHANGED <<pc, job>>,
         queue' \in [Owner -> Seq(Job)],
         \A o \in Owner : queue'[o] = queue[o] \/ queue'[o] \in Seq(Known(o))
  PROVE  Fresh'
<1>1. \A o \in Owner : Known(o) \subseteq Known(o)'
  BY KnownGrows
<1>2. ASSUME NEW o \in Owner PROVE queue'[o] \in Seq(Known(o)')
  <2>1. queue'[o] \in Seq(Known(o))
    BY Zenon DEF Fresh
  <2>2. Known(o) \subseteq Known(o)'
    BY <1>1
  <2> QED
    BY <2>1, <2>2, SeqMonotonic
<1>3. ASSUME NEW w \in Worker
      PROVE  IF pc'[w] \in Busy THEN job'[w] \in Known(Of(w))' ELSE job'[w] = NoJob
  <2>1. Known(Of(w)) \subseteq Known(Of(w))'
    BY <1>1, Workers
  <2>2. IF pc[w] \in Busy THEN job[w] \in Known(Of(w)) ELSE job[w] = NoJob
    BY Zenon DEF Fresh
  <2>3. pc'[w] = pc[w] /\ job'[w] = job[w]
    OBVIOUS
  <2> QED
    BY <2>1, <2>2, <2>3
<1>4. \A w : Remaining(w)' = Remaining(w)
  BY DEF Remaining
<1> QED
  BY <1>2, <1>3, <1>4, Zenon DEF Fresh

\* The job of a request.
LEMMA NewJobIs ==
  ASSUME Books, Wants, Ids, NEW t \in Target, calls < MaxCalls,
         NEW id, id = IF t \in Interactive THEN want[t].id + 1 ELSE 0
  PROVE  /\ NewJob(t, id) \in Known(OwnerOf[t]) /\ OwnerOf[t] \in Owner
         /\ id \in 0 .. MaxCalls /\ id <= calls + 1 /\ NewJob(t, id).of = t
<1>1. /\ OwnerOf[t] \in Owner /\ MaxCalls \in Nat /\ calls \in Nat
      /\ epoch[OwnerOf[t]] \in 1 .. MaxCalls + 1
  BY PoolAssumption DEF Books
<1>2. want[t].id \in Nat /\ want[t].id <= calls
  BY DEF Wants, Ids
<1>3. id \in 0 .. MaxCalls /\ id <= calls + 1
  BY <1>1, <1>2
<1>4. NewJob(t, id) = [of |-> t, epoch |-> epoch[OwnerOf[t]], id |-> id, published |-> {}]
  BY DEF NewJob
<1>5. NewJob(t, id) \in Job
  BY <1>1, <1>3, <1>4 DEF Job
<1>6. /\ NewJob(t, id).of = t /\ NewJob(t, id).published = {}
      /\ NewJob(t, id).epoch = epoch[OwnerOf[t]]
  BY <1>4
<1>7. NewJob(t, id) \in JobOf(OwnerOf[t])
  BY <1>5, <1>6 DEF JobOf
<1>8. NewJob(t, id) \in Known(OwnerOf[t])
  BY <1>1, <1>6, <1>7 DEF Known
<1> QED
  BY <1>1, <1>3, <1>6, <1>8

\* A request: the queue, and what is refused.
LEMMA Requested ==
  ASSUME Fresh, Books, Wants, Ids, Limited, NEW t \in Target, Request(t)
  PROVE  \E id \in 0 .. MaxCalls :
           LET o == OwnerOf[t]
               e == Enqueue(o, NewJob(t, id))
           IN  /\ o \in Owner /\ id <= calls + 1 /\ calls' = calls + 1 /\ calls < MaxCalls
               /\ NewJob(t, id) \in Known(o) /\ NewJob(t, id).of = t
               /\ queue' = [queue EXCEPT ![o] = e.q]
               /\ e.q \in Seq(Known(o)) /\ e.refused \in Known(o) \cup {NoJob}
               /\ Len(e.q) + InFlight(o) <= MaxOutstanding
               /\ IF e.refused = NoJob THEN UNCHANGED results
                  ELSE Publish(o, Result(e.refused, "failure"))
               /\ want' = IF Patience[t] = 0 THEN want
                          ELSE [want EXCEPT ![t] = [on |-> TRUE, id |-> id, epoch |-> epoch[o],
                                                    idle |-> 0]]
<1> DEFINE o == OwnerOf[t]
<1>1. PICK id : id = IF t \in Interactive THEN want[t].id + 1 ELSE 0
  OBVIOUS
<1> DEFINE e == Enqueue(o, NewJob(t, id))
<1>2. calls < MaxCalls /\ calls' = calls + 1
  BY Zenon DEF Request, Counted
<1>3. /\ queue' = [queue EXCEPT ![o] = e.q]
      /\ IF e.refused = NoJob THEN UNCHANGED results
         ELSE Publish(o, Result(e.refused, "failure"))
      /\ want' = IF Patience[t] = 0 THEN want
                 ELSE [want EXCEPT ![t] = [on |-> TRUE, id |-> id, epoch |-> epoch[o],
                                           idle |-> 0]]
  BY <1>1, Zenon DEF Request
<1>4. /\ NewJob(t, id) \in Known(o) /\ o \in Owner
      /\ id \in 0 .. MaxCalls /\ id <= calls + 1 /\ NewJob(t, id).of = t
  BY <1>1, <1>2, NewJobIs
<1>5. queue[o] \in Seq(Known(o)) /\ InFlight(o) \in Nat
      /\ Len(queue[o]) + InFlight(o) <= MaxOutstanding
  BY <1>4, InFlightNumber, Zenon DEF Fresh, Limited
<1>6. /\ e.q \in Seq(Known(o)) /\ e.refused \in Known(o) \cup {NoJob}
      /\ Len(e.q) + InFlight(o) <= MaxOutstanding
  BY <1>4, <1>5, Enqueued
<1> QED
  BY <1>2, <1>3, <1>4, <1>6, Zenon

LEMMA FreshUi ==
  ASSUME Fresh, Books, Books', \A o \in Owner : epoch[o] <= epoch'[o], Wants, Ids, Limited, UiStep
  PROVE  Fresh'
<1>1. UNCHANGED <<pc, job>>
  BY UiLeaves, Zenon DEF workers
<1>2. ASSUME NEW o \in Owner, NEW q, q \in Seq(Known(o)), queue' = [queue EXCEPT ![o] = q]
      PROVE  Fresh'
  <2>1. Known(o) \subseteq Job
    BY DEF Known, JobOf
  <2>2. q \in Seq(Job)
    BY <1>2, <2>1, SeqMonotonic
  <2>3. queue' \in [Owner -> Seq(Job)] /\ \A p \in Owner : queue'[p] = IF p = o THEN q ELSE queue[p]
    BY <1>2, <2>2 DEF Fresh
  <2>4. \A p \in Owner : queue'[p] = queue[p] \/ queue'[p] \in Seq(Known(p))
    BY <1>2, <2>3, Zenon
  <2> QED
    BY <1>1, <2>3, <2>4, FreshLists
<1>3. ASSUME queue' = queue PROVE Fresh'
  <2>1. queue' \in [Owner -> Seq(Job)]
    BY <1>3, Zenon DEF Fresh
  <2>2. \A o \in Owner : queue'[o] = queue[o]
    BY <1>3
  <2> QED
    BY <1>1, <2>1, <2>2, FreshLists
<1>4. \A S : <<>> \in Seq(S)
  BY EmptySeq
<1>5. ASSUME NEW t \in Target, Request(t) PROVE Fresh'
  <2>1. PICK id \in 0 .. MaxCalls :
          LET o == OwnerOf[t]
              e == Enqueue(o, NewJob(t, id))
          IN  o \in Owner /\ queue' = [queue EXCEPT ![o] = e.q] /\ e.q \in Seq(Known(o))
    BY <1>5, Requested, Zenon
  <2> QED
    BY <1>2, <2>1
<1>6. ASSUME NEW o \in Owner, CancelPending(o) \/ CancelAndWait(o)
      PROVE  Fresh'
  <2>1. queue' = [queue EXCEPT ![o] = <<>>]
    BY <1>6, Zenon DEF CancelPending, CancelAndWait, Clear
  <2> QED
    BY <1>2, <1>4, <2>1
<1>7. CASE Join
  <2>1. queue' = [queue EXCEPT ![ui.of] = <<>>]
    BY <1>7, Zenon DEF Join
  <2>2. ui.of \in Owner
    BY DEF Wants
  <2> QED
    BY <1>2, <1>4, <2>1, <2>2
<1>8. ASSUME NEW o \in Owner, BumpEpoch(o) \/ SetActiveDocument(o) \/ Destroy(o) \/ Drain(o)
      PROVE  queue' = queue
  BY <1>8, Zenon DEF BumpEpoch, SetActiveDocument, Destroy, Drain, service
<1>9. CASE Idle \/ Changed \/ NotifyUi \/ Check
  <2>1. queue' = queue
    BY <1>9, Zenon DEF Idle, Changed, NotifyUi, Check, service
  <2> QED
    BY <1>3, <2>1
<1> QED
  BY <1>3, <1>5, <1>6, <1>7, <1>8, <1>9, Zenon DEF UiStep, Commands, Returns

\* Jobs keep their type and their time.
LEMMA StepFresh ==
  ASSUME Fresh, Books, Books', \A o \in Owner : epoch[o] <= epoch'[o], Wants, Ids, Limited, Crew,
         Next
  PROVE  Fresh'
  BY FreshUi, FreshWorker, Actors, Deeds, Zenon

----------------------------------------------------------------------------
(* What the interface waits for.                                           *)

Mark == [on : BOOLEAN, id : 0 .. MaxCalls, epoch : 0 .. MaxCalls + 1, idle : Nat]
Stage == [at : {"free", "waiting", "changing", "notify", "quit", "joining", "drained"},
          of : Owner]

LEMMA RestIs == AtRest \in Stage /\ AtRest.at = "free"
<1>1. (CHOOSE o \in Owner : TRUE) \in Owner
  BY PoolAssumption
<1> QED
  BY <1>1 DEF AtRest, Stage

\* Giving up, or counting an idle frame, keeps a mark a mark.
LEMMA MarkStands ==
  ASSUME NEW m \in Mark, NEW n \in Nat
  PROVE  /\ [m EXCEPT !.on = FALSE, !.idle = 0] \in Mark
         /\ [m EXCEPT !.on = FALSE, !.idle = 0].id = m.id
         /\ [m EXCEPT !.on = FALSE] \in Mark /\ [m EXCEPT !.on = FALSE].id = m.id
         /\ [m EXCEPT !.idle = n] \in Mark /\ [m EXCEPT !.idle = n].id = m.id
  BY DEF Mark

\* Where the interface is.
LEMMA StepStage ==
  ASSUME ui \in Stage, Next
  PROVE  ui' \in Stage
<1>1. \A o \in Owner : /\ [at |-> "waiting", of |-> o] \in Stage /\ [at |-> "changing", of |-> o] \in Stage
                       /\ [at |-> "notify", of |-> o] \in Stage /\ [at |-> "quit", of |-> o] \in Stage
                       /\ [at |-> "drained", of |-> o] \in Stage
  BY DEF Stage
<1>2. [ui EXCEPT !.at = "joining"] \in Stage /\ ui.of \in Owner
  BY DEF Stage
<1>3. ASSUME NEW t \in Target, Request(t) PROVE ui' \in Stage
  BY <1>3, Zenon DEF Request
<1>4. ASSUME NEW o \in Owner, Commands(o) PROVE ui' \in Stage
  <2>1. CASE CancelPending(o) \/ BumpEpoch(o)
    BY <2>1, Zenon DEF CancelPending, BumpEpoch
  <2>2. CASE CancelAndWait(o)
    BY <1>1, <2>2, Zenon DEF CancelAndWait, Ui
  <2>3. CASE SetActiveDocument(o)
    BY <1>1, <2>3, Zenon DEF SetActiveDocument, Ui
  <2>4. CASE Destroy(o)
    BY <1>1, <2>4, Zenon DEF Destroy, Ui
  <2> QED
    BY <1>4, <2>1, <2>2, <2>3, <2>4, Zenon DEF Commands
<1>5. ASSUME NEW o \in Owner, Drain(o) PROVE ui' \in Stage
  BY <1>1, <1>5, Zenon DEF Drain, Ui
<1>6. CASE Idle
  BY <1>1, <1>2, <1>6, Zenon DEF Idle, Ui
<1>7. CASE Changed \/ NotifyUi \/ Join \/ Check
  BY <1>2, <1>7, RestIs, Zenon DEF Changed, NotifyUi, Join, Check
<1>8. ASSUME NEW w \in Worker,
             Acquire(w) \/ Wake(w) \/ Claim(w) \/ Works(w) \/ End(w) \/ Release(w)
      PROVE  ui' \in Stage
  <2>1. CASE Works(w)
    BY <2>1, WorkingOn
  <2> QED
    BY <1>8, <2>1, Zenon DEF Acquire, Wake, Claim, End, Release, Others
<1> QED
  BY <1>3, <1>4, <1>5, <1>6, <1>7, <1>8, Actors, Deeds, Zenon DEF UiStep, Returns

\* The marks, and the numbers of the requests.
LEMMA StepWants ==
  ASSUME Fresh, Books, Wants, Ids, Limited, Next
  PROVE  Wants' /\ Ids'
<1>1. /\ want \in [Target -> Mark] /\ ui \in Stage
      /\ calls \in Nat /\ \A t \in Target : want[t].id \in Nat /\ want[t].id <= calls
  <2>1. want \in [Target -> Mark] /\ ui \in Stage
    BY DEF Wants, Mark, Stage
  <2>2. calls \in Nat
    BY DEF Books
  <2>3. \A t \in Target : want[t].id \in Nat /\ want[t].id <= calls
    BY <2>1 DEF Mark, Ids
  <2> QED
    BY <2>1, <2>2, <2>3
<1>2. ui' \in Stage
  BY <1>1, StepStage
<1>3. ASSUME want' \in [Target -> Mark], \A t \in Target : want'[t].id <= calls'
      PROVE  Wants' /\ Ids'
  BY <1>2, <1>3 DEF Wants, Mark, Stage, Ids
<1>4. ASSUME UNCHANGED want, calls' = calls \/ calls' = calls + 1
      PROVE  Wants' /\ Ids'
  <2>1. \A t \in Target : want'[t].id <= calls'
    BY <1>1, <1>4
  <2> QED
    BY <1>1, <1>3, <1>4, <2>1
<1>5. ASSUME calls' = calls \/ calls' = calls + 1,
             want' = [t \in Target |-> want'[t]],
             \A t \in Target : \/ want'[t] = want[t]
                               \/ want'[t] = [want[t] EXCEPT !.on = FALSE, !.idle = 0]
                               \/ want'[t] = [want[t] EXCEPT !.on = FALSE]
                               \/ \E n \in Nat : want'[t] = [want[t] EXCEPT !.idle = n]
      PROVE  Wants' /\ Ids'
  <2>1. ASSUME NEW t \in Target PROVE want'[t] \in Mark /\ want'[t].id = want[t].id
    <3>1. want[t] \in Mark /\ 0 \in Nat
      BY <1>1
    <3> DEFINE m == want[t]
               n == want'[t]
    <3>2. \/ n = m
          \/ n = [m EXCEPT !.on = FALSE, !.idle = 0]
          \/ n = [m EXCEPT !.on = FALSE]
          \/ \E k \in Nat : n = [m EXCEPT !.idle = k]
      BY <1>5
    <3>3. m \in Mark
      BY <3>1
    <3> HIDE DEF m, n
    <3>4. n \in Mark /\ n.id = m.id
      BY <3>2, <3>3, MarkStands
    <3> QED
      BY <3>4 DEF m, n
  <2>2. want' \in [Target -> Mark]
    BY <1>5, <2>1
  <2>3. ASSUME NEW t \in Target PROVE want'[t].id <= calls'
    <3>1. /\ want'[t].id = want[t].id /\ want[t].id \in Nat /\ want[t].id <= calls
          /\ calls' = calls \/ calls' = calls + 1
      BY <1>1, <1>5, <2>1
    <3> QED
      BY <1>1, <3>1
  <2> QED
    BY <1>3, <2>2, <2>3
<1>6. ASSUME NEW t \in Target, Request(t) PROVE Wants' /\ Ids'
  <2>1. PICK id \in 0 .. MaxCalls :
          /\ OwnerOf[t] \in Owner /\ id <= calls + 1 /\ calls' = calls + 1
          /\ want' = IF Patience[t] = 0 THEN want
                     ELSE [want EXCEPT ![t] = [on |-> TRUE, id |-> id,
                                               epoch |-> epoch[OwnerOf[t]], idle |-> 0]]
    BY <1>6, Requested, Zenon
  <2> DEFINE m == [on |-> TRUE, id |-> id, epoch |-> epoch[OwnerOf[t]], idle |-> 0]
  <2>2. m \in Mark /\ m.id = id
    BY <2>1, PoolAssumption DEF Books, Mark
  <2>3. CASE want' = want
    BY <1>4, <2>1, <2>3
  <2>4. CASE want' = [want EXCEPT ![t] = m]
    <3> HIDE DEF m
    <3>1. want' \in [Target -> Mark] /\ \A u \in Target : want'[u] = IF u = t THEN m ELSE want[u]
      BY <1>1, <2>2, <2>4
    <3>2. \A u \in Target : want'[u].id <= calls'
      BY <1>1, <2>1, <2>2, <3>1
    <3> QED
      BY <1>3, <3>1, <3>2
  <2> QED
    BY <2>1, <2>3, <2>4
<1>7. ASSUME NEW o \in Owner, CancelPending(o) \/ CancelAndWait(o) PROVE Wants' /\ Ids'
  <2>1. want' = Unmarked(o) /\ calls' = calls + 1
    BY <1>7, Zenon DEF CancelPending, CancelAndWait, Clear, Counted
  <2> QED
    BY <1>5, <2>1 DEF Unmarked
<1>8. ASSUME NEW o \in Owner, BumpEpoch(o) \/ SetActiveDocument(o) \/ Destroy(o)
      PROVE  UNCHANGED want /\ (calls' = calls \/ calls' = calls + 1)
  BY <1>8, Zenon DEF BumpEpoch, SetActiveDocument, Destroy, Counted
<1>9. ASSUME NEW o \in Owner, Drain(o) PROVE Wants' /\ Ids'
  <2>1. /\ want' = [t \in Target |->
              IF \E n \in DOMAIN results[o] : Answers(results[o][n], t)
              THEN [want[t] EXCEPT !.on = FALSE, !.idle = 0] ELSE want[t]]
        /\ calls' = calls
    BY <1>9, Zenon DEF Drain
  <2> QED
    BY <1>5, <2>1
<1>10. CASE Idle \/ Changed \/ NotifyUi
  BY <1>4, <1>10, Zenon DEF Idle, Changed, NotifyUi
<1>11. CASE Join
  <2>1. /\ want' = [t \in Target |-> IF OwnerOf[t] = ui.of THEN [want[t] EXCEPT !.on = FALSE]
                                     ELSE want[t]]
        /\ calls' = calls
    BY <1>11, Zenon DEF Join
  <2> QED
    BY <1>5, <2>1
<1>12. CASE Check
  <2>1. /\ want' = [t \in Target |->
              IF OwnerOf[t] # ui.of \/ ~want[t].on THEN want[t]
              ELSE IF GivenUp(t) THEN [want[t] EXCEPT !.on = FALSE, !.idle = 0]
              ELSE [want[t] EXCEPT !.idle = Idles(t)]]
        /\ calls' = calls
    BY <1>12, Zenon DEF Check
  <2>2. \A t \in Target : Idles(t) \in Nat
    BY <1>1 DEF Idles, Mark
  <2> QED
    BY <1>5, <2>1, <2>2
<1>13. ASSUME NEW w \in Worker,
              Acquire(w) \/ Wake(w) \/ Claim(w) \/ Works(w) \/ End(w) \/ Release(w)
       PROVE  UNCHANGED <<want, calls>>
  <2>1. CASE Works(w)
    BY <2>1, WorkingOn
  <2> QED
    BY <1>13, <2>1, Zenon DEF Acquire, Wake, Claim, End, Release, Others
<1> QED
  BY <1>4, <1>6, <1>7, <1>8, <1>9, <1>10, <1>11, <1>12, <1>13, Actors, Deeds, Zenon
     DEF UiStep, Commands, Returns

----------------------------------------------------------------------------
(* What is reported.                                                       *)

LEMMA ResultIs ==
  ASSUME NEW o, NEW j \in JobOf(o), NEW what \in All(j.of) \cup {"failure"}
  PROVE  Result(j, what) \in OutcomeOf(o)
<1>1. /\ j.of \in Target /\ j.epoch \in 1 .. MaxCalls + 1 /\ j.id \in 0 .. MaxCalls
      /\ OwnerOf[j.of] = o
  BY DEF JobOf, Job
<1>2. what \in Kinds \cup {"failure"}
  BY <1>1 DEF Kinds
<1>3. Result(j, what) = [of |-> j.of, epoch |-> j.epoch, id |-> j.id, what |-> what]
  BY DEF Result
<1>4. Result(j, what) \in Outcome
  BY <1>1, <1>2, <1>3 DEF Outcome
<1>5. Result(j, what).of = j.of /\ Result(j, what).what = what
  BY <1>3
<1> QED
  BY <1>1, <1>4, <1>5 DEF OutcomeOf

\* The results of one service change.
LEMMA ReportedBy ==
  ASSUME Reported, NEW o \in Owner, NEW s \in Seq(OutcomeOf(o)), Len(s) <= MaxResults,
         results' = [results EXCEPT ![o] = s]
  PROVE  Reported'
<1>1. OutcomeOf(o) \subseteq Outcome
  BY DEF OutcomeOf
<1>2. s \in Seq(Outcome)
  BY <1>1, SeqMonotonic
<1>3. results' \in [Owner -> Seq(Outcome)] /\ \A p \in Owner : results'[p] = IF p = o THEN s ELSE results[p]
  BY <1>2 DEF Reported
<1> QED
  BY <1>3, Zenon DEF Reported

LEMMA ReportedEmpty ==
  ASSUME Reported, NEW o \in Owner, results' = [results EXCEPT ![o] = <<>>]
  PROVE  Reported'
<1>1. <<>> \in Seq(OutcomeOf(o)) /\ Len(<<>>) <= MaxResults
  BY PoolAssumption, EmptySeq
<1> QED
  BY <1>1, ReportedBy

LEMMA Published ==
  ASSUME Reported, NEW o \in Owner, NEW r \in OutcomeOf(o), Publish(o, r)
  PROVE  Reported'
<1> DEFINE s == results[o]
           a == Append(s, r)
<1>1. s \in Seq(OutcomeOf(o)) /\ Len(s) <= MaxResults /\ MaxResults \in Nat
  BY PoolAssumption, Zenon DEF Reported
<1>2. results' = [results EXCEPT ![o] = Bounded(a)]
  BY DEF Publish
<1>3. Bounded(a) = IF Len(a) > MaxResults THEN Tail(a) ELSE a
  BY DEF Bounded
<1> HIDE DEF s
<1>4. Len(s) \in Nat
  BY <1>1, LenProperties
<1>5. a \in Seq(OutcomeOf(o)) /\ Len(a) = Len(s) + 1
  BY <1>1, WithOne
<1> HIDE DEF a
<1>6. Bounded(a) \in Seq(OutcomeOf(o)) /\ Len(Bounded(a)) <= MaxResults
  <2>1. CASE Len(a) > MaxResults
    <3>1. a # <<>>
      BY <1>4, <1>5, EmptySeq
    <3>2. Tail(a) \in Seq(OutcomeOf(o)) /\ Len(Tail(a)) = Len(a) - 1
      BY <1>5, <3>1, HeadTailProperties
    <3> QED
      BY <1>1, <1>3, <1>4, <1>5, <2>1, <3>2
  <2>2. CASE ~(Len(a) > MaxResults)
    BY <1>1, <1>3, <1>4, <1>5, <2>2
  <2> QED
    BY <2>1, <2>2
<1> QED
  BY <1>2, <1>6, ReportedBy

\* The results keep their type and their bound.
LEMMA StepReported ==
  ASSUME Reported, Fresh, Books, Wants, Ids, Limited, Next
  PROVE  Reported'
<1>1. ASSUME UNCHANGED results PROVE Reported'
  BY <1>1, Zenon DEF Reported
<1>2. \A o : Known(o) \subseteq JobOf(o)
  BY DEF Known
<1>3. ASSUME NEW t \in Target, Request(t) PROVE Reported'
  <2>1. PICK id \in 0 .. MaxCalls :
          LET o == OwnerOf[t]
              e == Enqueue(o, NewJob(t, id))
          IN  /\ o \in Owner /\ e.refused \in Known(o) \cup {NoJob}
              /\ IF e.refused = NoJob THEN UNCHANGED results
                 ELSE Publish(o, Result(e.refused, "failure"))
    BY <1>3, Requested, Zenon
  <2> DEFINE o == OwnerOf[t]
             j == Enqueue(o, NewJob(t, id)).refused
  <2>2. CASE j = NoJob
    BY <1>1, <2>1, <2>2
  <2>3. CASE j # NoJob
    <3>1. Publish(o, Result(j, "failure"))
      BY <2>1, <2>3
    <3>2. j \in JobOf(o)
      BY <1>2, <2>1, <2>3
    <3>3. Result(j, "failure") \in OutcomeOf(o)
      BY <3>2, ResultIs
    <3> QED
      BY <2>1, <3>1, <3>3, Published
  <2> QED
    BY <2>2, <2>3
<1>4. ASSUME NEW o \in Owner, CancelPending(o) \/ CancelAndWait(o) \/ Drain(o)
      PROVE  Reported'
  <2>1. results' = [results EXCEPT ![o] = <<>>]
    BY <1>4, Zenon DEF CancelPending, CancelAndWait, Clear, Drain
  <2> QED
    BY <2>1, ReportedEmpty
<1>5. CASE Join
  <2>1. results' = [results EXCEPT ![ui.of] = <<>>] /\ ui.of \in Owner
    BY <1>5 DEF Join, Wants
  <2> QED
    BY <2>1, ReportedEmpty
<1>6. ASSUME NEW o \in Owner, BumpEpoch(o) \/ SetActiveDocument(o) \/ Destroy(o)
      PROVE  UNCHANGED results
  BY <1>6, Zenon DEF BumpEpoch, SetActiveDocument, Destroy, service
<1>7. CASE Idle \/ Changed \/ NotifyUi \/ Check
  BY <1>1, <1>7, Zenon DEF Idle, Changed, NotifyUi, Check, service
<1>8. ASSUME NEW w \in Worker, Emit(w) \/ Fail(w) PROVE Reported'
  <2>1. pc[w] \in Busy /\ Remaining(w) # {}
    BY <1>8 DEF Emit, Fail, Busy, Fresh
  <2>2. job[w] \in JobOf(Of(w)) /\ Of(w) \in Owner
    BY <1>2, <2>1, Workers, Zenon DEF Fresh
  <2>3. NextPass(w) \in All(job[w].of)
    BY <2>1, <2>2, NextPassIs
  <2>4. Publish(Of(w), Result(job[w], NextPass(w))) \/ Publish(Of(w), Result(job[w], "failure"))
    BY <1>8, Zenon DEF Emit, Fail
  <2>5. /\ Result(job[w], NextPass(w)) \in OutcomeOf(Of(w))
        /\ Result(job[w], "failure") \in OutcomeOf(Of(w))
    BY <2>2, <2>3, ResultIs
  <2> QED
    BY <2>2, <2>4, <2>5, Published
<1>9. ASSUME NEW w \in Worker,
             Acquire(w) \/ Wake(w) \/ Claim(w) \/ Works(w) \/ End(w) \/ Release(w)
      PROVE  Reported'
  <2>1. CASE Stop(w) \/ Pass(w) \/ Finish(w)
    BY <1>1, <2>1, Zenon DEF Stop, Pass, Finish, service
  <2>2. CASE Acquire(w) \/ Wake(w) \/ Claim(w) \/ End(w) \/ Release(w)
    BY <1>1, <2>2, Zenon DEF Acquire, Wake, Claim, End, Release, service
  <2> QED
    BY <1>8, <1>9, <2>1, <2>2, Zenon DEF Works
<1> QED
  BY <1>1, <1>3, <1>4, <1>5, <1>6, <1>7, <1>9, Actors, Deeds, Zenon DEF UiStep, Commands, Returns

----------------------------------------------------------------------------
(* The limit on jobs, and who is being worked for.                         *)

\* A worker takes up a job, goes on with it, or leaves it.
LEMMA FlightMove ==
  ASSUME Crew, NEW w \in Worker, NEW s, pc' = [pc EXCEPT ![w] = s], NEW o
  PROVE  InFlight(o)' = IF Of(w) # o \/ (pc[w] \in Busy <=> s \in Busy) THEN InFlight(o)
                        ELSE IF s \in Busy THEN InFlight(o) + 1 ELSE InFlight(o) - 1
<1> DEFINE A == {v \in Worker : Of(v) = o /\ pc[v] \in Busy}
           B == {v \in Worker : Of(v) = o /\ pc'[v] \in Busy}
<1>1. InFlight(o) = Cardinality(A) /\ InFlight(o)' = Cardinality(B)
  BY DEF InFlight
<1>2. A \in SUBSET Worker
  OBVIOUS
<1>3. IsFiniteSet(A)
  BY <1>2, Workers, FS_Subset
<1>4. \A v \in Worker : pc'[v] = IF v = w THEN s ELSE pc[v]
  BY DEF Crew
<1>5. CASE Of(w) # o \/ (pc[w] \in Busy <=> s \in Busy)
  <2>1. A = B
    BY <1>4, <1>5
  <2> HIDE DEF A, B
  <2> QED
    BY <1>1, <1>5, <2>1
<1>6. CASE Of(w) = o /\ pc[w] \notin Busy /\ s \in Busy
  <2>1. B = A \cup {w} /\ w \notin A
    BY <1>4, <1>6
  <2> HIDE DEF A, B
  <2>2. Cardinality(B) = Cardinality(A) + 1
    BY <1>3, <2>1, FS_AddElement
  <2> QED
    BY <1>1, <1>6, <2>2
<1>7. CASE Of(w) = o /\ pc[w] \in Busy /\ s \notin Busy
  <2>1. B = A \ {w} /\ w \in A
    BY <1>4, <1>7
  <2> HIDE DEF A, B
  <2>2. Cardinality(B) = Cardinality(A) - 1
    BY <1>3, <2>1, FS_RemoveElement
  <2> QED
    BY <1>1, <1>7, <2>2
<1> QED
  BY <1>5, <1>6, <1>7

LEMMA FlightStands ==
  ASSUME UNCHANGED pc
  PROVE  \A o : InFlight(o)' = InFlight(o)
  BY DEF InFlight

\* With nothing in flight, nobody works for the service.
LEMMA NobodyFlies ==
  ASSUME NEW o, InFlight(o) = 0
  PROVE  \A w \in Worker : Of(w) = o => pc[w] \notin Busy
<1> DEFINE A == {v \in Worker : Of(v) = o /\ pc[v] \in Busy}
<1>1. A \in SUBSET Worker
  OBVIOUS
<1>2. IsFiniteSet(A)
  BY <1>1, Workers, FS_Subset
<1>3. Cardinality(A) = 0
  BY DEF InFlight
<1> HIDE DEF A
<1>4. A = {}
  BY <1>2, <1>3, FS_EmptySet
<1> QED
  BY <1>4 DEF A

\* A worker goes on as before, takes a job from its queue, or ends one.
Goes ==
  /\ UNCHANGED queue
  /\ \A v \in Worker : pc'[v] \in Busy <=> pc[v] \in Busy
  /\ \A v \in Worker : pc[v] \in Busy =>
       job'[v].of = job[v].of /\ job'[v].epoch = job[v].epoch
Takes(w) ==
  /\ pc[w] = "claim" /\ pc' = [pc EXCEPT ![w] = "run"]
  /\ \E n \in 1 .. Len(queue[Of(w)]) :
       /\ queue' = [queue EXCEPT ![Of(w)] = RemoveAt(queue[Of(w)], n)]
       /\ job' = [job EXCEPT ![w] = queue[Of(w)][n]]
Ends(w) ==
  /\ pc[w] = "end" /\ pc' = [pc EXCEPT ![w] = "release"] /\ job' = [job EXCEPT ![w] = NoJob]
  /\ \/ UNCHANGED queue
     \/ Resumes(w) /\ queue' = [queue EXCEPT ![Of(w)] = <<job[w]>> \o queue[Of(w)]]

LEMMA WorkerMoves ==
  ASSUME Fresh, Crew, NEW w \in Worker,
         Acquire(w) \/ Wake(w) \/ Claim(w) \/ Works(w) \/ End(w) \/ Release(w)
  PROVE  /\ Goes \/ Takes(w) \/ Ends(w)
         /\ UNCHANGED <<epoch, owners, want, ui>>
<1>1. UNCHANGED <<epoch, owners, want, ui>>
  <2>1. CASE Works(w)
    BY <2>1, WorkingOn
  <2> QED
    BY <2>1, Zenon DEF Acquire, Wake, Claim, End, Release, Others, service
<1>2. ASSUME UNCHANGED <<queue, job>>, NEW s, pc' = [pc EXCEPT ![w] = s], pc[w] \in Busy <=> s \in Busy
      PROVE  Goes
  <2>1. \A v \in Worker : pc'[v] = IF v = w THEN s ELSE pc[v]
    BY <1>2 DEF Crew
  <2>2. \A v \in Worker : pc'[v] \in Busy <=> pc[v] \in Busy
    BY <1>2, <2>1, Zenon
  <2> QED
    BY <1>2, <2>2, Zenon DEF Goes
<1>3. "idle" \notin Busy /\ "acquire" \notin Busy /\ "claim" \notin Busy /\ "gone" \notin Busy
      /\ "release" \notin Busy /\ "run" \in Busy /\ "emit" \in Busy /\ "end" \in Busy
  BY DEF Busy
<1>4. CASE Acquire(w)
  <2>1. pc[w] = "acquire" /\ UNCHANGED <<queue, job>>
    BY <1>4, Zenon DEF Acquire, service
  <2>2. pc' = [pc EXCEPT ![w] = "idle"] \/ pc' = [pc EXCEPT ![w] = "claim"] \/ pc' = pc
    BY <1>4, Zenon DEF Acquire
  <2>3. CASE pc' = pc
    BY <1>1, <2>1, <2>3 DEF Goes
  <2> QED
    BY <1>1, <1>2, <1>3, <2>1, <2>2, <2>3
<1>5. CASE Wake(w)
  <2> DEFINE s == IF quit[Of(w)] THEN "gone" ELSE "acquire"
  <2>1. pc[w] = "idle" /\ UNCHANGED <<queue, job>> /\ pc' = [pc EXCEPT ![w] = s]
    BY <1>5, Zenon DEF Wake, service
  <2>2. s \notin Busy
    BY <1>3
  <2> HIDE DEF s
  <2> QED
    BY <1>1, <1>2, <1>3, <2>1, <2>2
<1>6. CASE Claim(w)
  <2> DEFINE q == queue[Of(w)]
  <2>1. CASE quit[Of(w)] \/ q = <<>>
    <3> DEFINE s == IF quit[Of(w)] THEN "gone" ELSE "idle"
    <3>1. pc[w] = "claim" /\ UNCHANGED <<queue, job>> /\ pc' = [pc EXCEPT ![w] = s]
      BY <1>6, <2>1, Zenon DEF Claim
    <3>2. s \notin Busy
      BY <1>3
    <3> HIDE DEF s
    <3> QED
      BY <1>1, <1>2, <1>3, <3>1, <3>2
  <2>2. CASE ~(quit[Of(w)] \/ q = <<>>)
    <3>1. /\ pc[w] = "claim" /\ pc' = [pc EXCEPT ![w] = "run"]
          /\ job' = [job EXCEPT ![w] = q[FirstOf(q)]]
          /\ queue' = [queue EXCEPT ![Of(w)] = RemoveAt(@, FirstOf(@))]
      BY <1>6, <2>2, Zenon DEF Claim
    <3>2. Of(w) \in Owner /\ q \in Seq(Known(Of(w)))
      BY Workers DEF Fresh
    <3>3. FirstOf(q) \in 1 .. Len(q)
      BY <2>2, <3>2, FirstIs
    <3>4. queue' = [queue EXCEPT ![Of(w)] = RemoveAt(q, FirstOf(q))]
      BY <3>1
    <3> QED
      BY <1>1, <3>1, <3>3, <3>4, Zenon DEF Takes
  <2> QED
    BY <2>1, <2>2
<1>7. CASE Works(w)
  <2>1. PICK s \in Busy : pc' = [pc EXCEPT ![w] = s]
    BY <1>7, WorkingOn
  <2>2. pc[w] \in Busy /\ UNCHANGED queue
    BY <1>7, WorkingOn DEF Busy
  <2>3. CASE Emit(w)
    <3>1. job' = [job EXCEPT ![w].published = @ \cup {NextPass(w)}]
      BY <2>3, Zenon DEF Emit
    <3>2. \A v \in Worker : pc'[v] = IF v = w THEN s ELSE pc[v]
      BY <2>1 DEF Crew
    <3>3. \A v \in Worker : pc'[v] \in Busy <=> pc[v] \in Busy
      BY <2>2, <3>2, Zenon
    <3>4. job[w] \in Job /\ job \in [Worker -> Job \cup {NoJob}]
      BY <2>2 DEF Fresh, Known, JobOf
    <3>5. job'[w].of = job[w].of /\ job'[w].epoch = job[w].epoch
      BY <3>1, <3>4 DEF Job
    <3>6. \A v \in Worker : v # w => job'[v] = job[v]
      BY <3>1, <3>4
    <3> QED
      BY <1>1, <2>2, <3>3, <3>5, <3>6, Zenon DEF Goes
  <2>4. CASE ~Emit(w)
    <3>1. UNCHANGED job
      BY <1>7, <2>4, Zenon DEF Works, Stop, Pass, Fail, Finish
    <3> QED
      BY <1>1, <1>2, <2>1, <2>2, <3>1
  <2> QED
    BY <2>3, <2>4
<1>8. CASE End(w)
  <2>1. /\ pc[w] = "end" /\ pc' = [pc EXCEPT ![w] = "release"]
        /\ job' = [job EXCEPT ![w] = NoJob]
        /\ queue' = IF Resumes(w) THEN [queue EXCEPT ![Of(w)] = <<job[w]>> \o @] ELSE queue
    BY <1>8, Zenon DEF End
  <2>2. CASE Resumes(w)
    <3>1. queue' = [queue EXCEPT ![Of(w)] = <<job[w]>> \o queue[Of(w)]]
      BY <2>1, <2>2
    <3> QED
      BY <1>1, <2>1, <2>2, <3>1, Zenon DEF Ends
  <2>3. CASE ~Resumes(w)
    BY <1>1, <2>1, <2>3, Zenon DEF Ends
  <2> QED
    BY <2>2, <2>3
<1>9. CASE Release(w)
  <2>1. pc[w] = "release" /\ UNCHANGED <<queue, job>> /\ pc' = [pc EXCEPT ![w] = "idle"]
    BY <1>9, Zenon DEF Release, service
  <2> QED
    BY <1>1, <1>2, <1>3, <2>1
<1> QED
  BY <1>4, <1>5, <1>6, <1>7, <1>8, <1>9

LEMMA FlightGoes ==
  ASSUME Goes
  PROVE  \A o : InFlight(o)' = InFlight(o)
<1>1. \A o : {v \in Worker : Of(v) = o /\ pc'[v] \in Busy}
               = {v \in Worker : Of(v) = o /\ pc[v] \in Busy}
  BY Zenon DEF Goes
<1> QED
  BY <1>1 DEF InFlight

\* Outstanding jobs are never more than the limit.
LEMMA StepLimited ==
  ASSUME Fresh, Books, Wants, Ids, Limited, Crew, Next
  PROVE  Limited'
<1>1. ASSUME NEW o \in Owner
      PROVE  /\ InFlight(o) \in Nat /\ Len(queue[o]) \in Nat /\ MaxOutstanding \in Nat
             /\ Len(queue[o]) + InFlight(o) <= MaxOutstanding
             /\ queue[o] \in Seq(Known(o)) /\ queue \in [Owner -> Seq(Job)]
  BY InFlightNumber, PoolAssumption, LenProperties DEF Limited, Fresh
<1>2. CASE UiStep
  <2>1. \A o : InFlight(o)' = InFlight(o)
    BY <1>2, UiLeaves, FlightStands, Zenon DEF workers
  <2>2. ASSUME UNCHANGED queue PROVE Limited'
    BY <2>1, <2>2 DEF Limited
  <2>3. ASSUME NEW o \in Owner, NEW q, queue' = [queue EXCEPT ![o] = q],
               Len(q) + InFlight(o) <= MaxOutstanding
        PROVE  Limited'
    <3>1. \A p \in Owner : queue'[p] = IF p = o THEN q ELSE queue[p]
      BY <2>3 DEF Fresh
    <3> QED
      BY <2>1, <2>3, <3>1, Zenon DEF Limited
  <2>4. ASSUME NEW t \in Target, Request(t) PROVE Limited'
    <3>1. PICK id \in 0 .. MaxCalls :
            LET o == OwnerOf[t]
                e == Enqueue(o, NewJob(t, id))
            IN  /\ o \in Owner /\ queue' = [queue EXCEPT ![o] = e.q]
                /\ Len(e.q) + InFlight(o) <= MaxOutstanding
      BY <2>4, Requested, Zenon
    <3> QED
      BY <2>3, <3>1
  <2>5. ASSUME NEW o \in Owner, queue' = [queue EXCEPT ![o] = <<>>] PROVE Limited'
    <3>1. Len(<<>>) + InFlight(o) <= MaxOutstanding
      BY <1>1, EmptySeq
    <3> QED
      BY <2>3, <2>5, <3>1
  <2>6. ASSUME NEW o \in Owner, CancelPending(o) \/ CancelAndWait(o)
        PROVE  queue' = [queue EXCEPT ![o] = <<>>]
    BY <2>6, Zenon DEF CancelPending, CancelAndWait, Clear
  <2>7. ASSUME Join PROVE queue' = [queue EXCEPT ![ui.of] = <<>>] /\ ui.of \in Owner
    BY <2>7 DEF Join, Wants
  <2>8. ASSUME NEW o \in Owner, BumpEpoch(o) \/ SetActiveDocument(o) \/ Destroy(o) \/ Drain(o)
        PROVE  UNCHANGED queue
    BY <2>8, Zenon DEF BumpEpoch, SetActiveDocument, Destroy, Drain, service
  <2>9. ASSUME Idle \/ Changed \/ NotifyUi \/ Check PROVE UNCHANGED queue
    BY <2>9, Zenon DEF Idle, Changed, NotifyUi, Check, service
  <2> QED
    BY <1>2, <2>2, <2>4, <2>5, <2>6, <2>7, <2>8, <2>9, Zenon DEF UiStep, Commands, Returns
<1>3. ASSUME NEW w \in Worker,
             Acquire(w) \/ Wake(w) \/ Claim(w) \/ Works(w) \/ End(w) \/ Release(w)
      PROVE  Limited'
  <2>1. Of(w) \in Owner
    BY Workers
  <2>2. CASE Goes
    BY <2>2, FlightGoes DEF Goes, Limited
  <2>3. "claim" \notin Busy /\ "release" \notin Busy /\ "run" \in Busy /\ "end" \in Busy
    BY DEF Busy
  <2>4. CASE Takes(w)
    <3>1. PICK n \in 1 .. Len(queue[Of(w)]) :
            queue' = [queue EXCEPT ![Of(w)] = RemoveAt(queue[Of(w)], n)]
      BY <2>4 DEF Takes
    <3>2. pc[w] = "claim" /\ pc' = [pc EXCEPT ![w] = "run"]
      BY <2>4 DEF Takes
    <3>3. \A o : InFlight(o)' = IF Of(w) # o THEN InFlight(o) ELSE InFlight(o) + 1
      BY <2>3, <3>2, FlightMove
    <3>4. Len(RemoveAt(queue[Of(w)], n)) = Len(queue[Of(w)]) - 1
      BY <1>1, <2>1, WithoutOne
    <3>5. ASSUME NEW o \in Owner PROVE Len(queue'[o]) + InFlight(o)' <= MaxOutstanding
      <4>1. CASE o = Of(w)
        <5>1. Len(queue'[o]) = Len(queue[o]) - 1 /\ InFlight(o)' = InFlight(o) + 1
          BY <1>1, <3>1, <3>3, <3>4, <4>1
        <5> QED
          BY <1>1, <5>1
      <4>2. CASE o # Of(w)
        <5>1. queue'[o] = queue[o] /\ InFlight(o)' = InFlight(o)
          BY <1>1, <3>1, <3>3, <4>2
        <5> QED
          BY <1>1, <5>1
      <4> QED
        BY <4>1, <4>2
    <3> QED
      BY <3>5, Zenon DEF Limited
  <2>5. CASE Ends(w)
    <3>1. pc[w] = "end" /\ pc' = [pc EXCEPT ![w] = "release"]
      BY <2>5 DEF Ends
    <3>2. \A o : InFlight(o)' = IF Of(w) # o THEN InFlight(o) ELSE InFlight(o) - 1
      BY <2>3, <3>1, FlightMove
    <3>3. job[w] \in Known(Of(w))
      BY <2>3, <3>1 DEF Fresh
    <3>4. Len(<<job[w]>> \o queue[Of(w)]) = Len(queue[Of(w)]) + 1
      BY <1>1, <2>1, <3>3, WithOne
    <3>5. ASSUME NEW o \in Owner PROVE Len(queue'[o]) + InFlight(o)' <= MaxOutstanding
      <4>1. CASE o = Of(w)
        <5>1. /\ Len(queue'[o]) = Len(queue[o]) \/ Len(queue'[o]) = Len(queue[o]) + 1
              /\ InFlight(o)' = InFlight(o) - 1
          BY <1>1, <2>5, <3>2, <3>4, <4>1 DEF Ends
        <5> QED
          BY <1>1, <5>1
      <4>2. CASE o # Of(w)
        <5>1. queue'[o] = queue[o] /\ InFlight(o)' = InFlight(o)
          BY <1>1, <2>5, <3>2, <4>2 DEF Ends
        <5> QED
          BY <1>1, <5>1
      <4> QED
        BY <4>1, <4>2
    <3> QED
      BY <3>5, Zenon DEF Limited
  <2> QED
    BY <1>3, <2>2, <2>4, <2>5, WorkerMoves, Zenon
<1> QED
  BY <1>2, <1>3, Actors, Deeds, Zenon

----------------------------------------------------------------------------
(* While the interface waits, nothing new is worked for.                   *)

\* What begins a wait, and what ends one with the image free.
LEMMA Waits ==
  ASSUME ui \in Stage, UiStep, ui'.at \in {"waiting", "changing"}
  PROVE  \/ CancelAndWait(ui'.of) /\ ui'.at = "waiting"
         \/ Idle /\ ui'.at = "changing"
<1>1. ASSUME ui.at = "free", ui' = ui PROVE FALSE
  BY <1>1
<1>2. ASSUME NEW t \in Target, Request(t) PROVE FALSE
  BY <1>1, <1>2, Zenon DEF Request, Free
<1>3. ASSUME NEW o \in Owner, CancelPending(o) \/ BumpEpoch(o) PROVE FALSE
  BY <1>1, <1>3, Zenon DEF CancelPending, BumpEpoch, Free
<1>4. ASSUME NEW o \in Owner, CancelAndWait(o)
      PROVE  CancelAndWait(ui'.of) /\ ui'.at = "waiting"
  <2>1. ui' = [at |-> "waiting", of |-> o]
    BY <1>4, Zenon DEF CancelAndWait, Ui
  <2>2. ui'.of = o /\ ui'.at = "waiting"
    BY <2>1
  <2> QED
    BY <1>4, <2>2
<1>5. ASSUME NEW o \in Owner, SetActiveDocument(o) \/ Destroy(o) \/ Drain(o) PROVE FALSE
  <2>1. ui' \in {[at |-> "notify", of |-> o], [at |-> "quit", of |-> o], [at |-> "drained", of |-> o]}
    BY <1>5 DEF SetActiveDocument, Destroy, Drain, Ui
  <2> QED
    BY <2>1
<1>6. ASSUME Idle PROVE ui'.at = "changing"
  <2>1. ui' = [at |-> "changing", of |-> ui.of]
    BY <1>6, Zenon DEF Idle, Ui
  <2> QED
    BY <2>1
<1>7. ASSUME Changed \/ Join \/ Check PROVE FALSE
  <2>1. ui' = AtRest
    BY <1>7, Zenon DEF Changed, Join, Check
  <2> QED
    BY <2>1 DEF AtRest
<1>8. ASSUME NotifyUi PROVE FALSE
  <2>1. ui' = [ui EXCEPT !.at = "joining"] \/ ui' = AtRest
    BY <1>8 DEF NotifyUi
  <2>2. ui.at \in {"notify", "quit"}
    BY <1>8 DEF NotifyUi
  <2> QED
    BY <2>1, <2>2 DEF AtRest, Stage
<1> QED
  BY <1>2, <1>3, <1>4, <1>5, <1>6, <1>7, <1>8, Zenon DEF UiStep, Commands, Returns

\* What is not queued cannot begin, and what is old is not resumed.
LEMMA StepEmptied ==
  ASSUME Fresh, Books, Crew, ui \in Stage, Emptied, Next
  PROVE  Emptied'
<1> SUFFICES ASSUME ui'.at \in {"waiting", "changing"}
             PROVE  /\ queue'[ui'.of] = <<>>
                    /\ \A w \in Worker : Of(w) = ui'.of /\ pc'[w] \in Busy =>
                         job'[w].epoch # epoch'[ui'.of]
  BY Zenon DEF Emptied
<1>1. ui.of \in Owner /\ ui' \in Stage /\ ui'.of \in Owner
  BY StepStage DEF Stage
<1>2. CASE UiStep
  <2>1. UNCHANGED <<pc, job>>
    BY <1>2, UiLeaves, Zenon DEF workers
  <2>2. CASE CancelAndWait(ui'.of)
    <3> DEFINE o == ui'.of
    <3>1. queue' = [queue EXCEPT ![o] = <<>>] /\ epoch' = [epoch EXCEPT ![o] = @ + 1]
      BY <2>2, Zenon DEF CancelAndWait, Clear
    <3>2. queue'[o] = <<>> /\ epoch'[o] = epoch[o] + 1 /\ epoch[o] \in Nat
      BY <1>1, <3>1 DEF Fresh, Books
    <3>3. ASSUME NEW w \in Worker, Of(w) = o, pc[w] \in Busy PROVE job[w].epoch # epoch'[o]
      <4>1. job[w] \in Known(o)
        BY <3>3, Zenon DEF Fresh
      <4>2. job[w].epoch \in Nat /\ job[w].epoch <= epoch[o]
        BY <4>1 DEF Known, JobOf, Job
      <4> QED
        BY <3>2, <4>2
    <3> QED
      BY <2>1, <3>2, <3>3, Zenon
  <2>3. CASE Idle
    <3>1. ui' = [at |-> "changing", of |-> ui.of] /\ ui.at = "waiting" /\ UNCHANGED <<queue, epoch>>
      BY <2>3, Zenon DEF Idle, Ui, service
    <3>2. ui'.of = ui.of
      BY <3>1
    <3>3. queue[ui.of] = <<>>
          /\ \A w \in Worker : Of(w) = ui.of /\ pc[w] \in Busy => job[w].epoch # epoch[ui.of]
      BY <3>1 DEF Emptied
    <3> QED
      BY <2>1, <3>1, <3>2, <3>3, Zenon
  <2> QED
    BY <1>2, <2>2, <2>3, Waits
<1>3. ASSUME NEW w \in Worker,
             Acquire(w) \/ Wake(w) \/ Claim(w) \/ Works(w) \/ End(w) \/ Release(w)
      PROVE  /\ queue'[ui'.of] = <<>>
             /\ \A v \in Worker : Of(v) = ui'.of /\ pc'[v] \in Busy =>
                  job'[v].epoch # epoch'[ui'.of]
  <2>1. UNCHANGED <<epoch, ui>> /\ (Goes \/ Takes(w) \/ Ends(w))
    BY <1>3, WorkerMoves, Zenon
  <2>2. queue[ui.of] = <<>>
        /\ \A v \in Worker : Of(v) = ui.of /\ pc[v] \in Busy => job[v].epoch # epoch[ui.of]
    BY <2>1, Zenon DEF Emptied
  <2>3. "release" \notin Busy /\ "end" \in Busy
    BY DEF Busy
  <2>4. CASE Goes
    BY <2>1, <2>2, <2>4, Zenon DEF Goes
  <2>5. CASE Takes(w)
    <3>1. PICK n \in 1 .. Len(queue[Of(w)]) :
            /\ queue' = [queue EXCEPT ![Of(w)] = RemoveAt(queue[Of(w)], n)]
            /\ job' = [job EXCEPT ![w] = queue[Of(w)][n]]
      BY <2>5 DEF Takes
    <3>2. Of(w) # ui.of
      <4>1. Len(<<>>) = 0
        OBVIOUS
      <4> QED
        BY <2>2, <3>1, <4>1
    <3>3. pc' = [pc EXCEPT ![w] = "run"]
      BY <2>5 DEF Takes
    <3>4. queue'[ui.of] = queue[ui.of]
      BY <1>1, <3>1, <3>2 DEF Fresh
    <3>5. \A v \in Worker : v # w => pc'[v] = pc[v] /\ job'[v] = job[v]
      BY <3>1, <3>3 DEF Crew, Fresh
    <3> QED
      BY <2>1, <2>2, <3>2, <3>4, <3>5, Zenon
  <2>6. CASE Ends(w)
    <3>1. pc[w] = "end" /\ pc' = [pc EXCEPT ![w] = "release"] /\ job' = [job EXCEPT ![w] = NoJob]
      BY <2>6, Zenon DEF Ends
    <3>2. Of(w) = ui.of => ~Resumes(w)
      BY <2>2, <2>3, <3>1, Zenon DEF Resumes
    <3>3. queue'[ui.of] = queue[ui.of]
      BY <1>1, <2>6, <3>2 DEF Ends, Fresh
    <3>4. \A v \in Worker : v # w => pc'[v] = pc[v] /\ job'[v] = job[v]
      BY <3>1 DEF Crew, Fresh
    <3>5. pc'[w] \notin Busy
      BY <2>3, <3>1 DEF Crew
    <3> QED
      BY <2>1, <2>2, <3>3, <3>4, <3>5, Zenon
  <2> QED
    BY <2>1, <2>4, <2>5, <2>6
<1> QED
  BY <1>2, <1>3, Actors, Deeds, Zenon

\* An image that has become free stays free until the interface is done with it.
LEMMA StepFreed ==
  ASSUME Fresh, Books, Crew, ui \in Stage, Emptied, Freed, Next
  PROVE  Freed'
<1> SUFFICES ASSUME NEW o \in Owner, o = ui'.of, ui'.at = "changing"
             PROVE  InFlight(o)' = 0 /\ queue'[o] = <<>>
  <2>1. ui'.of \in Owner
    BY StepStage DEF Stage
  <2> QED
    BY <2>1 DEF Freed, InFlight
<1>1. queue'[o] = <<>>
  BY StepEmptied DEF Emptied
<1>2. CASE UiStep
  <2>1. InFlight(o)' = InFlight(o)
    BY <1>2, UiLeaves, FlightStands, Zenon DEF workers
  <2>2. Idle
    BY <1>2, Waits
  <2>3. InFlight(ui.of) = 0 /\ ui' = [at |-> "changing", of |-> ui.of]
    BY <2>2, Zenon DEF Idle, Ui, NothingReads
  <2>4. ui.of = o
    BY <2>3
  <2> QED
    BY <1>1, <2>1, <2>3, <2>4
<1>3. ASSUME NEW w \in Worker,
             Acquire(w) \/ Wake(w) \/ Claim(w) \/ Works(w) \/ End(w) \/ Release(w)
      PROVE  InFlight(o)' = 0
  <2>1. UNCHANGED ui /\ (Goes \/ Takes(w) \/ Ends(w))
    BY <1>3, WorkerMoves, Zenon
  <2>2. InFlight(o) = 0 /\ queue[o] = <<>>
    BY <2>1, Zenon DEF Freed
  <2>3. CASE Goes
    BY <2>2, <2>3, FlightGoes
  <2>4. CASE Takes(w)
    <3>1. PICK n \in 1 .. Len(queue[Of(w)]) : TRUE
      BY <2>4 DEF Takes
    <3>2. Len(<<>>) = 0
      OBVIOUS
    <3>3. Of(w) # o /\ pc' = [pc EXCEPT ![w] = "run"]
      BY <2>2, <2>4, <3>1, <3>2 DEF Takes
    <3> QED
      BY <2>2, <3>3, FlightMove
  <2>5. CASE Ends(w)
    <3>1. pc[w] \in Busy /\ pc' = [pc EXCEPT ![w] = "release"]
      BY <2>5 DEF Ends, Busy
    <3>2. Of(w) # o
      BY <2>2, <3>1, NobodyFlies
    <3> QED
      BY <2>2, <3>1, <3>2, FlightMove
  <2> QED
    BY <2>1, <2>3, <2>4, <2>5
<1> QED
  BY <1>1, <1>2, <1>3, Actors, Deeds, Zenon

----------------------------------------------------------------------------
(* An idle view has nothing under way.                                     *)

\* A sequence all of whose entries are in T.
LEMMA SeqOfThose ==
  ASSUME NEW S, NEW s \in Seq(S), NEW T
  PROVE  s \in Seq(T) <=> \A n \in DOMAIN s : s[n] \in T
<1>1. Len(s) \in Nat /\ DOMAIN s = 1 .. Len(s) /\ s \in [1 .. Len(s) -> S]
  BY LenProperties
<1>2. ASSUME s \in Seq(T) PROVE \A n \in DOMAIN s : s[n] \in T
  BY <1>1, <1>2, ElementOfSeq
<1>3. ASSUME \A n \in DOMAIN s : s[n] \in T PROVE s \in Seq(T)
  <2>1. s \in [1 .. Len(s) -> T]
    BY <1>1, <1>3
  <2> QED
    BY <1>1, <2>1, SeqDef
<1> QED
  BY <1>2, <1>3

\* Jobs and results that are not of t, or do not answer it.
Apart(t) == {j \in Job : j.of # t}
Silent(t) == {r \in Outcome : ~Answers(r, t)}

LEMMA PendingIs ==
  ASSUME queue \in [Owner -> Seq(Job)], NEW t \in Target
  PROVE  ~PendingFor(t) <=> /\ queue[OwnerOf[t]] \in Seq(Apart(t))
                            /\ \A w \in Worker : pc[w] \in Busy => job[w].of # t
<1> DEFINE q == queue[OwnerOf[t]]
<1>1. q \in Seq(Job)
  BY PoolAssumption
<1>2. q \in Seq(Apart(t)) <=> \A n \in DOMAIN q : q[n] \in Apart(t)
  BY <1>1, SeqOfThose
<1>3. \A n \in DOMAIN q : q[n] \in Job
  BY <1>1, LenProperties, ElementOfSeq
<1>4. q \in Seq(Apart(t)) <=> \A n \in DOMAIN q : q[n].of # t
  BY <1>2, <1>3 DEF Apart
<1> QED
  BY <1>4 DEF PendingFor

LEMMA AnsweredIs ==
  ASSUME results \in [Owner -> Seq(Outcome)], NEW t \in Target
  PROVE  ~Answered(t) <=> results[OwnerOf[t]] \in Seq(Silent(t))
<1> DEFINE s == results[OwnerOf[t]]
<1>1. s \in Seq(Outcome)
  BY PoolAssumption
<1>2. s \in Seq(Silent(t)) <=> \A n \in DOMAIN s : s[n] \in Silent(t)
  BY <1>1, SeqOfThose
<1>3. \A n \in DOMAIN s : s[n] \in Outcome
  BY <1>1, LenProperties, ElementOfSeq
<1>4. s \in Seq(Silent(t)) <=> \A n \in DOMAIN s : ~Answers(s[n], t)
  BY <1>2, <1>3 DEF Silent
<1> QED
  BY <1>4 DEF Answered

\* No worker begins to work for t.
LEMMA WorkerPending ==
  ASSUME Fresh, Fresh', Crew, NEW w \in Worker, NEW t \in Target, ~PendingFor(t),
         Goes \/ Takes(w) \/ Ends(w)
  PROVE  ~PendingFor(t)'
<1> DEFINE o == OwnerOf[t]
<1>1. /\ queue \in [Owner -> Seq(Job)] /\ queue' \in [Owner -> Seq(Job)]
      /\ o \in Owner /\ Of(w) \in Owner
  BY Workers, PoolAssumption DEF Fresh
<1>2. queue[o] \in Seq(Apart(t)) /\ \A v \in Worker : pc[v] \in Busy => job[v].of # t
  BY <1>1, PendingIs
<1>3. SUFFICES /\ queue'[o] \in Seq(Apart(t))
               /\ \A v \in Worker : pc'[v] \in Busy => job'[v].of # t
  <2>1. queue'[o] \in Seq(Apart(t)) => \A n \in DOMAIN queue'[o] : queue'[o][n].of # t
    <3>1. ASSUME queue'[o] \in Seq(Apart(t)) PROVE \A n \in DOMAIN queue'[o] : queue'[o][n] \in Apart(t)
      BY <3>1, SeqOfThose
    <3> QED
      BY <3>1 DEF Apart
  <2> QED
    BY <1>3, <2>1 DEF PendingFor
<1>4. CASE Goes
  <2>1. queue' = queue
    BY <1>4, Zenon DEF Goes
  <2>2. \A v \in Worker : pc'[v] \in Busy => job'[v].of # t
    BY <1>2, <1>4, Zenon DEF Goes
  <2> QED
    BY <1>2, <2>1, <2>2
<1>5. CASE Takes(w)
  <2>1. PICK n \in 1 .. Len(queue[Of(w)]) :
          /\ queue' = [queue EXCEPT ![Of(w)] = RemoveAt(queue[Of(w)], n)]
          /\ job' = [job EXCEPT ![w] = queue[Of(w)][n]]
    BY <1>5 DEF Takes
  <2>2. queue'[o] \in Seq(Apart(t))
    <3>1. CASE o = Of(w)
      <4>1. RemoveAt(queue[o], n) \in Seq(Apart(t))
        BY <1>2, <2>1, <3>1, WithoutOne
      <4> QED
        BY <1>1, <2>1, <3>1, <4>1
    <3>2. CASE o # Of(w)
      BY <1>1, <1>2, <2>1, <3>2
    <3> QED
      BY <3>1, <3>2
  <2>3. queue[Of(w)][n].of # t
    <3>1. queue[Of(w)] \in Seq(Known(Of(w)))
      BY <1>1 DEF Fresh
    <3>2. queue[Of(w)][n] \in Known(Of(w))
      BY <2>1, <3>1, ElementOfSeq
    <3>3. OwnerOf[queue[Of(w)][n].of] = Of(w)
      BY <3>2 DEF Known, JobOf
    <3>4. CASE o = Of(w)
      <4>1. queue[o][n] \in Apart(t)
        BY <1>2, <2>1, <3>4, ElementOfSeq
      <4> QED
        BY <3>4, <4>1 DEF Apart
    <3> QED
      BY <3>3, <3>4
  <2>4. \A v \in Worker : /\ v # w => pc'[v] = pc[v] /\ job'[v] = job[v]
                          /\ v = w => job'[v] = queue[Of(w)][n]
    BY <1>5, <2>1 DEF Takes, Crew, Fresh
  <2>5. ASSUME NEW v \in Worker, pc'[v] \in Busy PROVE job'[v].of # t
    BY <1>2, <2>3, <2>4, <2>5
  <2> QED
    BY <2>2, <2>5
<1>6. CASE Ends(w)
  <2>1. pc[w] \in Busy /\ "release" \notin Busy
    BY <1>6 DEF Ends, Busy
  <2>2. job[w] \in Apart(t)
    <3>1. job[w] \in Job
      BY <2>1 DEF Fresh, Known, JobOf
    <3> QED
      BY <1>2, <2>1, <3>1 DEF Apart
  <2>3. queue'[o] \in Seq(Apart(t))
    <3>1. <<job[w]>> \o queue[o] \in Seq(Apart(t))
      BY <1>2, <2>2, WithOne
    <3>2. queue'[o] = queue[o] \/ queue'[o] = <<job[w]>> \o queue[o]
      BY <1>1, <1>6 DEF Ends
    <3> QED
      BY <1>2, <3>1, <3>2
  <2>4. \A v \in Worker : /\ v # w => pc'[v] = pc[v] /\ job'[v] = job[v]
                          /\ v = w => pc'[v] = "release"
    BY <1>6 DEF Ends, Crew, Fresh
  <2>5. ASSUME NEW v \in Worker, pc'[v] \in Busy PROVE job'[v].of # t
    BY <1>2, <2>1, <2>4, <2>5
  <2> QED
    BY <2>3, <2>5
<1> QED
  BY <1>4, <1>5, <1>6

\* Nor does a worker that has no job of t answer it.
LEMMA WorkerSilent ==
  ASSUME Fresh, Reported, NEW w \in Worker, NEW t \in Target, ~PendingFor(t), ~Answered(t),
         Acquire(w) \/ Wake(w) \/ Claim(w) \/ Works(w) \/ End(w) \/ Release(w)
  PROVE  ~Answered(t)'
<1> DEFINE s == results[OwnerOf[t]]
<1>1. UNCHANGED <<epoch, want>>
  <2>1. CASE Works(w)
    BY <2>1, WorkingOn
  <2> QED
    BY <2>1, Zenon DEF Acquire, Wake, Claim, End, Release, Others, service
<1>2. \A r : Answers(r, t)' <=> Answers(r, t)
  BY <1>1 DEF Answers
<1>3. ASSUME results'[OwnerOf[t]] \in Seq(Silent(t)) PROVE ~Answered(t)'
  <2>1. \A n \in DOMAIN results'[OwnerOf[t]] : results'[OwnerOf[t]][n] \in Silent(t)
    BY <1>3, SeqOfThose
  <2>2. \A n \in DOMAIN results'[OwnerOf[t]] : ~Answers(results'[OwnerOf[t]][n], t)
    BY <2>1 DEF Silent
  <2> QED
    BY <1>2, <2>2, Zenon DEF Answered
<1>4. s \in Seq(Silent(t)) /\ OwnerOf[t] \in Owner /\ results \in [Owner -> Seq(Outcome)]
  BY AnsweredIs, PoolAssumption DEF Reported
<1>5. ASSUME UNCHANGED results PROVE ~Answered(t)'
  BY <1>3, <1>4, <1>5
<1>6. ASSUME Emit(w) \/ Fail(w) PROVE ~Answered(t)'
  <2>1. pc[w] \in Busy /\ Remaining(w) # {}
    BY <1>6 DEF Emit, Fail, Busy, Fresh
  <2>2. job[w] \in JobOf(Of(w)) /\ Of(w) \in Owner
    BY <2>1, Workers DEF Fresh, Known
  <2>3. NextPass(w) \in All(job[w].of)
    BY <2>1, <2>2, NextPassIs
  <2>4. job[w].of # t
    BY <2>1 DEF PendingFor
  <2>5. PICK what \in {NextPass(w), "failure"} : Publish(Of(w), Result(job[w], what))
    BY <1>6 DEF Emit, Fail
  <2> DEFINE r == Result(job[w], what)
  <2>6. r \in Outcome
    BY <2>2, <2>3, <2>5, ResultIs DEF OutcomeOf
  <2>7. r.of = job[w].of
    BY DEF Result
  <2>8. r \in Silent(t)
    BY <2>4, <2>6, <2>7 DEF Silent, Answers
  <2>9. results' = [results EXCEPT ![Of(w)] = Bounded(Append(@, r))]
    BY <2>5 DEF Publish
  <2> HIDE DEF r
  <2>10. CASE Of(w) = OwnerOf[t]
    <3>1. results'[OwnerOf[t]] = Bounded(Append(s, r))
      BY <1>4, <2>9, <2>10
    <3>2. Append(s, r) \in Seq(Silent(t)) /\ Len(Append(s, r)) = Len(s) + 1 /\ Len(s) \in Nat
      BY <1>4, <2>8, WithOne, LenProperties
    <3>3. Append(s, r) # <<>>
      BY <3>2, EmptySeq
    <3>4. Tail(Append(s, r)) \in Seq(Silent(t))
      BY <3>2, <3>3, HeadTailProperties
    <3>5. Bounded(Append(s, r)) \in Seq(Silent(t))
      BY <3>2, <3>4 DEF Bounded
    <3> QED
      BY <1>3, <3>1, <3>5
  <2>11. CASE Of(w) # OwnerOf[t]
    <3>1. results'[OwnerOf[t]] = s
      BY <1>4, <2>9, <2>11
    <3> QED
      BY <1>3, <1>4, <3>1
  <2> QED
    BY <2>10, <2>11
<1>7. CASE Works(w)
  <2>1. CASE Stop(w) \/ Pass(w) \/ Finish(w)
    BY <1>5, <2>1, Zenon DEF Stop, Pass, Finish, service
  <2> QED
    BY <1>6, <1>7, <2>1, Zenon DEF Works
<1>8. CASE Acquire(w) \/ Wake(w) \/ Claim(w) \/ End(w) \/ Release(w)
  BY <1>5, <1>8, Zenon DEF Acquire, Wake, Claim, End, Release, service
<1> QED
  BY <1>7, <1>8

\* Queues that are emptied or left hold nothing new.
LEMMA UiPending ==
  ASSUME queue \in [Owner -> Seq(Job)], UNCHANGED <<pc, job>>,
         \A o \in Owner : queue'[o] = queue[o] \/ queue'[o] = <<>>,
         NEW t \in Target, ~PendingFor(t)
  PROVE  ~PendingFor(t)'
<1>1. OwnerOf[t] \in Owner
  BY PoolAssumption
<1>2. \A n \in DOMAIN queue'[OwnerOf[t]] : queue'[OwnerOf[t]][n].of # t
  <2>1. CASE queue'[OwnerOf[t]] = queue[OwnerOf[t]]
    BY <2>1 DEF PendingFor
  <2>2. CASE queue'[OwnerOf[t]] = <<>>
    BY <2>2
  <2> QED
    BY <1>1, <2>1, <2>2
<1> QED
  BY <1>2 DEF PendingFor

\* A request for another target.
LEMMA OtherPending ==
  ASSUME Fresh, Books, Wants, Ids, Limited, NEW u \in Target, Request(u), UNCHANGED <<pc, job>>,
         NEW t \in Target, t # u, ~PendingFor(t)
  PROVE  ~PendingFor(t)'
<1> DEFINE o == OwnerOf[u]
<1>1. PICK id \in 0 .. MaxCalls :
        /\ o \in Owner /\ NewJob(u, id) \in Known(o) /\ NewJob(u, id).of = u
        /\ queue' = [queue EXCEPT ![o] = Enqueue(o, NewJob(u, id)).q]
  BY Requested, Zenon
<1>2. /\ queue[OwnerOf[t]] \in Seq(Apart(t)) /\ OwnerOf[t] \in Owner
      /\ \A w \in Worker : pc[w] \in Busy => job[w].of # t
      /\ queue \in [Owner -> Seq(Job)]
  BY PendingIs, PoolAssumption DEF Fresh
<1>3. NewJob(u, id) \in Apart(t)
  BY <1>1 DEF Known, JobOf, Apart
<1>4. queue'[OwnerOf[t]] \in Seq(Apart(t))
  <2>1. CASE OwnerOf[t] = o
    <3>1. InFlight(o) \in Nat /\ Len(queue[o]) + InFlight(o) <= MaxOutstanding
      BY <1>1, InFlightNumber DEF Limited
    <3>2. Enqueue(o, NewJob(u, id)).q \in Seq(Apart(t))
      BY <1>1, <1>2, <1>3, <2>1, <3>1, Enqueued
    <3> QED
      BY <1>1, <1>2, <2>1, <3>2
  <2>2. CASE OwnerOf[t] # o
    BY <1>1, <1>2, <2>2
  <2> QED
    BY <2>1, <2>2
<1>5. \A n \in DOMAIN queue'[OwnerOf[t]] : queue'[OwnerOf[t]][n] \in Apart(t)
  BY <1>4, SeqOfThose
<1>6. \A n \in DOMAIN queue'[OwnerOf[t]] : queue'[OwnerOf[t]][n].of # t
  BY <1>5 DEF Apart
<1> QED
  BY <1>2, <1>6, Zenon DEF PendingFor

\* What has been idle has nothing left, and stays so.
LEMMA StepIdle ==
  ASSUME Fresh, Fresh', Reported, Books, Wants, Ids, Limited, Crew, IdleIsOver, Next
  PROVE  IdleIsOver'
<1>1. /\ want \in [Target -> Mark] /\ ui \in Stage /\ queue \in [Owner -> Seq(Job)]
      /\ \A t \in Interactive : t \in Target /\ Patience[t] # 0 /\ OwnerOf[t] \in Owner
  BY PoolAssumption DEF Wants, Mark, Stage, Fresh
<1>2. ASSUME NEW w \in Worker,
             Acquire(w) \/ Wake(w) \/ Claim(w) \/ Works(w) \/ End(w) \/ Release(w)
      PROVE  IdleIsOver'
  <2>1. UNCHANGED <<want, ui>> /\ (Goes \/ Takes(w) \/ Ends(w))
    BY <1>2, WorkerMoves, Zenon
  <2>2. \A t \in Interactive : ~PendingFor(t) => ~PendingFor(t)'
    BY <1>1, <2>1, WorkerPending
  <2>3. \A t \in Interactive : ~PendingFor(t) /\ ~Answered(t) => ~Answered(t)'
    BY <1>1, <1>2, WorkerSilent
  <2> QED
    BY <2>1, <2>2, <2>3, Zenon DEF IdleIsOver
<1>3. CASE UiStep
  <2>1. UNCHANGED <<pc, job>>
    BY <1>3, UiLeaves, Zenon DEF workers
  <2>2. ASSUME \A o \in Owner : queue'[o] = queue[o] \/ queue'[o] = <<>>,
               \A t \in Interactive : want'[t].on /\ want'[t].idle # 0 =>
                 \/ want[t].on /\ want[t].idle # 0
                 \/ ~PendingFor(t),
               ui'.at # "drained" \/ results'[ui'.of] = <<>>
        PROVE  IdleIsOver'
    <3>1. \A t \in Interactive : ~PendingFor(t) => ~PendingFor(t)'
      BY <1>1, <2>1, <2>2, UiPending
    <3>2. \A t \in Interactive : ui'.at = "drained" /\ ui'.of = OwnerOf[t] => ~Answered(t)'
      BY <2>2 DEF Answered
    <3> QED
      BY <2>2, <3>1, <3>2, Zenon DEF IdleIsOver
  <2>3. ASSUME NEW t \in Target, Request(t) PROVE IdleIsOver'
    <3>1. ui' = ui /\ ui.at = "free"
      BY <2>3, Zenon DEF Request, Free
    <3>2. PICK id \in 0 .. MaxCalls :
            want' = IF Patience[t] = 0 THEN want
                    ELSE [want EXCEPT ![t] = [on |-> TRUE, id |-> id,
                                              epoch |-> epoch[OwnerOf[t]], idle |-> 0]]
      BY <2>3, Requested, Zenon
    <3>3. ASSUME NEW u \in Interactive, want'[u].on, want'[u].idle # 0 PROVE ~PendingFor(u)'
      <4>1. u # t
        BY <1>1, <3>2, <3>3
      <4>2. want'[u] = want[u]
        BY <1>1, <3>2, <4>1
      <4>3. ~PendingFor(u)
        BY <3>3, <4>2, Zenon DEF IdleIsOver
      <4> QED
        BY <1>1, <2>1, <2>3, <4>1, <4>3, OtherPending
    <3>4. ui'.at # "drained"
      BY <3>1
    <3> QED
      BY <3>3, <3>4, Zenon DEF IdleIsOver
  <2>4. ASSUME NEW o \in Owner, CancelPending(o) \/ CancelAndWait(o) PROVE IdleIsOver'
    <3>1. queue' = [queue EXCEPT ![o] = <<>>] /\ want' = Unmarked(o)
      BY <2>4, Zenon DEF CancelPending, CancelAndWait, Clear
    <3>2. \A t \in Interactive : want'[t] = want[t]
      BY <1>1, <3>1 DEF Unmarked
    <3>3. ui'.at # "drained"
      BY <2>4 DEF CancelPending, CancelAndWait, Ui, Free
    <3>4. \A p \in Owner : queue'[p] = queue[p] \/ queue'[p] = <<>>
      BY <1>1, <3>1
    <3> QED
      BY <2>2, <3>2, <3>3, <3>4
  <2>5. ASSUME NEW o \in Owner, BumpEpoch(o) \/ SetActiveDocument(o) \/ Destroy(o) PROVE IdleIsOver'
    <3>1. UNCHANGED <<queue, want>>
      BY <2>5, Zenon DEF BumpEpoch, SetActiveDocument, Destroy, service
    <3>2. ui'.at # "drained"
      BY <2>5 DEF BumpEpoch, SetActiveDocument, Destroy, Ui, Free
    <3> QED
      BY <2>2, <3>1, <3>2
  <2>6. ASSUME NEW o \in Owner, Drain(o) PROVE IdleIsOver'
    <3>1. /\ want' = [t \in Target |->
                IF \E n \in DOMAIN results[o] : Answers(results[o][n], t)
                THEN [want[t] EXCEPT !.on = FALSE, !.idle = 0] ELSE want[t]]
          /\ queue' = queue /\ results' = [results EXCEPT ![o] = <<>>]
          /\ ui' = [at |-> "drained", of |-> o]
      BY <2>6, Zenon DEF Drain, Ui
    <3>2. \A t \in Interactive : want'[t].on => want'[t] = want[t]
      BY <1>1, <3>1 DEF Mark
    <3>3. results'[ui'.of] = <<>>
      BY <3>1 DEF Reported
    <3> QED
      BY <2>2, <3>1, <3>2, <3>3
  <2>7. CASE Idle \/ Changed \/ NotifyUi
    <3>1. UNCHANGED <<queue, want>>
      BY <2>7, Zenon DEF Idle, Changed, NotifyUi, service
    <3>2. ui'.at # "drained"
      BY <1>1, <2>7 DEF Idle, Changed, NotifyUi, Ui, AtRest, Stage
    <3> QED
      BY <2>2, <3>1, <3>2
  <2>8. CASE Join
    <3>1. /\ want' = [t \in Target |-> IF OwnerOf[t] = ui.of THEN [want[t] EXCEPT !.on = FALSE]
                                       ELSE want[t]]
          /\ queue' = [queue EXCEPT ![ui.of] = <<>>] /\ ui' = AtRest
      BY <2>8, Zenon DEF Join
    <3>2. \A t \in Interactive : want'[t].on => want'[t] = want[t]
      BY <1>1, <3>1 DEF Mark
    <3>3. ui'.at # "drained" /\ \A p \in Owner : queue'[p] = queue[p] \/ queue'[p] = <<>>
      BY <1>1, <3>1, RestIs
    <3> QED
      BY <2>2, <3>2, <3>3
  <2>9. CASE Check
    <3>1. /\ want' = [t \in Target |->
                IF OwnerOf[t] # ui.of \/ ~want[t].on THEN want[t]
                ELSE IF GivenUp(t) THEN [want[t] EXCEPT !.on = FALSE, !.idle = 0]
                ELSE [want[t] EXCEPT !.idle = Idles(t)]]
          /\ queue' = queue /\ ui' = AtRest
      BY <2>9, Zenon DEF Check, service
    <3>2. ASSUME NEW t \in Interactive, want'[t].on, want'[t].idle # 0
          PROVE  (want[t].on /\ want[t].idle # 0) \/ ~PendingFor(t)
      <4>1. want'[t] = want[t] \/ (want'[t] = [want[t] EXCEPT !.idle = Idles(t)] /\ want[t].on)
        BY <1>1, <3>1, <3>2 DEF Mark
      <4>2. CASE want'[t] = want[t]
        BY <3>2, <4>2
      <4>3. CASE want'[t] = [want[t] EXCEPT !.idle = Idles(t)] /\ want[t].on
        <5>1. Idles(t) # 0
          BY <1>1, <3>2, <4>3 DEF Mark
        <5>2. Unanswered(t)
          BY <5>1 DEF Idles
        <5> QED
          BY <5>2 DEF Unanswered
      <4> QED
        BY <4>1, <4>2, <4>3
    <3>3. ui'.at # "drained"
      BY <3>1, RestIs
    <3> QED
      BY <2>2, <3>1, <3>2, <3>3
  <2> QED
    BY <1>3, <2>3, <2>4, <2>5, <2>6, <2>7, <2>8, <2>9, Zenon DEF UiStep, Commands, Returns
<1> QED
  BY <1>2, <1>3, Actors, Deeds, Zenon

----------------------------------------------------------------------------
(* The theorems.                                                           *)

LEMMA InvParts == IInv <=>
  /\ Fresh /\ Reported /\ Books /\ Clock /\ Sums /\ best \in 0 .. 3 /\ Crew /\ Wants /\ Ids
  /\ Counts /\ Cached /\ Sleepers /\ Emptied /\ Freed /\ Limited /\ Departed /\ IdleIsOver
  BY FreshIs, Parts, Zenon DEF IInv

LEMMA InitInv == Init => IInv
<1> SUFFICES ASSUME Init PROVE IInv
  OBVIOUS
<1>1. /\ queue = [o \in Owner |-> <<>>] /\ results = [o \in Owner |-> <<>>]
      /\ epoch = [o \in Owner |-> 1] /\ quit = [o \in Owner |-> FALSE]
      /\ active = [o \in Owner |-> o \in Document]
      /\ owners = Owner /\ admitted = [o \in Owner |-> 0] /\ running = 0 /\ best = 3
      /\ asleep = {}
      /\ pc = [w \in Worker |-> "idle"] /\ job = [w \in Worker |-> NoJob]
      /\ yielded = [w \in Worker |-> FALSE]
      /\ want = [t \in Target |-> [on |-> FALSE, id |-> 0, epoch |-> 0, idle |-> 0]]
      /\ ui = AtRest /\ calls = 0
  BY Zenon DEF Init
<1>2. MaxCalls \in Nat /\ MaxOutstanding \in Nat /\ MaxResults \in Nat /\ Limit \in Nat
  BY PoolAssumption
<1>3. \A S : <<>> \in Seq(S)
  BY EmptySeq
<1>4. Fresh
  <2>1. queue \in [Owner -> Seq(Job)] /\ \A o \in Owner : queue[o] \in Seq(Known(o))
    BY <1>1, <1>3
  <2>2. \A w \in Worker : pc[w] = "idle" /\ job[w] = NoJob
    BY <1>1
  <2>3. job \in [Worker -> Job \cup {NoJob}]
    BY <1>1
  <2>4. "idle" \notin Busy
    BY DEF Busy
  <2> QED
    BY <2>1, <2>2, <2>3, <2>4 DEF Fresh
<1>5. Reported
  <2>1. Len(<<>>) = 0
    OBVIOUS
  <2> QED
    BY <1>1, <1>2, <1>3, <2>1 DEF Reported
<1>6. Books /\ Clock /\ Sums /\ best \in 0 .. 3
  BY <1>1, <1>2 DEF Books, Clock, Sums
<1>7. Crew
  BY <1>1 DEF Crew, Steps
<1>8. Wants /\ Ids
  BY <1>1, <1>2, RestIs DEF Wants, Ids, Stage
<1>9. Admitted = {} /\ \A o \in Owner : {w \in Admitted : Of(w) = o} = {}
  BY <1>1 DEF Admitted, Busy
<1>10. Counts
  <2>1. Cardinality({}) = 0
    BY FS_EmptySet
  <2> QED
    BY <1>1, <1>2, <1>9, <2>1 DEF Counts
<1>11. Cached
  <2>1. ASSUME NEW o \in Owner PROVE Priority(o) = 3
    <3>1. queue[o] = <<>> /\ quit[o] = FALSE
      BY <1>1
    <3>2. quit[o] \/ queue[o] = <<>>
      BY <3>1
    <3>3. ~QueuedInteractive(o)
      BY <3>1 DEF QueuedInteractive
    <3> QED
      BY <3>2, <3>3 DEF Priority
  <2>2. Waiting \cup {3} = {3}
    BY <1>1, <2>1 DEF Waiting
  <2>3. {3} \in SUBSET Nat /\ {3} # {}
    OBVIOUS
  <2>4. Earliest({3}) \in {3}
    BY <2>3, EarliestOf
  <2> QED
    BY <1>1, <2>2, <2>4 DEF Cached, BestRunnable
<1>12. Sleepers /\ Departed
  BY <1>1, Workers DEF Sleepers, Departed
<1>13. Emptied /\ Freed
  BY <1>1, RestIs DEF Emptied, Freed
<1>14. Limited
  <2>1. ASSUME NEW o \in Owner PROVE Len(queue[o]) + InFlight(o) <= MaxOutstanding
    <3>1. {w \in Worker : Of(w) = o /\ pc[w] \in Busy} = {}
      BY <1>1 DEF Busy
    <3>2. InFlight(o) = 0
      BY <3>1, FS_EmptySet DEF InFlight
    <3>3. Len(queue[o]) = 0
      BY <1>1
    <3> QED
      BY <1>2, <3>2, <3>3
  <2> QED
    BY <2>1 DEF Limited
<1>15. IdleIsOver
  BY <1>1, PoolAssumption DEF IdleIsOver
<1> QED
  BY <1>4, <1>5, <1>6, <1>7, <1>8, <1>10, <1>11, <1>12, <1>13, <1>14, <1>15, InvParts, Zenon

LEMMA StutterInv == IInv /\ UNCHANGED vars => IInv'
<1> SUFFICES ASSUME IInv, UNCHANGED vars PROVE IInv'
  OBVIOUS
<1>1. UNCHANGED <<queue, results, epoch, quit, active, owners, admitted, running, best, asleep,
                  pc, job, yielded, want, ui, calls>>
  BY Zenon DEF vars, service, shares, workers
<1>2. TypeOK'
  BY <1>1 DEF IInv, TypeOK
<1>3. InTime' /\ Emptied' /\ IdleIsOver'
  BY <1>1 DEF IInv, InTime, Emptied, IdleIsOver, Remaining, PendingFor, Answered, Answers
<1>4. BestRunnable' = BestRunnable /\ \A o : Priority(o)' = Priority(o)
  BY <1>1, BestStands, RankStands, Zenon
<1>5. Admitted' = Admitted /\ \A o : (Acquires(o)' <=> Acquires(o)) /\ InFlight(o)' = InFlight(o)
  BY <1>1, <1>4 DEF Admitted, Acquires, InFlight
<1>6. ScheduleHolds'
  BY <1>1, <1>4, <1>5 DEF IInv, ScheduleHolds, Notifying, Claiming
<1>7. ImageIsFree'
  BY <1>1 DEF IInv, ImageIsFree, InFlight
<1> QED
  BY <1>2, <1>3, <1>6, <1>7, Zenon DEF IInv

\* Every step of a worker or of the interface keeps the invariant.
LEMMA StepInv == IInv /\ Next => IInv'
<1> SUFFICES ASSUME IInv, Next PROVE IInv'
  OBVIOUS
<1>1. /\ Fresh /\ Reported /\ Books /\ Clock /\ Sums /\ best \in 0 .. 3 /\ Crew /\ Wants /\ Ids
      /\ Counts /\ Cached /\ Sleepers /\ Emptied /\ Freed /\ Limited /\ Departed /\ IdleIsOver
  BY InvParts, Zenon
<1>2. Books' /\ Clock' /\ \A o \in Owner : epoch[o] <= epoch'[o]
  BY <1>1, StepBooks
<1>3. Fresh'
  BY <1>1, <1>2, StepFresh
<1>4. ui \in Stage /\ quit \in [Owner -> BOOLEAN]
  BY <1>1, Zenon DEF Wants, Stage, Books
<1>5. Counts' /\ Sums' /\ Cached' /\ best' \in 0 .. 3 /\ Sleepers' /\ Crew' /\ Departed'
  BY <1>1, <1>4, StepCounts, StepCached, StepSleepers, StepCrew, StepDeparted
<1>6. Wants' /\ Ids' /\ Reported' /\ Limited'
  BY <1>1, StepWants, StepReported, StepLimited
<1>7. Emptied' /\ Freed'
  BY <1>1, <1>4, StepEmptied, StepFreed
<1>8. IdleIsOver'
  BY <1>1, <1>3, StepIdle
<1> QED
  <2>1. (/\ Fresh /\ Reported /\ Books /\ Clock /\ Sums /\ best \in 0 .. 3 /\ Crew /\ Wants
         /\ Ids /\ Counts /\ Cached /\ Sleepers /\ Emptied /\ Freed /\ Limited /\ Departed
         /\ IdleIsOver)' => IInv'
    BY InvParts, PTL
  <2> QED
    BY <1>2, <1>3, <1>5, <1>6, <1>7, <1>8, <2>1, Zenon

\* The inductive invariant: books, cache, sleepers, the emptied queue of whom the
\* interface waits for, and that nothing is left of an idle view.
THEOREM Invariance == Spec => []IInv
<1>1. IInv /\ [Next]_vars => IInv'
  BY StepInv, StutterInv
<1> QED
  BY InitInv, <1>1, PTL DEF Spec

\* Queues hold jobs, and results results, of their own service, at most as many as
\* there is room for; a worker has a job exactly while it works on one.
THEOREM TypeCorrect == Spec => []TypeOK
<1>1. IInv => TypeOK
  BY Zenon DEF IInv
<1> QED
  BY <1>1, Invariance, PTL

\* The scheduler's counts are those of the workers and within its bounds, what it
\* has cached is true, and nobody sleeps who could be admitted (Scheduler::acquire,
\* refreshLocked); an image that waitIdle has freed is read by no worker, the limit
\* on jobs holds, and no worker outlives its service.
THEOREM PoolAlwaysSound == Spec => []PoolIsSound
<1>1. IInv => PoolIsSound
  BY Zenon DEF IInv, PoolIsSound
<1> QED
  BY <1>1, Invariance, PTL

\* Only the check after the drain takes a mark away in that state, and of a view it
\* does so in the second idle frame, when no answer is left.
LEMMA GivingUp ==
  ASSUME IInv, Next, NEW t \in Interactive
  PROVE  ~GivenUpInVain(t)
<1> SUFFICES ASSUME ui.at = "drained", want[t].on, ~want'[t].on, Answered(t) PROVE FALSE
  BY DEF GivenUpInVain
<1>1. Wants /\ IdleIsOver /\ Books /\ Fresh /\ Crew
  BY InvParts, Zenon
<1>2. t \in Target /\ Patience[t] \in Nat /\ Patience[t] >= 2
  BY PoolAssumption
<1>3. want[t].idle \in Nat /\ want \in [Target -> Mark]
  BY <1>1, <1>2 DEF Wants, Mark
<1>4. CASE Check
  <2>1. want' = [u \in Target |->
           IF OwnerOf[u] # ui.of \/ ~want[u].on THEN want[u]
           ELSE IF GivenUp(u) THEN [want[u] EXCEPT !.on = FALSE, !.idle = 0]
           ELSE [want[u] EXCEPT !.idle = Idles(u)]]
    BY <1>4, Zenon DEF Check
  <2>2. OwnerOf[t] = ui.of /\ GivenUp(t)
    BY <1>2, <1>3, <2>1 DEF Mark
  <2>3. CASE Idles(t) >= Patience[t]
    <3>1. want[t].idle # 0
      BY <1>2, <1>3, <2>3 DEF Idles
    <3> QED
      BY <1>1, <2>2, <3>1, Zenon DEF IdleIsOver
  <2>4. CASE want[t].epoch # epoch[OwnerOf[t]]
    BY <2>4 DEF Answered, Answers
  <2> QED
    BY <2>2, <2>3, <2>4, Zenon DEF GivenUp
<1>5. ASSUME UNCHANGED want PROVE FALSE
  BY <1>5
<1>6. ASSUME NEW w \in Worker,
             Acquire(w) \/ Wake(w) \/ Claim(w) \/ Works(w) \/ End(w) \/ Release(w)
      PROVE  FALSE
  BY <1>1, <1>5, <1>6, WorkerMoves, Zenon
<1>7. ASSUME NEW u \in Target, Request(u) PROVE FALSE
  BY <1>7 DEF Request, Free
<1>8. ASSUME NEW o \in Owner, Commands(o) \/ Drain(o) PROVE FALSE
  BY <1>8 DEF Commands, CancelPending, CancelAndWait, BumpEpoch, SetActiveDocument, Destroy, Drain,
              Free
<1>9. CASE Idle \/ Changed \/ NotifyUi \/ Join
  BY <1>9 DEF Idle, Changed, NotifyUi, Join
<1> QED
  BY <1>4, <1>6, <1>7, <1>8, <1>9, Actors, Deeds, Zenon DEF UiStep, Returns

\* "Allow the next drain to adopt its queued result before offering retry": a view
\* is not given up while an answer to it is among the results.
THEOREM ViewsArePatient == Spec => ViewIsPatient
<1>1. IInv /\ [Next]_vars => [\A t \in Interactive : ~GivenUpInVain(t)]_vars
  BY GivingUp
<1> QED
  BY <1>1, Invariance, PTL DEF Spec, ViewIsPatient

=============================================================================
