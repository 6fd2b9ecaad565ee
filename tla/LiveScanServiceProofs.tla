------------------------ MODULE LiveScanServiceProofs ------------------------
(***************************************************************************)
(* Proofs about the live scans, for any workers, modules and bounds: the   *)
(* types, with the counts of running jobs and searches; that no cancelled  *)
(* result is delivered and no wanted one lost; and that the service is     *)
(* idle when it says so.                                                   *)
(*                                                                         *)
(* The queue and the results are reasoned about as the sets of what they   *)
(* hold: nothing is in them twice, for no token is used twice.             *)
(***************************************************************************)
EXTENDS LiveScanService, WellFoundedInduction, SequenceTheorems, FiniteSetTheorems, TLAPS

----------------------------------------------------------------------------
(* The inductive invariant.                                                *)

Running == {w \in Worker : pc[w] \notin {"idle", "exited"}}

\* A worker has a job from its taking to its end.
WorkersHold == \A w \in Worker : w \in Running <=> job[w] # NoJob

\* No two entries of a sequence have the same token.
Apart(s) == \A i, j \in DOMAIN s : s[i].token = s[j].token => i = j

\* A request is in one place, with a token of its own; and a job is not among
\* the results before it is at its end.
RequestsApart ==
  /\ Apart(queue) /\ Apart(results)
  /\ \A v, w \in Running : job[v].token = job[w].token => v = w
  /\ \A q \in Range(queue) : \A w \in Running : q.token # job[w].token
  /\ \A q \in Range(queue), r \in Range(results) : q.token # r.token
  /\ \A w \in Running, r \in Range(results) : pc[w] # "finish" => job[w].token # r.token

\* Every request that the service or a document knows of.
Known == Range(queue) \cup Range(results) \cup {job[w] : w \in Running} \cup wanted

\* Tokens and epochs grow, and the marks with them; an image is a module's.
TokensAreUsed ==
  /\ \A r \in Known : r.token < nextToken /\ r.epoch <= epoch
  /\ \A r \in Known : r.kind = "image" => r.of \in Module
  /\ \A t \in refused : t < nextToken
  /\ cut <= nextToken /\ drained <= nextToken

\* What a document wants is a search it has not cancelled, and what has the
\* search's token is that search.
WantedAreSearches ==
  \A r \in wanted :
    /\ IsPattern(r) /\ r.token \notin refused
    /\ \A x \in Known : x.token = r.token => x = r

\* What was cancelled or superseded is not queued, and its worker will see it.
RetiredIsKnown ==
  /\ \A q \in Range(queue) : q.token >= cut /\ q.token \notin refused
  /\ canceled \subseteq refused
  /\ \A w \in Running : job[w].token \in refused => IsPattern(job[w]) /\ job[w].token \in canceled
  /\ \A w \in Running : job[w].token < cut => job[w].epoch < epoch

\* A search that is wanted is where its result will come from, or is that result.
WantedIsHeld ==
  \A r \in wanted :
    r.epoch = epoch /\ r.token \notin lost =>
      \/ r \in Range(queue) \cup Range(results)
      \/ \E w \in Running : job[w] = r /\ pc[w] # "finish"

\* What is queued or running was requested after the last wait.
NothingBeforeDrained ==
  /\ \A q \in Range(queue) : q.token >= drained
  /\ \A w \in Running : job[w].token >= drained

\* While the UI thread waits, the queue stays empty.
UiIsHonest ==
  /\ uiPc \in {"ready", "announce", "request"} => (pending <=> ~Idle)
  /\ uiPc = "waiting" => queue = <<>> /\ (pending => inFlight > 0)

\* The service shuts down once, and supersedes everything.
QuitIsLast ==
  /\ quit <=> uiPc \in {"joining", "gone"}
  /\ ~quit => epoch <= MaxEpoch
  /\ quit => \A r \in wanted : r.epoch < epoch

IInv ==
  /\ TypeOK /\ WorkersHold /\ RequestsApart /\ TokensAreUsed /\ WantedAreSearches
  /\ RetiredIsKnown /\ RetiredNeverDelivered /\ SharedBounded
  /\ WantedIsHeld /\ NothingBeforeDrained /\ UiIsHonest /\ QuitIsLast

----------------------------------------------------------------------------
(* Sequences of jobs, as sets.                                             *)

\* The least number of a set: induction, as far as it is needed here.
LEMMA LeastNumber ==
  ASSUME NEW S \in SUBSET Nat, S # {}
  PROVE  \E m \in S : \A k \in S : m <= k
<1> DEFINE R == OpToRel(<, Nat)
<1>1. IsWellFoundedOn(R, Nat)
  BY NatLessThanWellFounded
<1>2. \A k, m \in Nat : k < m => <<k, m>> \in R
  BY DEF OpToRel
<1> HIDE DEF R
<1>3. PICK m \in S : \A k \in S : ~(<<k, m>> \in R)
  BY <1>1, WFMin
<1>4. \A k \in S : ~(k < m)
  BY <1>2, <1>3
<1> QED
  BY <1>4

\* A request with a token of its own joins a sequence.
LEMMA AppendOne ==
  ASSUME NEW s \in Seq(Jobs), NEW r \in Jobs, Apart(s), \A x \in Range(s) : x.token # r.token
  PROVE  /\ Append(s, r) \in Seq(Jobs) /\ Apart(Append(s, r))
         /\ Range(Append(s, r)) = Range(s) \cup {r}
         /\ Append(s, r) # <<>> /\ Append(s, r)[Len(Append(s, r))] = r
<1>1. /\ Append(s, r) \in Seq(Jobs) /\ Len(Append(s, r)) = Len(s) + 1
      /\ \A i \in 1 .. Len(s) : Append(s, r)[i] = s[i]
      /\ Append(s, r)[Len(s) + 1] = r
  BY AppendProperties
<1>2. DOMAIN s = 1 .. Len(s) /\ DOMAIN Append(s, r) = 1 .. Len(s) + 1 /\ Len(s) \in Nat
  BY <1>1, LenProperties
<1>3. \A i \in 1 .. Len(s) : s[i] \in Range(s)
  BY <1>2 DEF Range
<1>4. \A x \in Range(s) : \E i \in 1 .. Len(s) : x = s[i]
  BY <1>2 DEF Range
<1>5. Apart(Append(s, r))
  BY <1>1, <1>2, <1>3 DEF Apart
<1>6. Range(Append(s, r)) = Range(s) \cup {r}
  <2>1. \A i \in 1 .. Len(s) + 1 : i \in 1 .. Len(s) \/ i = Len(s) + 1
    BY <1>2
  <2>2. Range(Append(s, r)) \subseteq Range(s) \cup {r}
    BY <1>1, <1>2, <1>3, <2>1 DEF Range
  <2>3. Range(s) \cup {r} \subseteq Range(Append(s, r))
    BY <1>1, <1>2, <1>4 DEF Range
  <2> QED
    BY <2>2, <2>3
<1> QED
  BY <1>1, <1>2, <1>5, <1>6, EmptySeq

\* What is left of a sequence when one entry is taken out of it.
LEMMA RemoveOne ==
  ASSUME NEW s \in Seq(Jobs), NEW i \in DOMAIN s, Apart(s)
  PROVE  /\ RemoveAt(s, i) \in Seq(Jobs) /\ Apart(RemoveAt(s, i))
         /\ Range(RemoveAt(s, i)) = Range(s) \ {s[i]}
<1> DEFINE t == RemoveAt(s, i)
           a == SubSeq(s, 1, i - 1)
           b == SubSeq(s, i + 1, Len(s))
<1>1. i \in 1 .. Len(s) /\ Len(s) \in Nat /\ DOMAIN s = 1 .. Len(s)
  BY LenProperties
<1>2. /\ a \in Seq(Jobs) /\ Len(a) = i - 1
      /\ \A j \in 1 .. i - 1 : a[j] = s[j]
  BY <1>1, SubSeqProperties
<1>3. /\ b \in Seq(Jobs) /\ Len(b) = Len(s) - i
      /\ \A j \in 1 .. Len(s) - i : b[j] = s[j + i]
  <2>1. /\ i + 1 \in Int /\ Len(s) \in Int
        /\ \A j \in i + 1 .. Len(s) : s[j] \in Jobs
    BY <1>1, ElementOfSeq
  <2>2. /\ b \in Seq(Jobs) /\ Len(b) = IF i + 1 <= Len(s) THEN Len(s) - (i + 1) + 1 ELSE 0
        /\ \A j \in 1 .. Len(s) - (i + 1) + 1 : b[j] = s[(i + 1) + j - 1]
    BY <2>1, SubSeqProperties
  <2> HIDE DEF b
  <2>3. Len(b) = Len(s) - i /\ Len(s) - (i + 1) + 1 = Len(s) - i
    BY <1>1, <2>2
  <2>4. ASSUME NEW j \in 1 .. Len(s) - i PROVE b[j] = s[j + i]
    <3>1. (i + 1) + j - 1 = j + i
      BY <1>1
    <3>2. b[j] = s[(i + 1) + j - 1]
      BY <2>2, <2>3, Zenon
    <3> QED
      BY <3>1, <3>2, Zenon
  <2> QED
    BY <2>2, <2>3, <2>4, Zenon
<1>4. t = a \o b
  BY DEF RemoveAt
<1> HIDE DEF t, a, b
<1>5. /\ t \in Seq(Jobs) /\ Len(t) = Len(a) + Len(b)
      /\ \A j \in 1 .. Len(a) + Len(b) : t[j] = IF j <= Len(a) THEN a[j] ELSE b[j - Len(a)]
  BY <1>2, <1>3, <1>4, ConcatProperties
<1>6. /\ DOMAIN t = 1 .. Len(s) - 1
      /\ \A j \in 1 .. Len(s) - 1 : t[j] = IF j < i THEN s[j] ELSE s[j + 1]
  <2>1. Len(t) = Len(s) - 1 /\ DOMAIN t = 1 .. Len(t)
    BY <1>1, <1>2, <1>3, <1>5, LenProperties
  <2> SUFFICES ASSUME NEW j \in 1 .. Len(s) - 1
               PROVE  t[j] = IF j < i THEN s[j] ELSE s[j + 1]
    BY <2>1
  <2>2. CASE j < i
    <3>1. j \in 1 .. Len(a) + Len(b) /\ j <= Len(a) /\ j \in 1 .. i - 1
      BY <1>1, <1>2, <1>3, <2>2
    <3>2. t[j] = a[j] /\ a[j] = s[j]
      BY <1>2, <1>5, <3>1, Zenon
    <3> QED
      BY <2>2, <3>2, Zenon
  <2>3. CASE j >= i
    <3>1. PICK k \in 1 .. Len(s) - i : k + i = j + 1 /\ j - Len(a) = k
      BY <1>1, <1>2, <2>3
    <3>2. t[j] = b[k]
      <4>1. j \in 1 .. Len(a) + Len(b) /\ ~(j <= Len(a))
        BY <1>1, <1>2, <1>3, <2>3
      <4>2. t[j] = b[j - Len(a)]
        BY <1>5, <4>1, Zenon
      <4> QED
        BY <3>1, <4>2, Zenon
    <3>3. b[k] = s[j + 1]
      BY <1>3, <3>1
    <3> QED
      BY <1>1, <2>3, <3>2, <3>3
  <2> QED
    BY <1>1, <2>2, <2>3
<1>7. Apart(t)
  <2> DEFINE from(j) == IF j < i THEN j ELSE j + 1
  <2>1. \A j \in DOMAIN t : from(j) \in DOMAIN s /\ t[j] = s[from(j)]
    BY <1>1, <1>6
  <2>2. \A j, k \in DOMAIN t : from(j) = from(k) => j = k
    BY <1>1, <1>6
  <2> HIDE DEF from
  <2> SUFFICES ASSUME NEW j \in DOMAIN t, NEW k \in DOMAIN t, t[j].token = t[k].token
               PROVE  j = k
    BY Zenon DEF Apart
  <2>3. s[from(j)].token = s[from(k)].token
    BY <2>1, Zenon
  <2>4. from(j) = from(k)
    BY <2>1, <2>3, Zenon DEF Apart
  <2> QED
    BY <2>2, <2>4, Zenon
<1>8. Range(t) \subseteq Range(s) \ {s[i]}
  <2> SUFFICES ASSUME NEW j \in 1 .. Len(s) - 1
               PROVE  t[j] \in Range(s) \ {s[i]}
    BY <1>6 DEF Range
  <2>1. PICK k \in 1 .. Len(s) : k # i /\ t[j] = s[k]
    BY <1>1, <1>6
  <2>2. s[k] # s[i]
    BY <1>1, <2>1 DEF Apart
  <2> QED
    BY <1>1, <2>1, <2>2 DEF Range
<1>9. Range(s) \ {s[i]} \subseteq Range(t)
  <2> SUFFICES ASSUME NEW k \in 1 .. Len(s), s[k] # s[i]
               PROVE  s[k] \in Range(t)
    BY <1>1 DEF Range
  <2>1. k < i \/ k > i
    BY <1>1
  <2>2. CASE k < i
    BY <1>1, <1>6, <2>2 DEF Range
  <2>3. CASE k > i
    <3>1. k - 1 \in 1 .. Len(s) - 1 /\ t[k - 1] = s[k]
      BY <1>1, <1>6, <2>3
    <3> QED
      BY <1>6, <3>1 DEF Range
  <2> QED
    BY <2>1, <2>2, <2>3
<1> QED
  BY <1>5, <1>7, <1>8, <1>9 DEF t

\* The index of the first entry of a set of indices.
LEMMA FirstOf ==
  ASSUME NEW n \in Nat, NEW I \in SUBSET (1 .. n), I # {}
  PROVE  Min(I) \in I
<1>1. \E m \in I : \A k \in I : m <= k
  BY LeastNumber
<1> QED
  BY <1>1 DEF Min

\* A request is taken out of a sequence, if it is there.
LEMMA RemoveEntry ==
  ASSUME NEW s \in Seq(Jobs), NEW r, Apart(s)
  PROVE  /\ RemoveFirst(s, r) \in Seq(Jobs) /\ Apart(RemoveFirst(s, r))
         /\ Range(RemoveFirst(s, r)) = Range(s) \ {r}
<1>1. DOMAIN s = 1 .. Len(s) /\ Len(s) \in Nat
  BY LenProperties
<1> DEFINE I == {i \in 1 .. Len(s) : s[i] = r}
<1>2. CASE I = {}
  <2>1. RemoveFirst(s, r) = s
    BY <1>2 DEF RemoveFirst
  <2>2. r \notin Range(s)
    BY <1>1, <1>2 DEF Range
  <2> QED
    BY <2>1, <2>2
<1>3. CASE I # {}
  <2>1. RemoveFirst(s, r) = RemoveAt(s, Min(I))
    BY <1>3 DEF RemoveFirst, SelectInSeq
  <2>2. Min(I) \in I
    <3> HIDE DEF I
    <3>1. I \in SUBSET (1 .. Len(s))
      BY DEF I
    <3> QED
      BY <1>1, <1>3, <3>1, FirstOf
  <2>3. Min(I) \in DOMAIN s /\ s[Min(I)] = r
    BY <1>1, <2>2
  <2> HIDE DEF I
  <2> QED
    BY <2>1, <2>3, RemoveOne
<1> QED
  BY <1>2, <1>3

\* A worker takes the head of the queue.
LEMMA TakeHead ==
  ASSUME NEW s \in Seq(Jobs), s # <<>>, Apart(s)
  PROVE  /\ Head(s) \in Range(s) /\ Head(s) \in Jobs
         /\ Tail(s) \in Seq(Jobs) /\ Apart(Tail(s))
         /\ Range(Tail(s)) = Range(s) \ {Head(s)}
<1>1. /\ DOMAIN s = 1 .. Len(s) /\ Len(s) \in Nat /\ Len(s) # 0
      /\ Head(s) = s[1] /\ Tail(s) \in Seq(Jobs)
  BY LenProperties, EmptySeq, HeadTailProperties
<1>2. /\ DOMAIN Tail(s) = 1 .. Len(s) - 1
      /\ \A j \in 1 .. Len(s) - 1 : Tail(s)[j] = s[j + 1]
  BY <1>1, HeadTailProperties, LenProperties
<1>3. Apart(Tail(s))
  BY <1>1, <1>2 DEF Apart
<1>4. Range(Tail(s)) \subseteq Range(s) \ {s[1]}
  <2> SUFFICES ASSUME NEW j \in 1 .. Len(s) - 1
               PROVE  s[j + 1] \in Range(s) \ {s[1]}
    BY <1>2 DEF Range
  <2>1. j + 1 \in DOMAIN s /\ 1 \in DOMAIN s /\ j + 1 # 1
    BY <1>1
  <2> QED
    BY <2>1 DEF Range, Apart
<1>5. Range(s) \ {s[1]} \subseteq Range(Tail(s))
  <2> SUFFICES ASSUME NEW k \in 1 .. Len(s), s[k] # s[1]
               PROVE  s[k] \in Range(Tail(s))
    BY <1>1 DEF Range
  <2>1. k - 1 \in 1 .. Len(s) - 1 /\ Tail(s)[k - 1] = s[k]
    BY <1>1, <1>2
  <2> QED
    BY <1>2, <2>1 DEF Range
<1>6. s[1] \in Range(s) /\ s[1] \in Jobs
  BY <1>1, ElementOfSeq DEF Range
<1> QED
  BY <1>1, <1>3, <1>4, <1>5, <1>6

\* The first shared result, if there is one.
LEMMA FirstShared ==
  ASSUME NEW s \in Seq(Jobs)
  PROVE  /\ SelectInSeq(s, IsShared) # 0 =>
              SelectInSeq(s, IsShared) \in DOMAIN s /\ IsShared(s[SelectInSeq(s, IsShared)])
         /\ (\E r \in Range(s) : IsShared(r)) => SelectInSeq(s, IsShared) # 0
<1> DEFINE I == {i \in 1 .. Len(s) : IsShared(s[i])}
<1>1. DOMAIN s = 1 .. Len(s) /\ Len(s) \in Nat
  BY LenProperties
<1>2. SelectInSeq(s, IsShared) = IF I # {} THEN Min(I) ELSE 0
  BY DEF SelectInSeq
<1>3. I # {} => Min(I) \in I
  <2> HIDE DEF I
  <2>1. I \in SUBSET (1 .. Len(s))
    BY DEF I
  <2> QED
    BY <1>1, <2>1, FirstOf
<1>4. (\E r \in Range(s) : IsShared(r)) => I # {}
  BY <1>1 DEF Range
<1>5. I # {} => Min(I) \in DOMAIN s /\ IsShared(s[Min(I)]) /\ Min(I) # 0
  BY <1>1, <1>3
<1> HIDE DEF I
<1> QED
  BY <1>2, <1>4, <1>5

Shared(s) == {r \in Range(s) : IsShared(r)}

\* The shared entries are as many as the places they are in.
LEMMA SharedPlaces ==
  ASSUME NEW s \in Seq(Jobs), Apart(s)
  PROVE  /\ IsFiniteSet(Shared(s))
         /\ Cardinality({i \in DOMAIN s : IsShared(s[i])}) = Cardinality(Shared(s))
<1> DEFINE I == {i \in DOMAIN s : IsShared(s[i])}
           f == [i \in I |-> s[i]]
<1>1. IsFiniteSet(I)
  <2>1. DOMAIN s = 1 .. Len(s) /\ Len(s) \in Nat
    BY LenProperties
  <2>2. IsFiniteSet(1 .. Len(s))
    BY <2>1, FS_Interval
  <2> QED
    BY <2>1, <2>2, FS_Subset
<1>2. f \in Bijection(I, Shared(s))
  <2>1. \A i, j \in I : f[i] = f[j] => i = j
    BY DEF Apart
  <2>2. \A i \in I : f[i] \in Shared(s)
    BY DEF Shared, Range
  <2>3. \A r \in Shared(s) : \E i \in I : f[i] = r
    BY DEF Shared, Range
  <2>4. f \in [I -> Shared(s)]
    BY <2>2
  <2> HIDE DEF f, I
  <2> QED
    BY <2>1, <2>3, <2>4 DEF Bijection, Injection, Surjection, IsInjective
<1> HIDE DEF f, I
<1>3. ExistsBijection(I, Shared(s))
  BY <1>2 DEF ExistsBijection
<1>4. IsFiniteSet(Shared(s)) /\ Cardinality(Shared(s)) = Cardinality(I)
  BY <1>1, <1>3, FS_Bijection
<1> QED
  BY <1>4 DEF I

----------------------------------------------------------------------------
(* What a step does to the invariant.                                      *)

\* Type correctness in three parts: the truth values and the counts apart.
Flags == pending \in BOOLEAN /\ quit \in BOOLEAN

Counts ==
  /\ inFlight = Cardinality(Running)
  /\ inFlightPatterns = {job[w].token : w \in {v \in Worker : IsPattern(job[v])}}
  /\ canceled \subseteq inFlightPatterns

Types ==
  /\ queue \in Seq(Jobs) /\ results \in Seq(Jobs)
  /\ sharedCount \in 0 .. MaxShared
  /\ epoch \in 1 .. MaxEpoch + 1
  /\ nextToken \in 1 .. MaxRequests + 1
  /\ batchTotal \in Nat /\ batchDone \in Nat
  /\ pc \in [Worker -> {"idle", "scan", "read", "publish", "publishLocked", "failed", "finish",
                        "exited"}]
  /\ job \in [Worker -> Jobs \cup {NoJob}]
  /\ uiPc \in {"ready", "announce", "request", "waiting", "joining", "gone"}
  /\ asking \subseteq Module /\ wanted \subseteq Jobs
  /\ marked \subseteq Module /\ loaded \subseteq Module
  /\ cut \in 1 .. MaxRequests + 1 /\ drained \in 1 .. MaxRequests + 1
  /\ refused \subseteq Tokens /\ lost \subseteq Tokens

\* The three parts are type correctness.
LEMMA Parts == TypeOK <=> Types /\ Flags /\ Counts
  BY Zenon DEF TypeOK, Types, Flags, Counts, Running

\* The counts stand when the busy workers and their jobs do.
LEMMA CountsStand ==
  ASSUME Counts, Running' = Running, job' = job, inFlight' = inFlight,
         inFlightPatterns' = inFlightPatterns, canceled' = canceled
  PROVE  Counts'
<1>1. inFlight' = Cardinality(Running')
  BY Zenon DEF Counts
<1>2. inFlightPatterns' = {job'[w].token : w \in {v \in Worker : IsPattern(job'[v])}}
  BY Zenon DEF Counts
<1>3. canceled' \subseteq inFlightPatterns'
  BY Zenon DEF Counts
<1> QED
  BY <1>1, <1>2, <1>3, Zenon DEF Counts

\* The delivered results as a set.
LEMMA Delivered ==
  ASSUME results \in Seq(Jobs)
  PROVE  RetiredNeverDelivered <=> \A r \in Range(results) : r.token >= cut /\ r.token \notin refused
  BY DEF RetiredNeverDelivered, Range

\* The shared results as a set.
LEMMA Bounded ==
  ASSUME results \in Seq(Jobs), Apart(results)
  PROVE  /\ IsFiniteSet(Shared(results))
         /\ SharedBounded <=> sharedCount = Cardinality(Shared(results))
  BY SharedPlaces DEF SharedBounded

\* What the proofs below use of the invariant: it speaks of the queue and the
\* results as sets.
SetInv ==
  /\ Types /\ Flags /\ Counts /\ WorkersHold /\ RequestsApart /\ TokensAreUsed
  /\ WantedAreSearches /\ RetiredIsKnown
  /\ \A r \in Range(results) : r.token >= cut /\ r.token \notin refused
  /\ sharedCount = Cardinality(Shared(results)) /\ IsFiniteSet(Shared(results))
  /\ WantedIsHeld /\ NothingBeforeDrained /\ UiIsHonest /\ QuitIsLast

\* The two say the same.
LEMMA SetView == IInv <=> SetInv
<1>1. IInv => SetInv
  BY Parts, Delivered, Bounded, Zenon DEF IInv, SetInv, Types, RequestsApart
<1>2. SetInv => IInv
  BY Parts, Delivered, Bounded, Zenon DEF IInv, SetInv, Types, RequestsApart
<1> QED
  BY <1>1, <1>2

\* The entries of a sequence are jobs.
LEMMA EntriesAreJobs ==
  ASSUME Types
  PROVE  Range(queue) \subseteq Jobs /\ Range(results) \subseteq Jobs
  BY RangeOfSeq DEF Types

\* The service starts with nothing to do.
LEMMA InitInv == Init => SetInv
<1> SUFFICES ASSUME Init PROVE SetInv
  OBVIOUS
<1> USE ScanAssumption
<1>1. Range(queue) = {} /\ Range(results) = {} /\ Running = {} /\ Shared(results) = {}
  BY SMT DEF Init, Range, Running, Shared
<1>2. Cardinality({}) = 0 /\ IsFiniteSet({})
  BY FS_EmptySet
<1>3. Types
  BY EmptySeq, SMT DEF Init, Types
<1>4. Flags
  BY Zenon DEF Init, Flags
<1>5. Counts
  BY <1>1, <1>2, SMT DEF Init, Counts, IsPattern, NoJob
<1>6. RequestsApart
  BY <1>1, SMT DEF Init, RequestsApart, Apart
<1>7. UiIsHonest /\ QuitIsLast
  BY SMT DEF Init, UiIsHonest, QuitIsLast, Idle
<1>8. WorkersHold
  BY <1>1, SMT DEF Init, WorkersHold
<1>9. Known = {} /\ wanted = {} /\ refused = {} /\ canceled = {} /\ sharedCount = 0
      /\ cut = 1 /\ drained = 1 /\ nextToken = 1
  BY <1>1, Zenon DEF Init, Known
<1>10. TokensAreUsed /\ WantedAreSearches /\ RetiredIsKnown /\ WantedIsHeld /\ NothingBeforeDrained
  BY <1>1, <1>9, SMT
     DEF TokensAreUsed, WantedAreSearches, RetiredIsKnown, WantedIsHeld, NothingBeforeDrained
<1> QED
  BY <1>1, <1>2, <1>3, <1>4, <1>5, <1>6, <1>7, <1>8, <1>9, <1>10, Zenon DEF SetInv

\* What is known, one by one.
LEMMA KnownAre ==
  /\ \A x : x \in Known <=> \/ x \in Range(queue) \/ x \in Range(results) \/ x \in wanted
                            \/ \E w \in Running : x = job[w]
  /\ \A w \in Running : job[w] \in Known
  BY Zenon DEF Known

\* A request with a new token.
NewRequest(kind, m) == [token |-> nextToken, kind |-> kind, epoch |-> epoch, of |-> m]

\* What a request changes, besides the UI thread's notes.
LEMMA Enqueued ==
  ASSUME SetInv, NEW kind \in Kinds, NEW m \in Module \cup {NoModule}, Enqueue(kind, m), ~quit
  PROVE  /\ NewRequest(kind, m) \in Jobs
         /\ queue' \in Seq(Jobs) /\ Apart(queue') /\ queue' # <<>>
         /\ Range(queue') = Range(queue) \cup {NewRequest(kind, m)}
         /\ queue'[Len(queue')] = NewRequest(kind, m)
<1> DEFINE r == NewRequest(kind, m)
<1>1. r \in Jobs /\ r.token = nextToken
  BY SMT DEF NewRequest, SetInv, Types, QuitIsLast, Enqueue, Jobs, Tokens
<1>2. \A x \in Range(queue) : x.token # r.token
  BY <1>1, EntriesAreJobs, SMT DEF SetInv, Types, TokensAreUsed, Known, Jobs, Tokens
<1>3. queue \in Seq(Jobs) /\ Apart(queue) /\ queue' = Append(queue, r)
  BY Zenon DEF SetInv, Types, RequestsApart, Enqueue, NewRequest
<1> HIDE DEF r
<1> QED
  BY <1>1, <1>2, <1>3, AppendOne DEF r

\* A request of any kind keeps the invariant.
LEMMA EnqueueKeeps ==
  ASSUME SetInv, NEW kind \in Kinds, NEW m \in Module \cup {NoModule}, Enqueue(kind, m),
         kind = "image" => m \in Module, uiPc \in {"ready", "request"}, uiPc' \in {"ready", "request"}, asking' \subseteq Module,
         \/ wanted' = wanted
         \/ kind = "pattern" /\ wanted' = wanted \cup {NewRequest(kind, m)},
         UNCHANGED <<batch, marked, loaded>>
  PROVE  SetInv'
<1> DEFINE r == NewRequest(kind, m)
<1>1. ~quit
  BY SMT DEF SetInv, QuitIsLast
<1>2. /\ r \in Jobs
      /\ queue' \in Seq(Jobs) /\ Apart(queue') /\ queue' # <<>>
      /\ Range(queue') = Range(queue) \cup {r}
  BY <1>1, Enqueued
<1>3. r.token = nextToken /\ r.epoch = epoch /\ r.kind = kind /\ r.of = m
  BY SMT DEF NewRequest
<1>4. \/ wanted' = wanted
      \/ kind = "pattern" /\ wanted' = wanted \cup {r}
  OBVIOUS
<1> HIDE DEF r
<1>5. /\ nextToken <= MaxRequests /\ nextToken' = nextToken + 1
      /\ pending' = TRUE
      /\ UNCHANGED <<results, sharedCount, inFlight, inFlightPatterns, canceled, epoch, quit>>
      /\ pc' = pc /\ job' = job
      /\ UNCHANGED <<cut, refused, drained, lost, batchTotal, batchDone, marked, loaded>>
  BY Zenon DEF Enqueue, workers, marks, batch
<1>6. Running' = Running
  BY <1>5, Zenon DEF Running
<1>7. Range(results') = Range(results) /\ Shared(results') = Shared(results)
  BY <1>5, Zenon
<1>8. /\ Types /\ Flags /\ Counts /\ WorkersHold /\ RequestsApart /\ TokensAreUsed
      /\ WantedAreSearches /\ RetiredIsKnown
      /\ \A x \in Range(results) : x.token >= cut /\ x.token \notin refused
      /\ sharedCount = Cardinality(Shared(results)) /\ IsFiniteSet(Shared(results))
      /\ WantedIsHeld /\ NothingBeforeDrained /\ UiIsHonest /\ QuitIsLast
  BY Zenon DEF SetInv
<1>9. Range(queue) \subseteq Jobs /\ Range(results) \subseteq Jobs
  BY <1>8, EntriesAreJobs
<1>k. /\ \A x : x \in Known' => x \in Known \/ x = r
      /\ \A x \in Known : x.token < nextToken /\ x.epoch <= epoch
      /\ \A x \in Known : x.token \in Nat /\ x.epoch \in Nat
  <2>1. \A w \in Running : job[w] \in Jobs
    BY <1>8, SMT DEF WorkersHold, Types, Running
  <2>2. \A x \in Jobs : x.token \in Nat /\ x.epoch \in Nat
    BY SMT DEF Jobs, Tokens
  <2>3. Known \subseteq Jobs
    BY <1>8, <1>9, <2>1, Zenon DEF Known, Types
  <2>4. \A x : x \in Known' => x \in Known \/ x = r
    BY <1>2, <1>4, <1>5, <1>6, <1>7, Zenon DEF Known
  <2> QED
    BY <1>8, <2>2, <2>3, <2>4, Zenon DEF TokensAreUsed
<1>10. Types'
  BY <1>2, <1>4, <1>5, <1>8, ScanAssumption, SMT DEF Types
<1>11. Flags'
  BY <1>5, <1>8, Zenon DEF Flags
<1>12. Counts' /\ WorkersHold'
  BY <1>5, <1>6, <1>8, Zenon DEF Counts, WorkersHold
<1>13. RequestsApart'
  BY <1>2, <1>3, <1>5, <1>6, <1>7, <1>8, <1>k, KnownAre, SMT DEF RequestsApart
<1>14. TokensAreUsed'
  BY <1>3, <1>5, <1>8, <1>k, SMT DEF TokensAreUsed, Types, Tokens
<1>15. WantedAreSearches'
  BY <1>3, <1>4, <1>5, <1>8, <1>k, KnownAre, SMT DEF WantedAreSearches, TokensAreUsed, IsPattern,
                                                Types, Tokens
<1>16. RetiredIsKnown'
  BY <1>2, <1>3, <1>5, <1>6, <1>8, SMT DEF RetiredIsKnown, TokensAreUsed, Types, Tokens
<1>17. WantedIsHeld' /\ NothingBeforeDrained'
  BY <1>2, <1>3, <1>4, <1>5, <1>6, <1>7, <1>8, SMT
     DEF WantedIsHeld, NothingBeforeDrained, TokensAreUsed, Types, Tokens
<1>18. UiIsHonest' /\ QuitIsLast'
  BY <1>1, <1>2, <1>5, <1>8, SMT DEF UiIsHonest, QuitIsLast, Idle
<1> QED
  BY <1>5, <1>7, <1>8, <1>10, <1>11, <1>12, <1>13, <1>14, <1>15, <1>16, <1>17, <1>18, Zenon
     DEF SetInv

\* The parts of the invariant are at hand.
LEMMA InvParts ==
  SetInv =>
    /\ Types /\ Flags /\ Counts /\ WorkersHold /\ RequestsApart /\ TokensAreUsed
    /\ WantedAreSearches /\ RetiredIsKnown
    /\ \A x \in Range(results) : x.token >= cut /\ x.token \notin refused
    /\ sharedCount = Cardinality(Shared(results)) /\ IsFiniteSet(Shared(results))
    /\ WantedIsHeld /\ NothingBeforeDrained /\ UiIsHonest /\ QuitIsLast
  BY Zenon DEF SetInv

\* Whatever is known is a job, with a token and an epoch that were used.
LEMMA KnownTypes ==
  ASSUME SetInv
  PROVE  /\ \A w \in Running : w \in Worker /\ job[w] \in Jobs
         /\ Known \subseteq Jobs
         /\ \A x \in Jobs : x.token \in Nat /\ x.epoch \in Nat
         /\ \A x \in Known : x.token < nextToken /\ x.epoch <= epoch
         /\ nextToken \in Nat /\ epoch \in Nat /\ cut \in Nat /\ drained \in Nat
         /\ wanted \subseteq Known /\ Range(queue) \subseteq Known /\ Range(results) \subseteq Known
         /\ \A w \in Running : job[w] \in Known
<1>1. Range(queue) \subseteq Jobs /\ Range(results) \subseteq Jobs
  BY EntriesAreJobs DEF SetInv
<1>2. \A w \in Running : w \in Worker /\ job[w] \in Jobs
  BY SMT DEF SetInv, WorkersHold, Types, Running
<1>3. Known \subseteq Jobs
  BY <1>1, <1>2, Zenon DEF SetInv, Known, Types
<1>4. \A x \in Jobs : x.token \in Nat /\ x.epoch \in Nat
  BY SMT DEF Jobs, Tokens
<1>5. \A x \in Known : x.token < nextToken /\ x.epoch <= epoch
  BY Zenon DEF SetInv, TokensAreUsed
<1>6. nextToken \in Nat /\ epoch \in Nat /\ cut \in Nat /\ drained \in Nat
  BY SMT DEF SetInv, Types
<1>7. /\ wanted \subseteq Known /\ Range(queue) \subseteq Known /\ Range(results) \subseteq Known
      /\ \A w \in Running : job[w] \in Known
  BY Zenon DEF Known
<1> QED
  BY <1>2, <1>3, <1>4, <1>5, <1>6, <1>7

\* What holds of all that is known holds when less is known.
LEMMA FewerKeep ==
  ASSUME SetInv, Range(queue') \subseteq Range(queue), Range(results') \subseteq Range(results),
         wanted' \subseteq wanted, Apart(queue'), Apart(results'), pc' = pc, job' = job,
         nextToken' = nextToken, epoch' = epoch \/ epoch' = epoch + 1, drained' = drained,
         cut' = cut \/ cut' = nextToken, \A t \in refused' : t < nextToken
  PROVE  /\ Running' = Running /\ Known' \subseteq Known
         /\ WorkersHold' /\ RequestsApart' /\ TokensAreUsed' /\ NothingBeforeDrained'
         /\ \A r \in wanted' : IsPattern(r) /\ \A x \in Known' : x.token = r.token => x = r
<1> USE InvParts, KnownTypes
<1>1. Running' = Running
  BY Zenon DEF Running
<1>2. Known' \subseteq Known
  BY <1>1, Zenon DEF Known
<1>3. WorkersHold' /\ NothingBeforeDrained'
  BY <1>1, Zenon DEF WorkersHold, NothingBeforeDrained
<1>4. RequestsApart'
  <2>1. \A v, w \in Running' : job'[v].token = job'[w].token => v = w
    BY <1>1, Zenon DEF RequestsApart
  <2>2. \A q \in Range(queue') : \A w \in Running' : q.token # job'[w].token
    BY <1>1, Zenon DEF RequestsApart
  <2>3. \A q \in Range(queue'), r \in Range(results') : q.token # r.token
    BY Zenon DEF RequestsApart
  <2>4. \A w \in Running', r \in Range(results') : pc'[w] # "finish" => job'[w].token # r.token
    BY <1>1, Zenon DEF RequestsApart
  <2> HIDE InvParts, KnownTypes
  <2> QED
    BY <2>1, <2>2, <2>3, <2>4, Zenon DEF RequestsApart
<1>5. TokensAreUsed'
  BY <1>2, SMT DEF TokensAreUsed
<1>6. \A r \in wanted' : IsPattern(r) /\ \A x \in Known' : x.token = r.token => x = r
  BY <1>2, Zenon DEF WantedAreSearches
<1> QED
  BY <1>1, <1>2, <1>3, <1>4, <1>5, <1>6

\* A document takes the result of its search.
LEMMA TakePatternKeeps ==
  ASSUME SetInv, TakePattern
  PROVE  SetInv'
<1> USE InvParts, KnownTypes
<1>1. PICK r \in wanted : /\ Contains(results, r) /\ results' = RemoveFirst(results, r)
                          /\ wanted' = wanted \ {r}
  BY Zenon DEF TakePattern
<1>2. /\ queue' = queue /\ sharedCount' = sharedCount /\ inFlight' = inFlight
      /\ inFlightPatterns' = inFlightPatterns /\ canceled' = canceled /\ epoch' = epoch
      /\ pending' = pending /\ quit' = quit /\ nextToken' = nextToken
      /\ batchTotal' = batchTotal /\ batchDone' = batchDone /\ pc' = pc /\ job' = job
      /\ uiPc' = uiPc /\ asking' = asking /\ marked' = marked /\ loaded' = loaded
      /\ cut' = cut /\ refused' = refused /\ drained' = drained /\ lost' = lost
  BY Zenon DEF TakePattern, batch, workers, marks
<1>3. /\ results' \in Seq(Jobs) /\ Apart(results') /\ Range(results') = Range(results) \ {r}
  BY <1>1, RemoveEntry, Zenon DEF Types, RequestsApart
<1>4. IsPattern(r) /\ Shared(results') = Shared(results)
  BY <1>1, <1>3, SMT DEF WantedAreSearches, Shared, IsPattern, IsShared
<1>5. /\ Running' = Running /\ Known' \subseteq Known
      /\ WorkersHold' /\ RequestsApart' /\ TokensAreUsed' /\ NothingBeforeDrained'
      /\ \A x \in wanted' : IsPattern(x) /\ \A y \in Known' : y.token = x.token => y = x
  BY <1>1, <1>2, <1>3, FewerKeep, Zenon DEF RequestsApart, TokensAreUsed
<1>6. Types'
  BY <1>1, <1>2, <1>3, Zenon DEF Types
<1>7. Flags' /\ Counts'
  <2>1. Flags'
    BY <1>2, Zenon DEF Flags
  <2>2. Counts'
    BY <1>2, <1>5, CountsStand, Zenon
  <2> QED
    BY <2>1, <2>2
<1>8. WantedAreSearches'
  BY <1>1, <1>2, <1>5, Zenon DEF WantedAreSearches
<1>9. RetiredIsKnown'
  BY <1>2, <1>5, Zenon DEF RetiredIsKnown
<1>10. WantedIsHeld'
  BY <1>1, <1>2, <1>3, <1>5, Zenon DEF WantedIsHeld
<1>11. UiIsHonest' /\ QuitIsLast'
  BY <1>1, <1>2, Zenon DEF UiIsHonest, QuitIsLast, Idle
<1> QED
  BY <1>2, <1>3, <1>4, <1>5, <1>6, <1>7, <1>8, <1>9, <1>10, <1>11, Zenon DEF SetInv

\* The view takes the oldest shared result.
LEMMA TakeSharedKeeps ==
  ASSUME SetInv, TakeShared
  PROVE  SetInv'
<1> USE InvParts, KnownTypes
<1> DEFINE found == SelectInSeq(results, IsShared)
           r == results[found]
<1>1. /\ found # 0 /\ results' = RemoveAt(results, found) /\ sharedCount' = sharedCount - 1
      /\ \/ marked' = marked \ {r.of} /\ loaded' \in {loaded, loaded \cup {r.of}}
            /\ r.kind = "image" /\ r.epoch = epoch
         \/ marked' = marked /\ loaded' = loaded
  BY Zenon DEF TakeShared
<1>2. /\ queue' = queue /\ inFlight' = inFlight
      /\ inFlightPatterns' = inFlightPatterns /\ canceled' = canceled /\ epoch' = epoch
      /\ pending' = pending /\ quit' = quit /\ nextToken' = nextToken
      /\ batchTotal' = batchTotal /\ batchDone' = batchDone /\ pc' = pc /\ job' = job
      /\ uiPc' = uiPc /\ asking' = asking /\ wanted' = wanted
      /\ cut' = cut /\ refused' = refused /\ drained' = drained /\ lost' = lost
  BY Zenon DEF TakeShared, batch, workers, marks
<1>3. found \in DOMAIN results /\ IsShared(r)
  BY <1>1, FirstShared, Zenon DEF Types
<1>4. r \in Range(results)
  BY <1>3, Zenon DEF Range
<1> HIDE DEF found, r
<1>5. /\ results' \in Seq(Jobs) /\ Apart(results') /\ Range(results') = Range(results) \ {r}
  BY <1>1, <1>3, RemoveOne, Zenon DEF Types, RequestsApart, r
<1>6. /\ Shared(results') = Shared(results) \ {r} /\ r \in Shared(results)
      /\ \A x \in Range(results) : IsPattern(x) => x \in Range(results')
  BY <1>3, <1>4, <1>5, SMT DEF Shared, IsPattern, IsShared
<1>7. /\ IsFiniteSet(Shared(results)) /\ Cardinality(Shared(results)) \in Nat
      /\ IsFiniteSet(Shared(results) \ {r})
      /\ Cardinality(Shared(results) \ {r}) = Cardinality(Shared(results)) - 1
      /\ Cardinality(Shared(results) \ {r}) \in Nat
  BY <1>6, FS_RemoveElement, FS_CardinalityType
<1>8. /\ Running' = Running /\ Known' \subseteq Known
      /\ WorkersHold' /\ RequestsApart' /\ TokensAreUsed' /\ NothingBeforeDrained'
      /\ \A x \in wanted' : IsPattern(x) /\ \A y \in Known' : y.token = x.token => y = x
  BY <1>2, <1>5, FewerKeep, Zenon DEF RequestsApart, TokensAreUsed
<1>9. Types'
  <2>1. sharedCount' \in 0 .. MaxShared /\ sharedCount' = Cardinality(Shared(results'))
    <3>1. sharedCount \in 0 .. MaxShared /\ MaxShared \in Nat
      BY ScanAssumption, Zenon DEF Types
    <3>2. sharedCount' = Cardinality(Shared(results')) /\ sharedCount' = sharedCount - 1
      BY <1>1, <1>6, <1>7, Zenon
    <3>3. Cardinality(Shared(results')) \in Nat
      BY <1>6, <1>7, Zenon
    <3> HIDE InvParts, KnownTypes
    <3> QED
      BY <3>1, <3>2, <3>3, SMT
  <2>2. marked' \subseteq Module /\ loaded' \subseteq Module
    <3>1. r.kind = "image" => r.of \in Module
      BY <1>4, Zenon DEF TokensAreUsed
    <3> QED
      BY <1>1, <3>1 DEF Types
  <2> QED
    BY <1>2, <1>5, <2>1, <2>2, Zenon DEF Types
<1>10. Flags' /\ Counts'
  <2>1. Flags'
    BY <1>2, Zenon DEF Flags
  <2>2. Counts'
    BY <1>2, <1>8, CountsStand, Zenon
  <2> QED
    BY <2>1, <2>2
<1>11. WantedAreSearches' /\ RetiredIsKnown'
  BY <1>2, <1>8, Zenon DEF WantedAreSearches, RetiredIsKnown
<1>12. WantedIsHeld'
  BY <1>2, <1>6, <1>8, Zenon DEF WantedIsHeld
<1>13. UiIsHonest' /\ QuitIsLast'
  BY <1>2, Zenon DEF UiIsHonest, QuitIsLast, Idle
<1>14. sharedCount' = Cardinality(Shared(results')) /\ IsFiniteSet(Shared(results'))
  BY <1>1, <1>6, <1>7, SMT
<1> QED
  BY <1>2, <1>5, <1>8, <1>9, <1>10, <1>11, <1>12, <1>13, <1>14, Zenon DEF SetInv

\* The tokens of running searches are in the set of them.
LEMMA RunningSearches ==
  ASSUME SetInv
  PROVE  \A w \in Running : IsPattern(job[w]) => job[w].token \in inFlightPatterns
  BY InvParts, KnownTypes, Zenon DEF Counts

\* A document cancels its search.
LEMMA CancelPatternKeeps ==
  ASSUME SetInv, CancelPattern
  PROVE  SetInv'
<1> USE InvParts, KnownTypes
<1>1. PICK r \in wanted :
        /\ queue' = RemoveFirst(queue, r) /\ results' = RemoveFirst(results, r)
        /\ canceled' = CancelsInFlight(r)
        /\ pending' = ~(queue' = <<>> /\ inFlight = 0)
        /\ wanted' = wanted \ {r} /\ refused' = refused \cup {r.token}
  BY Zenon DEF CancelPattern
<1>2. /\ sharedCount' = sharedCount /\ inFlight' = inFlight
      /\ inFlightPatterns' = inFlightPatterns /\ epoch' = epoch
      /\ quit' = quit /\ nextToken' = nextToken
      /\ batchTotal' = batchTotal /\ batchDone' = batchDone /\ pc' = pc /\ job' = job
      /\ uiPc' = uiPc /\ asking' = asking /\ marked' = marked /\ loaded' = loaded
      /\ cut' = cut /\ drained' = drained /\ lost' = lost
  BY Zenon DEF CancelPattern, batch, workers
<1>3. /\ results' \in Seq(Jobs) /\ Apart(results') /\ Range(results') = Range(results) \ {r}
      /\ queue' \in Seq(Jobs) /\ Apart(queue') /\ Range(queue') = Range(queue) \ {r}
  BY <1>1, RemoveEntry, Zenon DEF Types, RequestsApart
<1>4. IsPattern(r) /\ Shared(results') = Shared(results)
  BY <1>1, <1>3, SMT DEF WantedAreSearches, Shared, IsPattern, IsShared
<1>5. r \in Jobs /\ r.token \in Tokens /\ r.token < nextToken
  BY <1>1, SMT DEF Types, Jobs
<1>6. \A x \in Known : x.token = r.token => x = r
  BY <1>1, Zenon DEF WantedAreSearches
<1>7. /\ Running' = Running /\ Known' \subseteq Known
      /\ WorkersHold' /\ RequestsApart' /\ TokensAreUsed' /\ NothingBeforeDrained'
      /\ \A x \in wanted' : IsPattern(x) /\ \A y \in Known' : y.token = x.token => y = x
  <2>1. \A t \in refused' : t < nextToken
    BY <1>1, <1>5, Zenon DEF TokensAreUsed
  <2> QED
    BY <1>1, <1>2, <1>3, <2>1, FewerKeep, Zenon
<1>8. Types'
  BY <1>1, <1>2, <1>3, <1>5, Zenon DEF Types
<1>9. /\ canceled' \subseteq inFlightPatterns /\ canceled' \subseteq refused'
      /\ canceled \subseteq canceled'
      /\ r.token \in inFlightPatterns => r.token \in canceled'
  BY <1>1, SMT DEF CancelsInFlight, Counts, RetiredIsKnown
<1>10. Flags' /\ Counts'
  <2>1. pending' \in BOOLEAN
    BY <1>1, Zenon
  <2>2. Flags'
    BY <1>2, <2>1, Zenon DEF Flags
  <2>3. Counts'
    BY <1>2, <1>7, <1>9, Zenon DEF Counts
  <2> QED
    BY <2>2, <2>3
<1>11. WantedAreSearches'
  <2>1. \A x \in wanted' : x \in Known /\ x # r /\ x.token # r.token
    BY <1>1, <1>6, Zenon
  <2> QED
    BY <1>1, <1>7, <2>1, Zenon DEF WantedAreSearches
<1>12. /\ \A x \in Range(queue') : x \in Range(queue) /\ x.token # r.token
       /\ \A x \in Range(results') : x \in Range(results) /\ x.token # r.token
  BY <1>3, <1>6, Zenon
<1>13. RetiredIsKnown'
  <2>1. \A w \in Running : job[w].token = r.token =>
          IsPattern(job[w]) /\ job[w].token \in inFlightPatterns
    BY <1>4, <1>6, RunningSearches, Zenon
  <2>2. \A w \in Running : job[w].token \in refused' =>
          IsPattern(job[w]) /\ job[w].token \in canceled'
    <3> SUFFICES ASSUME NEW w \in Running, job[w].token \in refused'
                 PROVE  IsPattern(job[w]) /\ job[w].token \in canceled'
      OBVIOUS
    <3>1. CASE job[w].token = r.token
      BY <1>9, <2>1, <3>1, Zenon
    <3>2. CASE job[w].token \in refused
      BY <1>9, <3>2, Zenon DEF RetiredIsKnown
    <3> QED
      BY <1>1, <3>1, <3>2, Zenon
  <2>3. \A q \in Range(queue') : q.token >= cut' /\ q.token \notin refused'
    BY <1>1, <1>2, <1>12, Zenon DEF RetiredIsKnown
  <2>4. \A w \in Running : job[w].token < cut' => job[w].epoch < epoch'
    BY <1>2, Zenon DEF RetiredIsKnown
  <2> QED
    BY <1>2, <1>7, <1>9, <2>2, <2>3, <2>4, Zenon DEF RetiredIsKnown
<1>14. \A x \in Range(results') : x.token >= cut' /\ x.token \notin refused'
  BY <1>1, <1>2, <1>12, Zenon
<1>15. WantedIsHeld'
  BY <1>1, <1>2, <1>3, <1>7, Zenon DEF WantedIsHeld
<1>16. UiIsHonest'
  <2>1. uiPc = "ready" /\ uiPc # "waiting"
    BY SMT DEF CancelPattern
  <2>2. pending' <=> ~Idle'
    BY <1>1, <1>2, Zenon DEF Idle
  <2> QED
    BY <1>2, <2>1, <2>2, Zenon DEF UiIsHonest
<1>17. QuitIsLast'
  BY <1>1, <1>2, Zenon DEF QuitIsLast
<1> QED
  BY <1>2, <1>4, <1>7, <1>8, <1>10, <1>11, <1>13, <1>14, <1>15, <1>16, <1>17, Zenon DEF SetInv

\* Queue and results are emptied, and everything known is of an earlier epoch.
LEMMA EmptiedKeeps ==
  ASSUME SetInv, queue' = <<>>, results' = <<>>, sharedCount' = 0, epoch' = epoch + 1,
         cut' = nextToken, wanted' = wanted, refused' = refused, drained' = drained, lost' = lost,
         nextToken' = nextToken, pc' = pc, job' = job, inFlight' = inFlight,
         inFlightPatterns' = inFlightPatterns, canceled' = canceled,
         asking' = asking, marked' \subseteq marked, loaded' \subseteq loaded,
         batchTotal' \in Nat, batchDone' \in Nat,
         ~quit, Flags', uiPc' \in {"ready", "waiting", "joining"},
         quit' <=> uiPc' = "joining", epoch < MaxEpoch \/ quit',
         uiPc' # "joining" => (pending' => inFlight > 0),
         uiPc' = "ready" => (inFlight > 0 => pending')
  PROVE  SetInv'
<1> USE InvParts, KnownTypes
<1>1. /\ Range(queue') = {} /\ Range(results') = {} /\ Shared(results') = {}
      /\ Apart(queue') /\ Apart(results')
  BY SMT DEF Range, Shared, Apart
<1>2. Cardinality({}) = 0 /\ IsFiniteSet({})
  BY FS_EmptySet
<1>3. /\ Running' = Running /\ Known' \subseteq Known
      /\ WorkersHold' /\ RequestsApart' /\ TokensAreUsed' /\ NothingBeforeDrained'
      /\ \A x \in wanted' : IsPattern(x) /\ \A y \in Known' : y.token = x.token => y = x
  BY <1>1, FewerKeep, Zenon DEF TokensAreUsed
<1>4. epoch <= MaxEpoch /\ MaxEpoch \in Nat
  BY ScanAssumption, Zenon DEF QuitIsLast
<1>5. Types'
  <2>1. /\ queue' \in Seq(Jobs) /\ results' \in Seq(Jobs)
        /\ pc' = pc /\ job' = job /\ asking' = asking /\ wanted' = wanted
        /\ drained' = drained /\ refused' = refused /\ lost' = lost
        /\ nextToken' = nextToken /\ cut' = nextToken
    BY EmptySeq, Zenon
  <2>2. sharedCount' \in 0 .. MaxShared /\ epoch' \in 1 .. MaxEpoch + 1
    <3>1. MaxShared \in Nat /\ epoch \in Nat /\ epoch + 1 \in 1 .. MaxEpoch + 1
      BY <1>4, ScanAssumption, SMT
    <3> QED
      BY <3>1, SMT
  <2>3. /\ marked' \subseteq Module /\ loaded' \subseteq Module
        /\ uiPc' \in {"ready", "announce", "request", "waiting", "joining", "gone"}
    BY Zenon DEF Types
  <2> QED
    BY <2>1, <2>2, <2>3, Zenon DEF Types
<1>6. Counts'
  BY <1>3, CountsStand, Zenon
<1>7. WantedAreSearches'
  BY <1>3, Zenon DEF WantedAreSearches
<1>8. RetiredIsKnown'
  <2>1. \A w \in Running : job[w].epoch < epoch'
    BY SMT
  <2> QED
    BY <1>1, <1>3, <2>1, Zenon DEF RetiredIsKnown
<1>9. \A r \in wanted : r.epoch < epoch' /\ r.epoch # epoch'
  BY SMT
<1>10. WantedIsHeld'
  BY <1>9, Zenon DEF WantedIsHeld
<1>11. UiIsHonest'
  <2>1. inFlight \in Nat
    <3>1. IsFiniteSet(Running)
      BY ScanAssumption, FS_Subset DEF Running
    <3> QED
      BY <3>1, FS_CardinalityType DEF Counts
  <2> QED
    BY <2>1, SMT DEF UiIsHonest, Idle
<1>12. QuitIsLast'
  BY <1>4, <1>9, SMT DEF QuitIsLast
<1> QED
  BY <1>1, <1>2, <1>3, <1>5, <1>6, <1>7, <1>8, <1>10, <1>11, <1>12, Zenon DEF SetInv

\* The number of running jobs is a number, and 0 when none is running.
LEMMA RunningCount ==
  ASSUME SetInv
  PROVE  /\ IsFiniteSet(Running) /\ inFlight = Cardinality(Running) /\ inFlight \in Nat
         /\ inFlight = 0 <=> Running = {}
<1>1. IsFiniteSet(Running)
  BY ScanAssumption, FS_Subset DEF Running
<1>2. inFlight = Cardinality(Running)
  BY InvParts DEF Counts
<1> QED
  BY <1>1, <1>2, FS_CardinalityType, FS_EmptySet

\* The session changes, the user stops, or the UI thread waits for the workers.
LEMMA SupersedeKeeps ==
  ASSUME SetInv, StopPressed \/ SessionChanged \/ CancelAndWait
  PROVE  SetInv'
<1> USE InvParts
<1>1. Supersede /\ uiPc = "ready"
  BY Zenon DEF StopPressed, SessionChanged, CancelAndWait, CancelPending
<1>2. /\ epoch < MaxEpoch
      /\ queue' = <<>> /\ results' = <<>> /\ sharedCount' = 0
      /\ epoch' = epoch + 1 /\ batchTotal' = 0 /\ batchDone' = 0 /\ cut' = nextToken
      /\ inFlight' = inFlight /\ inFlightPatterns' = inFlightPatterns /\ canceled' = canceled
      /\ quit' = quit /\ nextToken' = nextToken /\ pc' = pc /\ job' = job
      /\ asking' = asking /\ wanted' = wanted /\ refused' = refused /\ lost' = lost
  BY <1>1, Zenon DEF Supersede, workers
<1>3. drained' = drained /\ marked' \subseteq marked /\ loaded' \subseteq loaded
  BY SMT DEF StopPressed, SessionChanged, CancelAndWait, CancelPending
<1>4. ~quit
  BY <1>1, SMT DEF QuitIsLast
<1>5. Flags'
  <2>1. (inFlight > 0) \in BOOLEAN
    OBVIOUS
  <2>2. pending' \in BOOLEAN
    BY <2>1, Zenon DEF StopPressed, SessionChanged, CancelAndWait, CancelPending,
                       PendingAfterCancel
  <2> QED
    BY <1>2, <2>2, Zenon DEF Flags
<1>6. \/ uiPc' = "ready" /\ (pending' <=> inFlight > 0)
      \/ uiPc' = "waiting" /\ ~pending'
  <2>1. CASE CancelPending
    BY <1>1, <2>1, Zenon DEF CancelPending, PendingAfterCancel
  <2>2. CASE CancelAndWait
    BY <2>2, Zenon DEF CancelAndWait
  <2> QED
    BY <2>1, <2>2, Zenon DEF StopPressed, SessionChanged
<1>7. batchTotal' \in Nat /\ batchDone' \in Nat
  BY <1>2, SMT
<1>8. /\ uiPc' \in {"ready", "waiting", "joining"} /\ uiPc' # "joining"
      /\ pending' => inFlight > 0
      /\ uiPc' = "ready" => (inFlight > 0 => pending')
  BY <1>6, SMT
<1> HIDE InvParts
<1> QED
  BY <1>2, <1>3, <1>4, <1>5, <1>7, <1>8, EmptiedKeeps, Zenon

\* The destructor supersedes everything.
LEMMA DestroyKeeps ==
  ASSUME SetInv, Destroy
  PROVE  SetInv'
<1> USE InvParts
<1>1. /\ uiPc = "ready" /\ uiPc' = "joining" /\ quit' = TRUE
      /\ queue' = <<>> /\ results' = <<>> /\ sharedCount' = 0
      /\ epoch' = epoch + 1 /\ pending' = FALSE /\ cut' = nextToken
      /\ inFlight' = inFlight /\ inFlightPatterns' = inFlightPatterns /\ canceled' = canceled
      /\ nextToken' = nextToken /\ pc' = pc /\ job' = job
      /\ batchTotal' = batchTotal /\ batchDone' = batchDone
      /\ asking' = asking /\ wanted' = wanted /\ refused' = refused /\ lost' = lost
      /\ drained' = drained /\ marked' = marked /\ loaded' = loaded
  BY Zenon DEF Destroy, workers, batch
<1>2. ~quit /\ uiPc' \in {"ready", "waiting", "joining"} /\ uiPc' # "ready"
  BY <1>1, SMT DEF QuitIsLast
<1>3. Flags'
  BY <1>1, Zenon DEF Flags
<1>4. batchTotal' \in Nat /\ batchDone' \in Nat /\ marked' \subseteq marked /\ loaded' \subseteq loaded
  BY <1>1, Zenon DEF Types
<1>5. quit' /\ (quit' <=> uiPc' = "joining")
  BY <1>1, Zenon
<1> HIDE InvParts
<1> QED
  BY <1>1, <1>2, <1>3, <1>4, <1>5, EmptiedKeeps, Zenon

\* A step of the UI thread that leaves the service alone, except for the epoch.
LEMMA AloneKeeps ==
  ASSUME SetInv, queue' = queue, results' = results, sharedCount' = sharedCount,
         inFlight' = inFlight, inFlightPatterns' = inFlightPatterns, canceled' = canceled,
         pending' = pending, quit' = quit, nextToken' = nextToken, pc' = pc, job' = job,
         wanted' = wanted, loaded' = loaded, cut' = cut, refused' = refused, lost' = lost,
         epoch' = epoch \/ (epoch' = epoch + 1 /\ epoch < MaxEpoch),
         \/ drained' = drained /\ (uiPc' = uiPc \/ uiPc # "waiting")
         \/ /\ uiPc = "waiting" /\ uiPc' = "ready" /\ inFlight = 0 /\ drained' = nextToken,
         uiPc' \in {"ready", "announce", "request", "gone"}, uiPc = "joining" <=> uiPc' = "gone",
         uiPc # "gone",
         asking' \subseteq Module, marked' \subseteq Module, batchTotal' \in Nat, batchDone' \in Nat
  PROVE  SetInv'
<1> USE InvParts, KnownTypes
<1>1. Running' = Running /\ Known' = Known
  BY Zenon DEF Running, Known
<1>2. epoch' \in 1 .. MaxEpoch + 1 /\ epoch' >= epoch /\ MaxEpoch \in Nat
  <2>1. epoch \in 1 .. MaxEpoch + 1 /\ MaxEpoch \in Nat
    BY ScanAssumption, Zenon DEF Types
  <2>2. epoch' = epoch \/ (epoch' = epoch + 1 /\ epoch < MaxEpoch)
    BY Zenon
  <2> HIDE InvParts, KnownTypes
  <2> QED
    BY <2>1, <2>2, SMT
<1>3. drained' = drained \/ (drained' = nextToken /\ Running = {} /\ queue = <<>>)
  BY RunningCount, SMT DEF UiIsHonest
<1>4. Types'
  <2>1. drained' \in 1 .. MaxRequests + 1
    BY <1>3, Zenon DEF Types
  <2>2. uiPc' \in {"ready", "announce", "request", "waiting", "joining", "gone"}
    BY Zenon
  <2> QED
    BY <1>2, <2>1, <2>2, Zenon DEF Types
<1>5. Flags' /\ Counts' /\ WorkersHold' /\ RequestsApart' /\ WantedAreSearches'
  <2>1. Flags'
    BY Zenon DEF Flags
  <2>2. Counts'
    BY <1>1, CountsStand, Zenon
  <2>3. WorkersHold'
    BY <1>1, Zenon DEF WorkersHold
  <2>4. RequestsApart'
    BY <1>1, Zenon DEF RequestsApart
  <2>5. WantedAreSearches'
    BY <1>1, Zenon DEF WantedAreSearches
  <2> QED
    BY <2>1, <2>2, <2>3, <2>4, <2>5
<1>6. TokensAreUsed'
  BY <1>1, <1>2, <1>3, SMT DEF TokensAreUsed
<1>7. RetiredIsKnown'
  <2>1. \A w \in Running : job[w].token < cut => job[w].epoch < epoch'
    BY <1>2, SMT DEF RetiredIsKnown
  <2> QED
    BY <1>1, <2>1, Zenon DEF RetiredIsKnown
<1>8. WantedIsHeld'
  <2> SUFFICES ASSUME NEW r \in wanted, r.epoch = epoch', r.token \notin lost
               PROVE  \/ r \in Range(queue) \cup Range(results)
                      \/ \E w \in Running : job[w] = r /\ pc[w] # "finish"
    <3>1. Range(queue)' = Range(queue) /\ Range(results)' = Range(results)
      BY Zenon
    <3> HIDE InvParts, KnownTypes
    <3> QED
      BY <1>1, <3>1, Zenon DEF WantedIsHeld
  <2>1. r.epoch = epoch
    <3>1. r.epoch <= epoch /\ r.epoch \in Nat /\ epoch \in Nat
      BY Zenon
    <3>2. epoch' = epoch \/ epoch' = epoch + 1
      BY Zenon
    <3> HIDE InvParts, KnownTypes
    <3> QED
      BY <3>1, <3>2
  <2> QED
    BY <2>1, Zenon DEF WantedIsHeld
<1>9. NothingBeforeDrained'
  <2>1. CASE drained' = drained
    BY <1>1, <2>1, Zenon DEF NothingBeforeDrained
  <2>2. CASE Running = {} /\ queue = <<>>
    <3>1. Range(queue') = {}
      BY <2>2 DEF Range
    <3> QED
      BY <1>1, <2>2, <3>1, Zenon DEF NothingBeforeDrained
  <2> QED
    BY <1>3, <2>1, <2>2, Zenon
<1>10. UiIsHonest'
  <2>1. CASE uiPc = "waiting"
    BY <2>1, SMT DEF UiIsHonest, Idle
  <2>2. CASE uiPc # "waiting"
    BY <2>2, SMT DEF UiIsHonest, Idle, Types
  <2> QED
    BY <2>1, <2>2
<1>11. QuitIsLast'
  <2>1. quit' <=> uiPc' \in {"joining", "gone"}
    BY Zenon DEF QuitIsLast
  <2>2. ~quit' => epoch' <= MaxEpoch
    <3>1. epoch \in Nat /\ (epoch' = epoch \/ (epoch' = epoch + 1 /\ epoch < MaxEpoch))
      BY Zenon
    <3>2. ~quit' => epoch <= MaxEpoch
      BY Zenon DEF QuitIsLast
    <3> HIDE InvParts, KnownTypes
    <3> QED
      BY <1>2, <3>1, <3>2, SMT
  <2>3. quit' => \A r \in wanted' : r.epoch < epoch'
    <3>1. \A r \in wanted : r.epoch \in Nat
      BY Zenon
    <3>2. quit' => \A r \in wanted : r.epoch < epoch
      BY Zenon DEF QuitIsLast
    <3>3. wanted' = wanted /\ epoch \in Nat
      BY Zenon
    <3> HIDE InvParts, KnownTypes
    <3> QED
      BY <1>2, <3>1, <3>2, <3>3, SMT
  <2> QED
    BY <2>1, <2>2, <2>3, Zenon DEF QuitIsLast
<1> QED
  BY <1>4, <1>5, <1>6, <1>7, <1>8, <1>9, <1>10, <1>11, Zenon DEF SetInv

\* The other steps of the UI thread.
LEMMA UiKeeps ==
  ASSUME SetInv, AnalyzeAll \/ Announce \/ WaitEnds \/ BumpEpoch \/ Joined
  PROVE  SetInv'
<1> USE InvParts
<1> DEFINE Same == /\ queue' = queue /\ results' = results /\ sharedCount' = sharedCount
                   /\ inFlight' = inFlight /\ inFlightPatterns' = inFlightPatterns
                   /\ canceled' = canceled /\ pending' = pending /\ quit' = quit
                   /\ nextToken' = nextToken /\ pc' = pc /\ job' = job /\ wanted' = wanted
                   /\ loaded' = loaded /\ cut' = cut /\ refused' = refused /\ lost' = lost
           Rest == /\ asking' \subseteq Module /\ marked' \subseteq Module
                   /\ batchTotal' \in Nat /\ batchDone' \in Nat
<1>1. CASE AnalyzeAll
  <2>1. Same /\ epoch' = epoch /\ drained' = drained /\ uiPc = "ready" /\ uiPc' = "announce"
    BY <1>1, Zenon DEF AnalyzeAll, service, workers, marks
  <2>2. Rest
    <3> DEFINE todo == Module \ (marked \cup loaded)
    <3>1. IsFiniteSet(todo)
      BY ScanAssumption, FS_Subset
    <3>2. Cardinality(todo) \in Nat
      BY <3>1, FS_CardinalityType
    <3> QED
      BY <1>1, <3>2 DEF AnalyzeAll, Types
  <2>3. uiPc' \in {"ready", "announce", "request", "gone"} /\ uiPc # "waiting"
        /\ uiPc # "gone" /\ (uiPc = "joining" <=> uiPc' = "gone")
    BY <2>1, SMT
  <2> HIDE InvParts
  <2> QED
    BY <2>1, <2>2, <2>3, AloneKeeps, Zenon
<1>2. CASE Announce
  <2>1. Same /\ epoch' = epoch /\ drained' = drained /\ uiPc = "announce" /\ uiPc' = "request"
        /\ asking' = asking /\ marked' = marked /\ batchTotal' = batchTotal /\ batchDone' = 0
    BY <1>2, Zenon DEF Announce, service, workers, marks
  <2>2. Rest
    BY <2>1, SMT DEF Types
  <2>3. uiPc' \in {"ready", "announce", "request", "gone"} /\ uiPc # "waiting"
        /\ uiPc # "gone" /\ (uiPc = "joining" <=> uiPc' = "gone")
    BY <2>1, SMT
  <2> HIDE InvParts
  <2> QED
    BY <2>1, <2>2, <2>3, AloneKeeps, Zenon
<1>3. CASE WaitEnds
  <2>1. Same /\ epoch' = epoch /\ drained' = nextToken /\ uiPc = "waiting" /\ uiPc' = "ready"
        /\ inFlight = 0
        /\ asking' = asking /\ marked' = marked /\ batchTotal' = batchTotal /\ batchDone' = batchDone
    BY <1>3, Zenon DEF WaitEnds, NothingInFlight, service, workers, batch
  <2>2. Rest
    BY <2>1, Zenon DEF Types
  <2>3. uiPc' \in {"ready", "announce", "request", "gone"}
        /\ uiPc # "gone" /\ (uiPc = "joining" <=> uiPc' = "gone")
    BY <2>1, SMT
  <2> HIDE InvParts
  <2> QED
    BY <2>1, <2>2, <2>3, AloneKeeps, Zenon
<1>4. CASE BumpEpoch
  <2>1. Same /\ epoch' = epoch + 1 /\ epoch < MaxEpoch /\ drained' = drained
        /\ uiPc = "ready" /\ uiPc' = uiPc
        /\ asking' = asking /\ marked' = marked /\ batchTotal' = batchTotal /\ batchDone' = batchDone
    BY <1>4, Zenon DEF BumpEpoch, workers, batch, client, marks
  <2>2. Rest
    BY <2>1, Zenon DEF Types
  <2>3. uiPc' \in {"ready", "announce", "request", "gone"} /\ uiPc # "waiting"
        /\ uiPc # "gone" /\ (uiPc = "joining" <=> uiPc' = "gone")
    BY <2>1, SMT
  <2> HIDE InvParts
  <2> QED
    BY <2>1, <2>2, <2>3, AloneKeeps, Zenon
<1>5. CASE Joined
  <2>1. Same /\ epoch' = epoch /\ drained' = drained /\ uiPc = "joining" /\ uiPc' = "gone"
        /\ asking' = asking /\ marked' = marked /\ batchTotal' = batchTotal /\ batchDone' = batchDone
    BY <1>5, Zenon DEF Joined, service, workers, batch, marks
  <2>2. Rest
    BY <2>1, Zenon DEF Types
  <2>3. uiPc' \in {"ready", "announce", "request", "gone"} /\ uiPc # "waiting"
        /\ uiPc # "gone" /\ (uiPc = "joining" <=> uiPc' = "gone")
    BY <2>1, SMT
  <2> HIDE InvParts
  <2> QED
    BY <2>1, <2>2, <2>3, AloneKeeps, Zenon
<1> QED
  BY <1>1, <1>2, <1>3, <1>4, <1>5

\* The requests.
LEMMA RequestKeeps ==
  ASSUME SetInv, RequestPattern \/ RequestShared \/ RequestImage
  PROVE  SetInv'
<1> USE InvParts
<1>1. CASE RequestPattern
  <2>1. /\ Enqueue("pattern", NoModule) /\ uiPc = "ready" /\ uiPc' = "ready"
        /\ wanted' = wanted \cup {queue'[Len(queue')]}
        /\ asking' = asking /\ UNCHANGED <<batch, marked, loaded>>
    BY <1>1, Zenon DEF RequestPattern, batch
  <2>2. ~quit
    BY <2>1, SMT DEF QuitIsLast
  <2>3. queue'[Len(queue')] = NewRequest("pattern", NoModule)
    BY <2>1, <2>2, Enqueued DEF Kinds
  <2>4. "pattern" \in Kinds /\ "pattern" # "image" /\ asking' \subseteq Module
    BY <2>1, SMT DEF Kinds, Types
  <2>5. NoModule \in Module \cup {NoModule} /\ uiPc \in {"ready", "request"}
        /\ uiPc' \in {"ready", "request"}
    BY <2>1, Zenon
  <2> HIDE InvParts
  <2> QED
    BY <2>1, <2>3, <2>4, <2>5, EnqueueKeeps, Zenon
<1>2. CASE RequestShared
  <2>1. /\ Enqueue("shared", NoModule) /\ uiPc = "ready" /\ uiPc' = "ready"
        /\ wanted' = wanted
        /\ asking' = asking /\ UNCHANGED <<batch, marked, loaded>>
    BY <1>2, Zenon DEF RequestShared, batch, client
  <2>2. "shared" \in Kinds /\ "shared" # "image" /\ asking' \subseteq Module
    BY <2>1, SMT DEF Kinds, Types
  <2>3. NoModule \in Module \cup {NoModule} /\ uiPc \in {"ready", "request"}
        /\ uiPc' \in {"ready", "request"}
    BY <2>1, Zenon
  <2> HIDE InvParts
  <2> QED
    BY <2>1, <2>2, <2>3, EnqueueKeeps, Zenon
<1>3. CASE RequestImage
  <2>1. PICK m \in asking : /\ Enqueue("image", m) /\ asking' = asking \ {m}
                            /\ uiPc' = IF asking = {m} THEN "ready" ELSE "request"
    BY <1>3, Zenon DEF RequestImage
  <2>2. uiPc = "request" /\ wanted' = wanted /\ UNCHANGED <<batch, marked, loaded>>
    BY <1>3, Zenon DEF RequestImage, batch
  <2>3. "image" \in Kinds /\ m \in Module /\ asking' \subseteq Module
    BY <2>1, SMT DEF Kinds, Types
  <2>4. uiPc \in {"ready", "request"} /\ uiPc' \in {"ready", "request"}
    BY <2>1, <2>2, Zenon
  <2> HIDE InvParts
  <2> QED
    BY <2>1, <2>2, <2>3, <2>4, EnqueueKeeps, Zenon
<1> QED
  BY <1>1, <1>2, <1>3

\* The names of a worker's steps.
WorkerStates == {"idle", "scan", "read", "publish", "publishLocked", "failed", "finish", "exited"}

\* A worker takes a job.
LEMMA PickKeeps ==
  ASSUME SetInv, NEW w \in Worker, Pick(w)
  PROVE  SetInv'
<1> USE InvParts, KnownTypes
<1> DEFINE j == Head(queue)
<1>1. /\ pc[w] = "idle" /\ ~quit /\ queue # <<>>
      /\ job' = [job EXCEPT ![w] = j] /\ queue' = Tail(queue) /\ inFlight' = inFlight + 1
      /\ inFlightPatterns' = IF IsPattern(j) THEN inFlightPatterns \cup {j.token}
                             ELSE inFlightPatterns
      /\ pending' = TRUE /\ pc' = [pc EXCEPT ![w] = "scan"]
      /\ results' = results /\ sharedCount' = sharedCount /\ canceled' = canceled
      /\ epoch' = epoch /\ batchTotal' = batchTotal /\ batchDone' = batchDone /\ lost' = lost
      /\ quit' = quit /\ nextToken' = nextToken /\ uiPc' = uiPc /\ asking' = asking
      /\ wanted' = wanted /\ marked' = marked /\ loaded' = loaded
      /\ cut' = cut /\ refused' = refused /\ drained' = drained
  BY Zenon DEF Pick, Goto, Elsewhere, batch, client, marks
<1>2. /\ j \in Range(queue) /\ j \in Jobs
      /\ queue' \in Seq(Jobs) /\ Apart(queue') /\ Range(queue') = Range(queue) \ {j}
  BY <1>1, TakeHead, Zenon DEF Types, RequestsApart
<1> HIDE DEF j
<1>3. /\ w \notin Running /\ job[w] = NoJob /\ j # NoJob
      /\ pc'[w] = "scan" /\ job'[w] = j
      /\ \A v \in Worker : v # w => pc'[v] = pc[v] /\ job'[v] = job[v]
      /\ pc' \in [Worker -> WorkerStates] /\ job' \in [Worker -> Jobs \cup {NoJob}]
  <2>1. w \notin Running /\ job[w] = NoJob
    BY <1>1, SMT DEF WorkersHold, Running
  <2>2. j # NoJob
    BY <1>2, SMT DEF Jobs, NoJob, Tokens
  <2>3. /\ pc'[w] = "scan" /\ \A v \in Worker : v # w => pc'[v] = pc[v]
        /\ pc' \in [Worker -> WorkerStates]
    <3>1. pc \in [Worker -> WorkerStates]
      BY Zenon DEF Types, WorkerStates
    <3> HIDE InvParts, KnownTypes
    <3> QED
      BY <1>1, <3>1, SMT DEF WorkerStates
  <2>4. /\ job'[w] = j /\ \A v \in Worker : v # w => job'[v] = job[v]
        /\ job' \in [Worker -> Jobs \cup {NoJob}]
    <3>1. job \in [Worker -> Jobs \cup {NoJob}]
      BY Zenon DEF Types
    <3> HIDE InvParts, KnownTypes
    <3> QED
      BY <1>1, <1>2, <3>1, SMT
  <2> QED
    BY <2>1, <2>2, <2>3, <2>4, Zenon
<1>4. Running' = Running \cup {w}
  BY <1>3, SMT DEF Running
<1>5. /\ \A v \in Running : v # w /\ pc'[v] = pc[v] /\ job'[v] = job[v]
      /\ \A v \in Running' : v = w \/ v \in Running
      /\ w \in Running'
  BY <1>3, <1>4, Zenon DEF Running
<1>6. \A x : x \in Known' => x \in Known
  <2>1. Range(queue') \subseteq Known /\ j \in Known
    BY <1>2, Zenon DEF Known
  <2>2. Range(results') \subseteq Known /\ wanted' \subseteq Known
    BY <1>1, Zenon DEF Known
  <2>3. \A v \in Running' : job'[v] \in Known
    BY <1>3, <1>5, <2>1, Zenon
  <2> QED
    BY <2>1, <2>2, <2>3, Zenon DEF Known
<1>7. /\ \A x \in Range(queue') : x \in Range(queue) /\ x # j /\ x.token # j.token
      /\ \A x \in Range(results) : x.token # j.token
      /\ \A v \in Running : job[v].token # j.token
  <2>1. \A x \in Range(queue) : x.token = j.token => x = j
    BY <1>2, Zenon DEF RequestsApart, Apart, Range
  <2> QED
    BY <1>2, <2>1, Zenon DEF RequestsApart
<1>8. Types'
  BY <1>1, <1>2, <1>3, Zenon DEF Types, WorkerStates
<1>9. Flags'
  BY <1>1, Zenon DEF Flags
<1>10. Counts'
  <2>1. inFlight' = Cardinality(Running')
    <3>1. Cardinality(Running \cup {w}) = Cardinality(Running) + 1
      BY <1>3, RunningCount, FS_AddElement
    <3> QED
      BY <1>1, <1>4, <3>1, RunningCount
  <2>2. \A v \in Worker : IsPattern(job[v]) => v # w
    BY <1>3, SMT DEF IsPattern, NoJob
  <2>3. inFlightPatterns' = {job'[v].token : v \in {u \in Worker : IsPattern(job'[u])}}
    <3>1. CASE IsPattern(j)
      BY <1>1, <1>3, <2>2, <3>1, SMT DEF Counts
    <3>2. CASE ~IsPattern(j)
      BY <1>1, <1>3, <2>2, <3>2, SMT DEF Counts
    <3> QED
      BY <3>1, <3>2
  <2>4. canceled' \subseteq inFlightPatterns'
    BY <1>1, Zenon DEF Counts
  <2> QED
    BY <2>1, <2>3, <2>4, Zenon DEF Counts
<1>11. WorkersHold'
  BY <1>3, <1>4, SMT DEF WorkersHold
<1>12. RequestsApart'
  BY <1>1, <1>2, <1>3, <1>5, <1>7, SMT DEF RequestsApart
<1>13. TokensAreUsed'
  BY <1>1, <1>6, Zenon DEF TokensAreUsed
<1>14. WantedAreSearches'
  BY <1>1, <1>6, Zenon DEF WantedAreSearches
<1>15. RetiredIsKnown'
  <2>1. ~(j.token < cut) /\ j.token \notin refused
    BY <1>2, SMT DEF RetiredIsKnown
  <2> QED
    BY <1>1, <1>3, <1>5, <1>7, <2>1, SMT DEF RetiredIsKnown
<1>16. WantedIsHeld'
  <2> SUFFICES ASSUME NEW r \in wanted, r.epoch = epoch, r.token \notin lost
               PROVE  \/ r \in Range(queue') \cup Range(results)
                      \/ \E v \in Running' : job'[v] = r /\ pc'[v] # "finish"
    BY <1>1, Zenon DEF WantedIsHeld
  <2>1. CASE r = j
    <3>1. pc'[w] # "finish"
      BY <1>3, SMT
    <3> QED
      BY <1>3, <1>5, <2>1, <3>1, Zenon
  <2>2. CASE r # j /\ r \in Range(queue) \cup Range(results)
    BY <1>2, <2>2, Zenon
  <2>3. CASE \E v \in Running : job[v] = r /\ pc[v] # "finish"
    BY <1>4, <1>5, <2>3, Zenon
  <2> QED
    BY <2>1, <2>2, <2>3, Zenon DEF WantedIsHeld
<1>17. NothingBeforeDrained'
  <2>1. j.token >= drained
    BY <1>2, Zenon DEF NothingBeforeDrained
  <2>2. \A x \in Range(queue') : x.token >= drained'
    BY <1>1, <1>2, Zenon DEF NothingBeforeDrained
  <2>3. \A v \in Running' : job'[v].token >= drained'
    BY <1>1, <1>3, <1>5, <2>1, Zenon DEF NothingBeforeDrained
  <2> QED
    BY <2>2, <2>3, Zenon DEF NothingBeforeDrained
<1>18. UiIsHonest' /\ QuitIsLast'
  BY <1>1, RunningCount, SMT DEF UiIsHonest, QuitIsLast, Idle
<1> QED
  BY <1>1, <1>8, <1>9, <1>10, <1>11, <1>12, <1>13, <1>14, <1>15, <1>16, <1>17, <1>18, Zenon
     DEF SetInv

\* A worker moves on, and leaves a job unpublished only when it is superseded.
LEMMA MoveKeeps ==
  ASSUME SetInv, NEW w \in Worker, NEW step \in WorkerStates, Goto(w, step),
         UNCHANGED <<service, batch, job, lost>>, Elsewhere,
         w \in Running <=> step \notin {"idle", "exited"},
         w \in Running => pc[w] # "finish",
         w \in Running /\ step = "finish" =>
           quit \/ epoch # job[w].epoch \/ job[w].token \in canceled
  PROVE  SetInv'
<1> USE InvParts, KnownTypes
<1>1. /\ pc' = [pc EXCEPT ![w] = step]
      /\ queue' = queue /\ results' = results /\ sharedCount' = sharedCount
      /\ inFlight' = inFlight /\ inFlightPatterns' = inFlightPatterns /\ canceled' = canceled
      /\ epoch' = epoch /\ pending' = pending /\ batchTotal' = batchTotal
      /\ batchDone' = batchDone /\ job' = job /\ lost' = lost
      /\ quit' = quit /\ nextToken' = nextToken /\ uiPc' = uiPc /\ asking' = asking
      /\ wanted' = wanted /\ marked' = marked /\ loaded' = loaded
      /\ cut' = cut /\ refused' = refused /\ drained' = drained
  BY Zenon DEF Goto, service, batch, Elsewhere, client, marks
<1>2. /\ pc'[w] = step /\ \A v \in Worker : v # w => pc'[v] = pc[v]
      /\ pc' \in [Worker -> WorkerStates]
  BY <1>1, SMT DEF Types, WorkerStates
<1>3. Running' = Running
  BY <1>2, SMT DEF Running
<1>4. Known' = Known
  BY <1>1, <1>3, Zenon DEF Known
<1>5. Types'
  BY <1>1, <1>2, Zenon DEF Types, WorkerStates
<1>6. Flags' /\ Counts' /\ WorkersHold' /\ TokensAreUsed' /\ WantedAreSearches'
  <2>1. Flags'
    BY <1>1, Zenon DEF Flags
  <2>2. Counts'
    BY <1>1, <1>3, CountsStand, Zenon
  <2>3. WorkersHold'
    BY <1>1, <1>3, Zenon DEF WorkersHold
  <2>4. TokensAreUsed'
    BY <1>1, <1>4, Zenon DEF TokensAreUsed
  <2>5. WantedAreSearches'
    BY <1>1, <1>4, Zenon DEF WantedAreSearches
  <2> QED
    BY <2>1, <2>2, <2>3, <2>4, <2>5
<1>7. RequestsApart'
  <2>1. \A v \in Running : pc'[v] # "finish" => pc[v] # "finish"
    BY <1>2, Zenon
  <2>2. \A v \in Running, r \in Range(results) : pc'[v] # "finish" => job[v].token # r.token
    BY <2>1, Zenon DEF RequestsApart
  <2> QED
    BY <1>1, <1>3, <2>2, SMT DEF RequestsApart
<1>8. RetiredIsKnown' /\ NothingBeforeDrained' /\ UiIsHonest' /\ QuitIsLast'
  BY <1>1, <1>3, Zenon DEF RetiredIsKnown, NothingBeforeDrained, UiIsHonest, QuitIsLast, Idle
<1>9. WantedIsHeld'
  <2> SUFFICES ASSUME NEW r \in wanted, r.epoch = epoch, r.token \notin lost,
                      r \notin Range(queue) \cup Range(results)
               PROVE  \E v \in Running : job[v] = r /\ pc'[v] # "finish"
    BY <1>1, <1>3, SMT DEF WantedIsHeld
  <2>1. PICK v \in Running : job[v] = r /\ pc[v] # "finish"
    BY Zenon DEF WantedIsHeld
  <2>2. CASE v # w
    BY <1>2, <2>1, <2>2, Zenon
  <2>3. CASE v = w
    <3>1. ~quit
      BY SMT DEF QuitIsLast
    <3>2. r.token \notin canceled
      BY Zenon DEF WantedAreSearches, RetiredIsKnown
    <3>3. step # "finish"
      BY <2>1, <2>3, <3>1, <3>2, Zenon
    <3> QED
      BY <1>2, <2>1, <2>3, <3>3, Zenon
  <2> QED
    BY <2>2, <2>3
<1> QED
  BY <1>1, <1>5, <1>6, <1>7, <1>8, <1>9, Zenon DEF SetInv

\* The steps of a worker between its job's beginning and its publication.
LEMMA MovesKeep ==
  ASSUME SetInv, NEW w \in Worker, Exit(w) \/ Scan(w) \/ Read(w) \/ BeforePublish(w)
  PROVE  SetInv'
<1>1. UNCHANGED <<service, batch, job, lost>> /\ Elsewhere
  BY Zenon DEF Exit, Scan, Read, BeforePublish
<1>2. ASSUME NEW step \in WorkerStates, Goto(w, step),
             w \in Running <=> step \notin {"idle", "exited"},
             w \in Running => pc[w] # "finish",
             w \in Running /\ step = "finish" =>
               quit \/ epoch # job[w].epoch \/ job[w].token \in canceled
      PROVE  SetInv'
  BY <1>1, <1>2, MoveKeeps, Zenon
<1>3. CASE Exit(w)
  <2>1. Goto(w, "exited") /\ pc[w] = "idle"
    BY <1>3, Zenon DEF Exit
  <2>2. "exited" \in WorkerStates /\ w \notin Running /\ "exited" # "finish"
    BY <2>1, SMT DEF WorkerStates, Running
  <2> QED
    BY <1>2, <2>1, <2>2
<1>4. CASE Scan(w)
  <2>1. /\ pc[w] = "scan"
        /\ \/ Superseded(job[w]) /\ Goto(w, "finish")
           \/ Goto(w, "read") \/ Goto(w, "publish")
    BY <1>4, Zenon DEF Scan
  <2>2. /\ {"finish", "read", "publish"} \subseteq WorkerStates
        /\ w \in Running /\ pc[w] # "finish"
    BY <2>1, SMT DEF WorkerStates, Running
  <2>3. Superseded(job[w]) => quit \/ epoch # job[w].epoch \/ job[w].token \in canceled
    BY Zenon DEF Superseded
  <2> QED
    BY <1>2, <2>1, <2>2, <2>3
<1>5. CASE Read(w)
  <2>1. pc[w] = "read" /\ (Goto(w, "scan") \/ Goto(w, "failed"))
    BY <1>5, Zenon DEF Read
  <2>2. {"scan", "failed"} \subseteq WorkerStates /\ w \in Running /\ pc[w] # "finish"
    BY <2>1, SMT DEF WorkerStates, Running
  <2> QED
    BY <1>2, <2>1, <2>2
<1>6. CASE BeforePublish(w)
  <2>1. /\ pc[w] = "publish"
        /\ \/ epoch # job[w].epoch /\ Goto(w, "finish")
           \/ Goto(w, "publishLocked")
    BY <1>6, Zenon DEF BeforePublish
  <2>2. {"finish", "publishLocked"} \subseteq WorkerStates /\ w \in Running /\ pc[w] # "finish"
    BY <2>1, SMT DEF WorkerStates, Running
  <2> QED
    BY <1>2, <2>1, <2>2
<1> QED
  BY <1>3, <1>4, <1>5, <1>6

\* A result joins the others, if need be in the place of the oldest shared one.
LEMMA Published ==
  ASSUME SetInv, NEW r \in Jobs, PublishLocked(r), \A x \in Range(results) : x.token # r.token
  PROVE  /\ results' \in Seq(Jobs) /\ Apart(results')
         /\ Range(results') \subseteq Range(results) \cup {r}
         /\ \A x \in Range(results) \cup {r} : IsPattern(x) => x \in Range(results')
         /\ sharedCount' = Cardinality(Shared(results')) /\ IsFiniteSet(Shared(results'))
         /\ sharedCount' \in 0 .. MaxShared
<1> USE InvParts
<1> DEFINE appended == Append(results, r)
           oldest   == SelectInSeq(appended, IsShared)
           over     == IsShared(r) /\ sharedCount + 1 > MaxShared
           S        == Shared(results)
<1>1. /\ results' = IF over THEN RemoveAt(appended, oldest) ELSE appended
      /\ sharedCount' = IF IsShared(r) /\ ~over THEN sharedCount + 1 ELSE sharedCount
  BY Zenon DEF PublishLocked
<1>2. /\ appended \in Seq(Jobs) /\ Apart(appended) /\ Range(appended) = Range(results) \cup {r}
  BY AppendOne, Zenon DEF Types, RequestsApart
<1>3. r \notin Range(results)
  OBVIOUS
<1>4. \A x : IsPattern(x) <=> ~IsShared(x)
  BY Zenon DEF IsPattern, IsShared
<1>5. /\ IsFiniteSet(S) /\ Cardinality(S) \in Nat /\ sharedCount = Cardinality(S)
      /\ IsFiniteSet(S \cup {r})
      /\ r \notin S => Cardinality(S \cup {r}) = Cardinality(S) + 1
  BY FS_AddElement, FS_CardinalityType
<1>6. sharedCount \in 0 .. MaxShared /\ MaxShared \in Nat
  BY ScanAssumption, Zenon DEF Types
<1>7. CASE ~IsShared(r)
  <2>1. results' = appended /\ sharedCount' = sharedCount
    BY <1>1, <1>7, Zenon
  <2>2. Shared(results') = S
    BY <1>2, <1>7, <2>1, Zenon DEF Shared
  <2> QED
    BY <1>2, <1>5, <1>6, <2>1, <2>2, Zenon
<1>8. CASE IsShared(r)
  <2>1. Shared(appended) = S \cup {r} /\ r \notin S
    BY <1>2, <1>3, <1>8, Zenon DEF Shared
  <2>2. CASE ~over
    <3>1. results' = appended /\ sharedCount' = sharedCount + 1
      BY <1>1, <1>8, <2>2, Zenon
    <3>2. sharedCount' \in 0 .. MaxShared
      BY <1>5, <1>6, <1>8, <2>2, <3>1, SMT
    <3> QED
      BY <1>2, <1>5, <2>1, <3>1, <3>2, Zenon
  <2>3. CASE over
    <3>1. results' = RemoveAt(appended, oldest) /\ sharedCount' = sharedCount
      BY <1>1, <2>3, Zenon
    <3>2. r \in Range(appended)
      BY <1>2
    <3>3. oldest \in DOMAIN appended /\ IsShared(appended[oldest])
      <4> HIDE DEF appended
      <4> QED
        BY <1>2, <1>8, <3>2, FirstShared, Zenon
    <3> DEFINE x == appended[oldest]
    <3>4. results' \in Seq(Jobs) /\ Apart(results') /\ Range(results') = Range(appended) \ {x}
      <4> HIDE DEF appended, oldest
      <4> QED
        BY <1>2, <3>1, <3>3, RemoveOne, Zenon DEF appended
    <3>5. x \in Range(appended) /\ IsShared(x)
      <4> HIDE DEF appended, oldest
      <4> QED
        BY <3>3, Zenon DEF Range
    <3> HIDE DEF x, appended, oldest, over
    <3>6. Shared(results') = (S \cup {r}) \ {x} /\ x \in S \cup {r}
      BY <2>1, <3>4, <3>5, Zenon DEF Shared
    <3>7. /\ IsFiniteSet((S \cup {r}) \ {x})
          /\ Cardinality((S \cup {r}) \ {x}) = Cardinality(S \cup {r}) - 1
      BY <1>5, <3>6, FS_RemoveElement
    <3>8. sharedCount' = Cardinality(Shared(results'))
      BY <1>5, <2>1, <3>1, <3>6, <3>7
    <3>9. \A y \in Range(results) \cup {r} : IsPattern(y) => y \in Range(results')
      BY <1>2, <1>4, <3>4, <3>5, Zenon
    <3> QED
      BY <1>2, <1>6, <3>1, <3>4, <3>6, <3>7, <3>8, <3>9, Zenon
  <2> QED
    BY <2>2, <2>3
<1> QED
  BY <1>7, <1>8

\* A worker publishes the result of its job, or the job's failure, or nothing.
LEMMA PublishKeeps ==
  ASSUME SetInv, NEW w \in Worker, PublishUnderMutex(w) \/ ReportFailure(w)
  PROVE  SetInv'
<1> USE InvParts, KnownTypes
<1> DEFINE r == job[w]
           Checked == epoch = r.epoch /\ ~(IsPattern(r) /\ r.token \in canceled)
<1>1. /\ pc[w] = "publishLocked" \/ pc[w] = "failed"
      /\ pc' = [pc EXCEPT ![w] = "finish"]
      /\ queue' = queue /\ inFlight' = inFlight
      /\ inFlightPatterns' = inFlightPatterns /\ canceled' = canceled
      /\ epoch' = epoch /\ pending' = pending /\ batchTotal' = batchTotal
      /\ batchDone' = batchDone /\ job' = job
      /\ quit' = quit /\ nextToken' = nextToken /\ uiPc' = uiPc /\ asking' = asking
      /\ wanted' = wanted /\ marked' = marked /\ loaded' = loaded
      /\ cut' = cut /\ refused' = refused /\ drained' = drained
  BY Zenon DEF PublishUnderMutex, ReportFailure, Goto, Elsewhere, batch, client, marks
<1>2. \/ ~Checked /\ results' = results /\ sharedCount' = sharedCount /\ lost' = lost
      \/ results' = results /\ sharedCount' = sharedCount /\ lost' = lost \cup {r.token}
      \/ Checked /\ PublishLocked(r) /\ lost' = lost
  BY Zenon DEF PublishUnderMutex, ReportFailure
<1>3. w \in Running /\ pc[w] # "finish"
  BY <1>1, SMT DEF Running
<1>4. /\ pc'[w] = "finish" /\ \A v \in Worker : v # w => pc'[v] = pc[v]
      /\ pc' \in [Worker -> WorkerStates]
  BY <1>1, SMT DEF Types, WorkerStates
<1>5. Running' = Running
  BY <1>3, <1>4, SMT DEF Running
<1>6. r \in Jobs /\ r \in Known /\ r.token \in Tokens
  BY <1>3, SMT DEF Jobs
<1>7. \A x \in Range(results) : x.token # r.token
  BY <1>3, Zenon DEF RequestsApart
<1> HIDE DEF r
<1>8. /\ results' \in Seq(Jobs) /\ Apart(results')
      /\ Range(results') \subseteq Range(results) \cup {r}
      /\ \A x \in Range(results) : IsPattern(x) => x \in Range(results')
      /\ sharedCount' = Cardinality(Shared(results')) /\ IsFiniteSet(Shared(results'))
      /\ sharedCount' \in 0 .. MaxShared
  <2>1. CASE PublishLocked(r)
    BY <1>6, <1>7, <2>1, Published, Zenon
  <2>2. CASE results' = results /\ sharedCount' = sharedCount
    BY <2>2, Zenon DEF Types, RequestsApart
  <2> QED
    BY <1>2, <2>1, <2>2, Zenon
<1>9. Known' \subseteq Known
  BY <1>1, <1>5, <1>6, <1>8, Zenon DEF Known
<1>10. Types'
  <2>1. lost' \subseteq Tokens
    BY <1>2, <1>6, Zenon DEF Types
  <2> QED
    BY <1>1, <1>4, <1>8, <2>1, Zenon DEF Types, WorkerStates
<1>11. Flags' /\ Counts' /\ WorkersHold'
  <2>1. Flags'
    BY <1>1, Zenon DEF Flags
  <2>2. Counts'
    BY <1>1, <1>5, CountsStand, Zenon
  <2>3. WorkersHold'
    BY <1>1, <1>5, Zenon DEF WorkersHold
  <2> QED
    BY <2>1, <2>2, <2>3
<1>12. RequestsApart'
  <2>1. \A v \in Running : v # w /\ pc'[v] # "finish" => job[v].token # r.token /\ pc[v] # "finish"
    BY <1>3, <1>4, Zenon DEF RequestsApart, r
  <2>2. \A q \in Range(queue) : q.token # r.token
    BY <1>3, Zenon DEF RequestsApart, r
  <2>3. \A v \in Running, x \in Range(results') : pc'[v] # "finish" => job[v].token # x.token
    BY <1>4, <1>8, <2>1, Zenon DEF RequestsApart
  <2>4. \A q \in Range(queue), x \in Range(results') : q.token # x.token
    BY <1>8, <2>2, Zenon DEF RequestsApart
  <2> QED
    BY <1>1, <1>5, <1>8, <2>3, <2>4, SMT DEF RequestsApart
<1>13. TokensAreUsed' /\ WantedAreSearches'
  BY <1>1, <1>9, Zenon DEF TokensAreUsed, WantedAreSearches
<1>14. RetiredIsKnown' /\ NothingBeforeDrained' /\ UiIsHonest' /\ QuitIsLast'
  BY <1>1, <1>5, Zenon DEF RetiredIsKnown, NothingBeforeDrained, UiIsHonest, QuitIsLast, Idle
<1>15. \A x \in Range(results') : x.token >= cut' /\ x.token \notin refused'
  <2>1. CASE Checked
    <3>1. r.token >= cut
      BY <1>3, <1>6, <2>1, SMT DEF RetiredIsKnown, r
    <3>2. r.token \notin refused
      BY <1>3, <2>1, Zenon DEF RetiredIsKnown, r
    <3> QED
      BY <1>1, <1>8, <3>1, <3>2, Zenon
  <2>2. CASE results' = results
    BY <1>1, <2>2, Zenon
  <2> QED
    BY <1>2, <2>1, <2>2, Zenon
<1>16. WantedIsHeld'
  <2> SUFFICES ASSUME NEW x \in wanted, x.epoch = epoch, x.token \notin lost'
               PROVE  \/ x \in Range(queue) \cup Range(results')
                      \/ \E v \in Running : job[v] = x /\ pc'[v] # "finish"
    BY <1>1, <1>5, SMT DEF WantedIsHeld
  <2>1. x.token \notin lost /\ IsPattern(x) /\ x.token \notin canceled
    BY <1>2, Zenon DEF WantedAreSearches, RetiredIsKnown
  <2>2. CASE x \in Range(queue) \cup Range(results)
    BY <1>8, <2>1, <2>2, Zenon
  <2>3. CASE \E v \in Running : job[v] = x /\ pc[v] # "finish"
    <3>1. PICK v \in Running : job[v] = x /\ pc[v] # "finish"
      BY <2>3
    <3>2. CASE v # w
      BY <1>4, <3>1, <3>2, Zenon
    <3>3. CASE v = w
      <4>1. Checked /\ x = r /\ r.token \notin lost'
        BY <2>1, <3>1, <3>3, Zenon DEF r
      <4>2. PublishLocked(r)
        BY <1>2, <4>1, Zenon
      <4> QED
        BY <1>6, <1>7, <2>1, <4>1, <4>2, Published, Zenon
    <3> QED
      BY <3>2, <3>3
  <2> QED
    BY <2>1, <2>2, <2>3, Zenon DEF WantedIsHeld
<1> QED
  BY <1>8, <1>10, <1>11, <1>12, <1>13, <1>14, <1>15, <1>16, Zenon DEF SetInv

\* A worker's job ends.
LEMMA FinishKeeps ==
  ASSUME SetInv, NEW w \in Worker, Finish(w)
  PROVE  SetInv'
<1> USE InvParts, KnownTypes
<1> DEFINE j == job[w]
<1>1. /\ pc[w] = "finish" /\ inFlight' = inFlight - 1
      /\ inFlightPatterns' = IF IsPattern(j) THEN inFlightPatterns \ {j.token}
                             ELSE inFlightPatterns
      /\ canceled' = IF IsPattern(j) THEN canceled \ {j.token} ELSE canceled
      /\ pending' = ~(queue = <<>> /\ inFlight' = 0)
      /\ pc' = [pc EXCEPT ![w] = "idle"] /\ job' = [job EXCEPT ![w] = NoJob]
      /\ queue' = queue /\ results' = results /\ sharedCount' = sharedCount
      /\ epoch' = epoch /\ lost' = lost
      /\ quit' = quit /\ nextToken' = nextToken /\ uiPc' = uiPc /\ asking' = asking
      /\ wanted' = wanted /\ marked' = marked /\ loaded' = loaded
      /\ cut' = cut /\ refused' = refused /\ drained' = drained
  BY Zenon DEF Finish, Goto, Elsewhere, client, marks
<1>2. batchTotal' \in Nat /\ batchDone' \in Nat
  BY SMT DEF Finish, batch, Types
<1>3. /\ w \in Running /\ job'[w] = NoJob /\ pc'[w] = "idle"
      /\ \A v \in Worker : v # w => pc'[v] = pc[v] /\ job'[v] = job[v]
      /\ pc' \in [Worker -> WorkerStates] /\ job' \in [Worker -> Jobs \cup {NoJob}]
  BY <1>1, SMT DEF Types, Running, WorkerStates
<1>4. Running' = Running \ {w}
  BY <1>3, SMT DEF Running
<1>5. \A v \in Running' : v \in Running /\ v # w /\ v \in Worker /\ pc'[v] = pc[v] /\ job'[v] = job[v]
  BY <1>3, <1>4, Zenon
<1>6. Known' \subseteq Known
  BY <1>1, <1>5, Zenon DEF Known
<1>7. \A v \in Running' : job[v].token # j.token
  BY <1>3, <1>5, Zenon DEF RequestsApart
<1> HIDE DEF j
<1>8. Types'
  BY <1>1, <1>2, <1>3, Zenon DEF Types, WorkerStates
<1>9. Flags'
  <2>1. pending' \in BOOLEAN
    BY <1>1, Zenon
  <2> QED
    BY <1>1, <2>1, Zenon DEF Flags
<1>10. inFlight' = Cardinality(Running') /\ inFlight' \in Nat
  <2>1. Cardinality(Running \ {w}) = Cardinality(Running) - 1 /\ IsFiniteSet(Running \ {w})
    BY <1>3, RunningCount, FS_RemoveElement
  <2> QED
    BY <1>1, <1>4, <2>1, RunningCount, FS_CardinalityType
<1>11. Counts'
  <2>1. \A v \in Worker : IsPattern(job[v]) => v \in Running
    BY SMT DEF WorkersHold, IsPattern, NoJob
  <2>2. ~IsPattern(job'[w])
    BY <1>3, SMT DEF IsPattern, NoJob
  <2>3. \A v \in Worker : IsPattern(job'[v]) <=> IsPattern(job[v]) /\ v # w
    BY <1>3, <2>2, Zenon
  <2>4. \A v \in Worker : IsPattern(job[v]) /\ v # w => job[v].token # j.token
    BY <1>4, <1>7, <2>1, Zenon
  <2>5. {job'[v].token : v \in {u \in Worker : IsPattern(job'[u])}}
          = {job[v].token : v \in {u \in Worker : IsPattern(job[u]) /\ u # w}}
    BY <1>3, <2>3, SMT
  <2>6. inFlightPatterns' = {job[v].token : v \in {u \in Worker : IsPattern(job[u]) /\ u # w}}
    <3>1. CASE IsPattern(j)
      BY <1>1, <2>4, <3>1, SMT DEF Counts, j
    <3>2. CASE ~IsPattern(j)
      BY <1>1, <3>2, SMT DEF Counts, j
    <3> QED
      BY <3>1, <3>2
  <2>7. canceled' \subseteq inFlightPatterns'
    BY <1>1, SMT DEF Counts
  <2> QED
    BY <1>10, <2>5, <2>6, <2>7, Zenon DEF Counts
<1>12. WorkersHold'
  BY <1>3, <1>4, SMT DEF WorkersHold
<1>13. RequestsApart'
  BY <1>1, <1>5, SMT DEF RequestsApart
<1>14. TokensAreUsed' /\ WantedAreSearches'
  BY <1>1, <1>6, Zenon DEF TokensAreUsed, WantedAreSearches
<1>15. RetiredIsKnown'
  <2>1. \A v \in Running' : job[v].token \in refused => IsPattern(job[v]) /\ job[v].token \in canceled'
    BY <1>1, <1>5, <1>7, SMT DEF RetiredIsKnown
  <2> QED
    BY <1>1, <1>5, <2>1, SMT DEF RetiredIsKnown
<1>16. WantedIsHeld'
  BY <1>1, <1>3, <1>4, <1>5, SMT DEF WantedIsHeld
<1>17. NothingBeforeDrained'
  BY <1>1, <1>5, SMT DEF NothingBeforeDrained
<1>18. UiIsHonest' /\ QuitIsLast'
  <2>1. pending' <=> ~Idle'
    BY <1>1, Zenon DEF Idle
  <2>2. inFlight' # 0 => inFlight' > 0
    BY <1>10
  <2>3. UiIsHonest'
    BY <1>1, <2>1, <2>2, Zenon DEF UiIsHonest, Idle
  <2>4. QuitIsLast'
    BY <1>1, Zenon DEF QuitIsLast
  <2> QED
    BY <2>3, <2>4
<1> QED
  BY <1>1, <1>8, <1>9, <1>11, <1>12, <1>13, <1>14, <1>15, <1>16, <1>17, <1>18, Zenon DEF SetInv

\* Every step keeps the invariant.
LEMMA StepKeeps ==
  ASSUME SetInv, [Next]_vars
  PROVE  SetInv'
<1>1. CASE RequestPattern \/ RequestShared \/ RequestImage
  BY <1>1, RequestKeeps
<1>2. CASE AnalyzeAll \/ Announce \/ WaitEnds \/ BumpEpoch \/ Joined
  BY <1>2, UiKeeps
<1>3. CASE TakePattern \/ TakeShared \/ CancelPattern
  BY <1>3, TakePatternKeeps, TakeSharedKeeps, CancelPatternKeeps
<1>4. CASE StopPressed \/ SessionChanged \/ CancelAndWait \/ Destroy
  BY <1>4, SupersedeKeeps, DestroyKeeps
<1>5. ASSUME NEW w \in Worker, WorkerStep(w)
      PROVE  SetInv'
  BY <1>5, PickKeeps, MovesKeep, PublishKeeps, FinishKeeps, Zenon DEF WorkerStep
<1>6. CASE UNCHANGED vars
  <2>1. /\ queue' = queue /\ results' = results /\ sharedCount' = sharedCount
        /\ inFlight' = inFlight /\ inFlightPatterns' = inFlightPatterns /\ canceled' = canceled
        /\ epoch' = epoch /\ pending' = pending /\ quit' = quit /\ nextToken' = nextToken
        /\ batchTotal' = batchTotal /\ batchDone' = batchDone /\ pc' = pc /\ job' = job
        /\ uiPc' = uiPc /\ asking' = asking /\ wanted' = wanted /\ marked' = marked
        /\ loaded' = loaded /\ cut' = cut /\ refused' = refused /\ drained' = drained
        /\ lost' = lost
    BY <1>6, Zenon DEF vars, service, batch, workers, client, marks
  <2>2. Running' = Running /\ Known' = Known
    BY <2>1, Zenon DEF Running, Known
  <2>3. Types' /\ Flags' /\ Counts'
    <3>1. Types' /\ Flags'
      BY <2>1, InvParts, Zenon DEF Types, Flags
    <3>2. Counts'
      BY <2>1, <2>2, InvParts, CountsStand, Zenon
    <3> QED
      BY <3>1, <3>2
  <2>4. WorkersHold' /\ TokensAreUsed' /\ WantedAreSearches' /\ RetiredIsKnown'
    BY <2>1, <2>2, InvParts, Zenon
       DEF WorkersHold, TokensAreUsed, WantedAreSearches, RetiredIsKnown
  <2>5. RequestsApart'
    BY <2>1, <2>2, InvParts, SMT DEF RequestsApart
  <2>6. WantedIsHeld'
    BY <2>1, <2>2, InvParts, Zenon DEF WantedIsHeld
  <2>7. NothingBeforeDrained' /\ UiIsHonest' /\ QuitIsLast'
    BY <2>1, <2>2, InvParts, Zenon DEF NothingBeforeDrained, UiIsHonest, QuitIsLast, Idle
  <2> QED
    BY <2>1, <2>3, <2>4, <2>5, <2>6, <2>7, InvParts, Zenon DEF SetInv
<1> QED
  BY <1>1, <1>2, <1>3, <1>4, <1>5, <1>6, Zenon DEF Next, UiCompletes

\* The invariant holds throughout.
LEMMA Invariant == Spec => []IInv
<1>1. Init => SetInv
  BY InitInv
<1>2. SetInv /\ [Next]_vars => SetInv'
  BY StepKeeps
<1>3. SetInv => IInv
  BY SetView
<1> QED
  BY <1>1, <1>2, <1>3, PTL DEF Spec

----------------------------------------------------------------------------
(* What follows from it.                                                   *)

\* The queue, the workers and the marks have their types; the count of running
\* jobs and the set of running searches are those of the workers, although they
\* are kept apart from them (inFlight_, inFlightPatternTokens_ in threadMain).
THEOREM TypeCorrect == Spec => []TypeOK
<1>1. IInv => TypeOK
  BY DEF IInv
<1> QED
  BY <1>1, Invariant, PTL

\* No result is delivered of what was cancelled, whatever the worker had already
\* checked; no search that its document still wants is lost, whatever else is
\* published; and the bounded results are the ones the bound counts.
THEOREM ResultsAlwaysHonest == Spec => []ResultsHonest
<1>1. IInv => ResultsHonest
  <2> SUFFICES ASSUME IInv PROVE ResultsHonest
    OBVIOUS
  <2>1. RetiredNeverDelivered /\ SharedBounded
    BY DEF IInv
  <2>2. queue \in Seq(Jobs) /\ results \in Seq(Jobs) /\ WantedIsHeld
    BY Zenon DEF IInv, TypeOK
  <2>3. /\ \A r \in Range(queue) : Contains(queue, r)
        /\ \A r \in Range(results) : Contains(results, r)
    BY <2>2, LenProperties DEF Range, Contains
  <2>4. PatternKept
    BY <2>2, <2>3, Zenon DEF PatternKept, WantedIsHeld, Running
  <2> QED
    BY <2>1, <2>4 DEF ResultsHonest
<1> QED
  BY <1>1, Invariant, PTL

\* After cancelAndWaitIdle no worker is in the code of an earlier request, and
\* busy() is true exactly while something is queued or running.
THEOREM IdleAlwaysHonest == Spec => []IdleIsHonest
<1>1. IInv => IdleIsHonest
  <2> SUFFICES ASSUME IInv PROVE IdleIsHonest
    OBVIOUS
  <2>1. NoReaderAfterWait
    BY Zenon DEF IInv, NothingBeforeDrained, WorkersHold, NoReaderAfterWait
  <2>2. BusyIsHonest
    BY SMT DEF IInv, UiIsHonest, BusyIsHonest
  <2> QED
    BY <2>1, <2>2 DEF IdleIsHonest
<1> QED
  BY <1>1, Invariant, PTL

=============================================================================
