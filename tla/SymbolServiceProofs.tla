------------------------- MODULE SymbolServiceProofs -------------------------
(***************************************************************************)
(* Proofs about the owner of the DbgHelp work, for any addresses, names,   *)
(* limits and numbers of sessions: the types with the bounds of the        *)
(* caches, that what is pending is under way, and that sessions are kept   *)
(* apart.                                                                  *)
(***************************************************************************)
EXTENDS SymbolService, SequenceTheorems, FiniteSetTheorems, WellFoundedInduction, TLAPS
----------------------------------------------------------------------------
(* The inductive invariant.                                                *)

Idling == pc \in {"wait", "ended"}

\* A request is for the session of its generation; a reset is for none.
Sound(r) ==
  /\ r.gen <= generation
  /\ r.kind = "reset" <=> r.session = NoSession
  /\ r.kind # "reset" => r.session.gen = r.gen /\ r.gen # 0
  /\ r.kind = "name" => r.of \in Name
  /\ r.kind \in {"basic", "detailed"} => r.of \in Addr

RequestsAreSound ==
  /\ Sound(request)
  /\ \A i \in DOMAIN queue : Sound(queue[i]) /\ queue[i].gen = generation
  /\ stopping => queue = <<>>

\* A generation has one session.
OneSession(s) ==
  /\ s.gen <= generation
  /\ s.gen = 0 => s = NoSession
  /\ s.gen = generation /\ s.gen # 0 /\ ~stopping => s = session

SessionsAreOne ==
  /\ session.gen \in {0, generation} /\ OneSession(session) /\ OneSession(active)
  /\ OneSession(bound) /\ OneSession(request.session)
  /\ \A i \in DOMAIN queue : OneSession(queue[i].session)

\* The worker's step, and what the backend is bound to.
WorkerHolds ==
  /\ busy <=> ~Idling
  /\ Idling => request = NoRequest
  /\ pc = "reset" => request.kind = "reset"
  /\ pc \in {"check", "unbind", "bind", "modules"} => request.kind # "reset"
  /\ pc \in {"resolve", "publish"} => request.kind \in Lookup
  /\ ~backend => pc \in {"wait", "fail", "done", "ended"}

BackendHolds ==
  /\ active # NoSession => bound = active
  /\ ~backend => bound = NoSession /\ active = NoSession
  /\ pc \in {"bind", "modules"} => active = NoSession
  /\ pc \in {"modules", "resolve"} => bound = request.session
  /\ pc = "publish" => /\ answer.of = request.of /\ answer.kind = request.kind
                       /\ answer.by = request.gen /\ answer.cost <= MaxRetainedBytes

\* No two entries of a cache are of one address or name.
Distinct(cache) == \A i, j \in DOMAIN cache : cache[i].of = cache[j].of => i = j

\* The caches have one entry for an address, resolved for the session of now.
CachesAreFresh ==
  /\ \A i \in DOMAIN addresses : addresses[i].by = generation
  /\ \A i \in DOMAIN names : names[i].by = generation
  /\ Distinct(addresses)

\* A basic lookup under way finds nothing cached and comes first.
BasicComesFirst ==
  \A i \in Underway : At(i).kind = "basic" =>
    /\ \A n \in DOMAIN addresses : addresses[n].of # At(i).of
    /\ \A j \in Underway : j < i => At(j).kind = "name" \/ At(j).of # At(i).of

\* What is pending is under way, each lookup once.
PendingHolds ==
  /\ IsFiniteSet(pending) /\ pendingBytes = CostOf(pending)
  /\ ~stopping => /\ \A k \in pending : \E i \in Underway : k = Key(At(i))
                  /\ \A i \in Underway : Key(At(i)) \in pending
                  /\ \A i, j \in Underway : Key(At(i)) = Key(At(j)) => i = j

\* While the caller waits, the backend is let go.
WaitingHolds ==
  call = "waiting" =>
    /\ session = NoSession /\ pending = {}
    /\ \/ Len(queue) = 1 /\ queue[1].kind = "reset"
       \/ queue = <<>> /\ pc = "reset"
       \/ /\ queue = <<>> /\ pc \in {"fail", "done", "wait", "ended"}
          /\ bound = NoSession /\ active = NoSession /\ request.session = NoSession

IInv == /\ TypeOK /\ RequestsAreSound /\ SessionsAreOne /\ WorkerHolds /\ BackendHolds
        /\ CachesAreFresh /\ BasicComesFirst /\ PendingHolds /\ WaitingHolds
----------------------------------------------------------------------------
(* The caches, and what is counted.                                        *)

\* The least number of a set: induction, as far as it is needed here.
LEMMA LeastNumber ==
  ASSUME NEW S \in SUBSET Nat, S # {}
  PROVE  \E m \in S : \A k \in S : m <= k
<1> DEFINE R == OpToRel(<, Nat)
<1>1. IsWellFoundedOn(R, Nat)
  BY NatLessThanWellFounded
<1>2. \A k, m \in Nat : k < m => <<k, m>> \in R
  BY DEF OpToRel
<1> HIDE DEF R
<1>3. PICK m \in S : \A k \in S : ~(<<k, m>> \in R)
  BY <1>1, WFMin
<1>4. \A k \in S : ~(k < m)
  BY <1>2, <1>3
<1> QED
  BY <1>4

\* The pairs that are counted: for one that has n, and for all of a function.
Pairs(x, n) == {x} \X (1 .. n)
Cells(f) == UNION {Pairs(x, f[x]) : x \in DOMAIN f}

\* One that has n is counted as n.
LEMMA PairsCounted ==
  ASSUME NEW x, NEW n \in Nat
  PROVE  IsFiniteSet(Pairs(x, n)) /\ Cardinality(Pairs(x, n)) = n
<1>1. IsFiniteSet({x}) /\ Cardinality({x}) = 1
  BY FS_Singleton
<1>2. IsFiniteSet(1 .. n) /\ Cardinality(1 .. n) = n
  BY FS_Interval
<1>3. /\ IsFiniteSet({x} \X (1 .. n))
      /\ Cardinality({x} \X (1 .. n)) = Cardinality({x}) * Cardinality(1 .. n)
  BY <1>1, <1>2, FS_Product
<1>4. Cardinality({x} \X (1 .. n)) = 1 * n
  BY <1>1, <1>2, <1>3, Zenon
<1>5. 1 * n = n
  OBVIOUS
<1> QED
  BY <1>3, <1>4, <1>5, Zenon DEF Pairs

\* What is counted is finite.
LEMMA CellsFinite ==
  ASSUME NEW S, IsFiniteSet(S), NEW f \in [S -> Nat]
  PROVE  IsFiniteSet(Cells(f)) /\ Cardinality(Cells(f)) \in Nat
<1> DEFINE parts == {Pairs(x, f[x]) : x \in S}
<1>1. IsFiniteSet(parts)
  <2>1. [x \in S |-> Pairs(x, f[x])] \in Surjection(S, parts)
    BY DEF Surjection
  <2> QED
    BY <2>1, FS_Surjection
<1>2. \A T \in parts : IsFiniteSet(T)
  BY PairsCounted
<1>3. Cells(f) = UNION parts
  BY DEF Cells
<1> HIDE DEF parts
<1>4. IsFiniteSet(Cells(f))
  BY <1>1, <1>2, <1>3, FS_UNION
<1> QED
  BY <1>4, FS_CardinalityType

\* One more is counted.
LEMMA CellsAdded ==
  ASSUME NEW S, IsFiniteSet(S), NEW f \in [S -> Nat], NEW x, x \notin S, NEW n \in Nat,
         NEW g, DOMAIN g = S \cup {x}, g[x] = n, \A y \in S : g[y] = f[y]
  PROVE  Cardinality(Cells(g)) = Cardinality(Cells(f)) + n
<1>1. Cells(g) = Cells(f) \cup Pairs(x, n)
  <2>1. \A c : c \in Cells(g) <=> \E y \in S \cup {x} : c \in Pairs(y, g[y])
    BY DEF Cells
  <2>2. \A c : c \in Cells(f) <=> \E y \in S : c \in Pairs(y, f[y])
    BY DEF Cells
  <2>3. \A c : c \in Cells(g) <=> c \in Cells(f) \/ c \in Pairs(x, n)
    BY <2>1, <2>2
  <2> QED
    BY <2>3
<1>2. Cells(f) \cap Pairs(x, n) = {}
  BY DEF Cells, Pairs
<1>3. IsFiniteSet(Pairs(x, n)) /\ Cardinality(Pairs(x, n)) = n
  BY PairsCounted
<1>4. IsFiniteSet(Cells(f)) /\ Cardinality(Cells(f)) \in Nat
  BY CellsFinite
<1>5. Cardinality(Cells(f) \cup Pairs(x, n))
        = Cardinality(Cells(f)) + Cardinality(Pairs(x, n)) - Cardinality(Cells(f) \cap Pairs(x, n))
  BY <1>3, <1>4, FS_Union
<1>6. Cardinality(Cells(f) \cap Pairs(x, n)) = 0
  BY <1>2, FS_EmptySet
<1>7. Cardinality(Cells(g)) = Cardinality(Cells(f)) + n - 0
  BY <1>1, <1>3, <1>5, <1>6, Zenon
<1> QED
  BY <1>4, <1>7

\* What the limits of the code guarantee of the constants.
LEMMA Costs == /\ Cost \in [Lookup -> Nat] /\ Weight \in [Lookup -> 0 .. MaxRetainedBytes]
               /\ MaxRetainedBytes \in Nat /\ MaxQueuedBytes \in Nat /\ MaxPending \in Nat
               /\ MaxGeneration \in Nat
               /\ MaxAddressCache \in Nat \ {0} /\ MaxNameCache \in Nat \ {0}
  BY SymbolAssumption DEF SymbolAssumption

\* What is counted of a cache, and of the pending lookups.
CostsIn(cache) == [i \in DOMAIN cache |-> cache[i].cost]
CostsFor(keys) == [k \in keys |-> Cost[k.kind]]

\* The bytes of a cache are a number.
LEMMA BytesAre ==
  ASSUME NEW cache \in Seq(Answer)
  PROVE  /\ IsFiniteSet(DOMAIN cache) /\ CostsIn(cache) \in [DOMAIN cache -> Nat]
         /\ Bytes(cache) = Cardinality(Cells(CostsIn(cache))) /\ Bytes(cache) \in Nat
<1>1. IsFiniteSet(DOMAIN cache)
  BY LenProperties, FS_Interval
<1>2. \A i \in DOMAIN cache : cache[i].cost \in Nat
  <2>1. \A i \in DOMAIN cache : cache[i] \in Answer
    BY ElementOfSeq, LenProperties
  <2> QED
    BY <2>1 DEF Answer
<1>3. CostsIn(cache) \in [DOMAIN cache -> Nat]
  BY <1>2 DEF CostsIn
<1>4. Cardinality(Cells(CostsIn(cache))) \in Nat
  BY <1>1, <1>3, CellsFinite
<1>5. Cells(CostsIn(cache)) = UNION {{i} \X (1 .. cache[i].cost) : i \in DOMAIN cache}
  BY DEF Cells, CostsIn, Pairs
<1> QED
  BY <1>1, <1>3, <1>4, <1>5, Zenon DEF Bytes

\* An empty cache retains nothing.
LEMMA NoBytes == Bytes(<<>>) = 0
<1>1. UNION {{i} \X (1 .. (<<>>)[i].cost) : i \in DOMAIN <<>>} = {}
  OBVIOUS
<1> QED
  BY <1>1, FS_EmptySet DEF Bytes

\* A cache retains the bytes of an answer more when it is appended.
LEMMA BytesAppended ==
  ASSUME NEW cache \in Seq(Answer), NEW a \in Answer
  PROVE  Bytes(Append(cache, a)) = Bytes(cache) + a.cost
<1> DEFINE more == Append(cache, a)
           n == Len(cache) + 1
<1>1. /\ more \in Seq(Answer) /\ DOMAIN more = DOMAIN cache \cup {n} /\ more[n] = a
      /\ n \notin DOMAIN cache /\ \A i \in DOMAIN cache : more[i] = cache[i]
  BY LenProperties, AppendProperties
<1> HIDE DEF more, n
<1>2. /\ Bytes(cache) = Cardinality(Cells(CostsIn(cache))) /\ IsFiniteSet(DOMAIN cache)
      /\ CostsIn(cache) \in [DOMAIN cache -> Nat]
  BY BytesAre
<1>3. Bytes(more) = Cardinality(Cells(CostsIn(more)))
  BY <1>1, BytesAre
<1>4. /\ DOMAIN CostsIn(more) = DOMAIN cache \cup {n} /\ CostsIn(more)[n] = a.cost
      /\ \A i \in DOMAIN cache : CostsIn(more)[i] = CostsIn(cache)[i]
  BY <1>1 DEF CostsIn
<1>5. a.cost \in Nat
  BY DEF Answer
<1>6. Cardinality(Cells(CostsIn(more))) = Cardinality(Cells(CostsIn(cache))) + a.cost
  BY <1>1, <1>2, <1>4, <1>5, CellsAdded
<1> QED
  BY <1>2, <1>3, <1>6, Zenon DEF more

Keys == [kind : Lookup, of : Addr \cup Name]

\* The bytes pending are a number.
LEMMA CostsAre ==
  ASSUME NEW keys \in SUBSET Keys, IsFiniteSet(keys)
  PROVE  /\ CostsFor(keys) \in [keys -> Nat]
         /\ CostOf(keys) = Cardinality(Cells(CostsFor(keys))) /\ CostOf(keys) \in Nat
<1>1. CostsFor(keys) \in [keys -> Nat]
  BY Costs DEF CostsFor, Keys
<1>2. Cardinality(Cells(CostsFor(keys))) \in Nat
  BY <1>1, CellsFinite
<1>3. Cells(CostsFor(keys)) = UNION {{k} \X (1 .. Cost[k.kind]) : k \in keys}
  BY DEF Cells, CostsFor, Pairs
<1> QED
  BY <1>1, <1>2, <1>3, Zenon DEF CostOf

\* Nothing pending costs nothing.
LEMMA NoCost == CostOf({}) = 0
  BY FS_EmptySet DEF CostOf

\* A new lookup costs its own bytes.
LEMMA CostAdded ==
  ASSUME NEW keys \in SUBSET Keys, IsFiniteSet(keys), NEW k \in Keys, k \notin keys
  PROVE  IsFiniteSet(keys \cup {k}) /\ CostOf(keys \cup {k}) = CostOf(keys) + Cost[k.kind]
<1> DEFINE more == keys \cup {k}
<1>1. IsFiniteSet(more) /\ more \in SUBSET Keys
  BY FS_AddElement
<1>2. CostsFor(keys) \in [keys -> Nat] /\ CostOf(keys) = Cardinality(Cells(CostsFor(keys)))
  BY CostsAre
<1>3. CostOf(more) = Cardinality(Cells(CostsFor(more)))
  BY <1>1, CostsAre
<1>4. /\ DOMAIN CostsFor(more) = keys \cup {k} /\ CostsFor(more)[k] = Cost[k.kind]
      /\ \A j \in keys : CostsFor(more)[j] = CostsFor(keys)[j]
  BY DEF CostsFor
<1>5. Cost[k.kind] \in Nat
  BY Costs DEF Keys
<1> HIDE DEF more
<1>6. Cardinality(Cells(CostsFor(more))) = Cardinality(Cells(CostsFor(keys))) + Cost[k.kind]
  BY <1>2, <1>4, <1>5, CellsAdded
<1> QED
  BY <1>1, <1>2, <1>3, <1>6, Zenon DEF more

\* A lookup that leaves gives its bytes back, which were counted.
LEMMA CostRemoved ==
  ASSUME NEW keys \in SUBSET Keys, IsFiniteSet(keys), NEW k \in keys
  PROVE  /\ IsFiniteSet(keys \ {k}) /\ CostOf(keys \ {k}) = CostOf(keys) - Cost[k.kind]
         /\ CostOf(keys \ {k}) \in Nat /\ Cost[k.kind] \in Nat
<1>1. IsFiniteSet(keys \ {k}) /\ keys \ {k} \in SUBSET Keys /\ k \notin keys \ {k} /\ k \in Keys
  BY FS_RemoveElement
<1>2. (keys \ {k}) \cup {k} = keys
  OBVIOUS
<1>3. CostOf((keys \ {k}) \cup {k}) = CostOf(keys \ {k}) + Cost[k.kind]
  BY <1>1, CostAdded
<1>4. CostOf(keys) = CostOf(keys \ {k}) + Cost[k.kind]
  BY <1>2, <1>3, Zenon
<1>5. CostOf(keys \ {k}) \in Nat /\ Cost[k.kind] \in Nat
  BY <1>1, CostsAre, Costs DEF Keys
<1> QED
  BY <1>1, <1>4, <1>5
----------------------------------------------------------------------------
(* What publishing does to the caches.                                     *)

\* Every entry is one of another cache.
Drawn(some, cache) == \A j \in DOMAIN some : \E i \in DOMAIN cache : some[j] = cache[i]

\* An address is taken out of a cache that has it at most once.
LEMMA WithoutIs ==
  ASSUME NEW cache \in Seq(Answer), NEW of
  PROVE  /\ Without(cache, of) \in Seq(Answer) /\ Drawn(Without(cache, of), cache)
         /\ Distinct(cache) => /\ Distinct(Without(cache, of))
                               /\ \A j \in DOMAIN Without(cache, of) : Without(cache, of)[j].of # of
<1> DEFINE old == {i \in DOMAIN cache : cache[i].of = of}
           o == CHOOSE i \in old : TRUE
           n == Len(cache)
<1>1. Without(cache, of) = IF old = {} THEN cache ELSE RemoveAt(cache, o)
  BY DEF Without
<1>2. CASE old = {}
  <2>1. Without(cache, of) = cache
    BY <1>1, <1>2, Zenon
  <2>2. \A j \in DOMAIN cache : cache[j].of # of
    BY <1>2
  <2> QED
    BY <2>1, <2>2 DEF Drawn
<1>3. CASE old # {}
  <2>1. o \in old
    BY <1>3
  <2>2. /\ n \in Nat /\ DOMAIN cache = 1 .. n /\ o \in 1 .. n /\ cache[o].of = of
        /\ \A i \in 1 .. n : cache[i] \in Answer
    BY <2>1, LenProperties, ElementOfSeq
  <2> HIDE DEF o, old, n
  <2> DEFINE s == SubSeq(cache, 1, o - 1)
             t == SubSeq(cache, o + 1, n)
  <2>3. /\ s \in Seq(Answer) /\ Len(s) = o - 1
        /\ \A i \in 1 .. (o - 1) : s[i] = cache[i]
    <3>1. o - 1 \in Int /\ \A i \in 1 .. (o - 1) : cache[i] \in Answer
      BY <2>2
    <3>2. /\ s \in Seq(Answer) /\ Len(s) = IF 1 <= o - 1 THEN o - 1 - 1 + 1 ELSE 0
          /\ \A i \in 1 .. o - 1 - 1 + 1 : s[i] = cache[1 + i - 1]
      BY <3>1, SubSeqProperties
    <3> QED
      BY <2>2, <3>2
  <2>4. /\ t \in Seq(Answer) /\ Len(t) = n - o
        /\ \A i \in 1 .. (n - o) : t[i] = cache[o + i]
    <3>1. o + 1 \in Int /\ n \in Int /\ \A i \in (o + 1) .. n : cache[i] \in Answer
      BY <2>2
    <3>2. /\ t \in Seq(Answer) /\ Len(t) = IF o + 1 <= n THEN n - (o + 1) + 1 ELSE 0
          /\ \A i \in 1 .. n - (o + 1) + 1 : t[i] = cache[(o + 1) + i - 1]
      BY <3>1, SubSeqProperties
    <3> QED
      BY <2>2, <3>2
  <2> HIDE DEF s, t
  <2> DEFINE w == s \o t
  <2>5. Without(cache, of) = w
    BY <1>1, <1>3 DEF RemoveAt, s, t, n
  <2>6. /\ w \in Seq(Answer) /\ Len(w) = n - 1 /\ DOMAIN w = 1 .. (n - 1)
        /\ \A i \in 1 .. (n - 1) : w[i] = IF i <= o - 1 THEN s[i] ELSE t[i - (o - 1)]
    <3>1. /\ w \in Seq(Answer) /\ Len(w) = Len(s) + Len(t)
          /\ \A i \in 1 .. (Len(s) + Len(t)) : w[i] = IF i <= Len(s) THEN s[i] ELSE t[i - Len(s)]
      BY <2>3, <2>4, ConcatProperties
    <3> HIDE DEF w
    <3>2. Len(s) + Len(t) = n - 1 /\ Len(s) = o - 1
      BY <2>2, <2>3, <2>4
    <3>3. DOMAIN w = 1 .. Len(w)
      BY <3>1, LenProperties
    <3> QED
      BY <3>1, <3>2, <3>3, Zenon
  <2> HIDE DEF w
  <2>7. ASSUME NEW i \in 1 .. (n - 1)
        PROVE  \E k \in 1 .. n : w[i] = cache[k] /\ k # o /\ (i < o <=> k = i) /\ (i >= o <=> k = i + 1)
    <3>1. CASE i < o
      BY <2>2, <2>3, <2>6, <3>1
    <3>2. CASE i >= o
      <4>1. i - (o - 1) \in 1 .. (n - o) /\ o + (i - (o - 1)) = i + 1 /\ ~(i <= o - 1)
        BY <2>2, <3>2
      <4>2. w[i] = cache[i + 1]
        BY <2>4, <2>6, <4>1
      <4> QED
        BY <2>2, <3>2, <4>2
    <3> QED
      BY <2>2, <3>1, <3>2
  <2>8. Drawn(w, cache)
    BY <2>2, <2>6, <2>7 DEF Drawn
  <2>9. ASSUME Distinct(cache)
        PROVE  Distinct(w) /\ \A j \in DOMAIN w : w[j].of # of
    <3>1. \A j \in 1 .. (n - 1) : w[j].of # of
      BY <2>2, <2>7, <2>9 DEF Distinct
    <3>2. ASSUME NEW i \in 1 .. (n - 1), NEW j \in 1 .. (n - 1), w[i].of = w[j].of
          PROVE  i = j
      <4>1. PICK k \in 1 .. n : w[i] = cache[k] /\ (i < o <=> k = i) /\ (i >= o <=> k = i + 1)
        BY <2>7
      <4>2. PICK m \in 1 .. n : w[j] = cache[m] /\ (j < o <=> m = j) /\ (j >= o <=> m = j + 1)
        BY <2>7
      <4>3. k = m
        BY <2>2, <2>9, <3>2, <4>1, <4>2 DEF Distinct
      <4> QED
        BY <2>2, <4>1, <4>2, <4>3
    <3> QED
      BY <2>6, <3>1, <3>2 DEF Distinct
  <2> QED
    BY <2>5, <2>6, <2>8, <2>9
<1> QED
  BY <1>2, <1>3

\* What eviction leaves: the newest entries, few and small enough, or none.
LEMMA EvictIs ==
  ASSUME NEW cache \in Seq(Answer), NEW most \in Nat, NEW others \in Nat
  PROVE  LET e == Evict(cache, most, others)
         IN  /\ e \in Seq(Answer) /\ Len(e) <= most /\ Len(e) <= Len(cache)
             /\ Drawn(e, cache)
             /\ Distinct(cache) => Distinct(e)
             /\ e = <<>> \/ Bytes(e) + others <= MaxRetainedBytes
<1> DEFINE n == Len(cache)
           rest(k) == SubSeq(cache, k + 1, n)
           fits(k) == Len(rest(k)) <= most /\ Bytes(rest(k)) + others <= MaxRetainedBytes
           Good == {k \in 0 .. n : fits(k) \/ k = n}
           K == CHOOSE k \in 0 .. n : (fits(k) \/ k = n) /\ \A j \in 0 .. (k - 1) : ~fits(j)
<1>1. n \in Nat /\ DOMAIN cache = 1 .. n /\ \A i \in 1 .. n : cache[i] \in Answer
  BY LenProperties, ElementOfSeq
<1>2. K \in 0 .. n /\ (fits(K) \/ K = n)
  <2>1. n \in Good /\ Good \in SUBSET Nat
    BY <1>1
  <2>2. PICK m \in Good : \A k \in Good : m <= k
    BY <2>1, LeastNumber
  <2> HIDE DEF fits, n
  <2>3. m \in 0 .. n /\ (fits(m) \/ m = n)
    OBVIOUS
  <2>4. \A k \in 0 .. n : fits(k) \/ k = n => m <= k
    BY <2>2
  <2> HIDE DEF Good
  <2>5. \A j \in 0 .. (m - 1) : j \in 0 .. n /\ ~(m <= j)
    BY <1>1, <2>3
  <2>6. \A j \in 0 .. (m - 1) : ~fits(j)
    BY <2>4, <2>5
  <2> QED
    BY <2>3, <2>6, Zenon
<1>3. Evict(cache, most, others) = rest(K)
  BY DEF Evict
<1> DEFINE e == rest(K)
<1>a. /\ fits(K) => Len(e) <= most /\ Bytes(e) + others <= MaxRetainedBytes
      /\ K \in 0 .. n /\ (fits(K) \/ K = n)
  BY <1>2
<1> HIDE DEF K, fits
<1>b. K \in 0 .. n
  BY <1>a
<1>4. /\ e \in Seq(Answer) /\ Len(e) = n - K
      /\ \A i \in 1 .. (n - K) : e[i] = cache[K + i]
  <2>1. K + 1 \in Int /\ n \in Int /\ \A i \in (K + 1) .. n : cache[i] \in Answer
    BY <1>1, <1>b
  <2>2. /\ e \in Seq(Answer) /\ Len(e) = IF K + 1 <= n THEN n - (K + 1) + 1 ELSE 0
        /\ \A i \in 1 .. n - (K + 1) + 1 : e[i] = cache[(K + 1) + i - 1]
    BY <2>1, SubSeqProperties
  <2> HIDE DEF e, n
  <2>3. Len(e) = n - K
    BY <1>1, <1>b, <2>2
  <2>4. \A i \in 1 .. (n - K) : i \in 1 .. n - (K + 1) + 1 /\ (K + 1) + i - 1 = K + i
    BY <1>1, <1>b
  <2>5. \A i \in 1 .. (n - K) : e[i] = cache[K + i]
    BY <2>2, <2>4
  <2> QED
    BY <2>2, <2>3, <2>5
<1> HIDE DEF e, n
<1>7. DOMAIN e = 1 .. (n - K)
  BY <1>4, LenProperties
<1>8. K = n => e = <<>>
  BY <1>1, <1>4, EmptySeq
<1>9. Len(e) <= most /\ Len(e) <= n
  BY <1>1, <1>a, <1>b, <1>4
<1>10. Drawn(e, cache)
  <2>1. \A i \in 1 .. (n - K) : K + i \in 1 .. n
    BY <1>1, <1>b
  <2> QED
    BY <1>1, <1>4, <1>7, <2>1 DEF Drawn
<1>11. Distinct(cache) => Distinct(e)
  <2>1. \A i, j \in 1 .. (n - K) : /\ K + i \in 1 .. n /\ K + j \in 1 .. n
                                   /\ K + i = K + j => i = j
    BY <1>1, <1>b
  <2> QED
    BY <1>1, <1>4, <1>7, <2>1 DEF Distinct
<1>12. e = <<>> \/ Bytes(e) + others <= MaxRetainedBytes
  BY <1>a, <1>8
<1>13. Evict(cache, most, others) = e
  BY <1>3, Zenon DEF e, n
<1> QED
  BY <1>4, <1>9, <1>10, <1>11, <1>12, <1>13, Zenon DEF n

\* One cache is made room in for an answer, the other loses what is too much.
Fitted(some, other, newSome, newOther, a) ==
  /\ newSome \in Seq(Answer) /\ newOther \in Seq(Answer)
  /\ Len(newOther) <= Len(other)
  /\ Bytes(newSome) + Bytes(newOther) <= MaxRetainedBytes
  /\ Drawn(newOther, other)
  /\ Distinct(other) => Distinct(newOther)
  /\ \A j \in DOMAIN newSome : newSome[j] = a \/ \E i \in DOMAIN some : newSome[j] = some[i]
  /\ Distinct(some) => /\ Distinct(newSome)
                       /\ \A j \in DOMAIN newSome : newSome[j].of = a.of => newSome[j] = a

\* However much both caches held, together they are within the bound again.
LEMMA Fits ==
  ASSUME NEW some \in Seq(Answer), NEW other \in Seq(Answer), NEW most \in Nat \ {0},
         NEW a \in Answer, a.cost <= MaxRetainedBytes
  PROVE  LET e == Evict(Without(some, a.of), most - 1, Bytes(other) + a.cost)
         IN  /\ Fitted(some, other, Append(e, a), Evict(other, Len(other), Bytes(e) + a.cost), a)
             /\ Len(Append(e, a)) <= most
<1> DEFINE w == Without(some, a.of)
           e == Evict(w, most - 1, Bytes(other) + a.cost)
           o == Evict(other, Len(other), Bytes(e) + a.cost)
           s == Append(e, a)
<1>1. /\ w \in Seq(Answer) /\ Drawn(w, some)
      /\ Distinct(some) => Distinct(w) /\ \A j \in DOMAIN w : w[j].of # a.of
  BY WithoutIs
<1>2. /\ most - 1 \in Nat /\ a.cost \in Nat /\ Bytes(other) \in Nat /\ MaxRetainedBytes \in Nat
      /\ Bytes(other) + a.cost \in Nat
  <2>1. a.cost \in Nat /\ Bytes(other) \in Nat
    BY BytesAre DEF Answer
  <2> QED
    BY <2>1, Costs
<1> HIDE DEF w
<1>3. /\ e \in Seq(Answer) /\ Len(e) <= most - 1 /\ Drawn(e, w)
      /\ Distinct(w) => Distinct(e)
      /\ e = <<>> \/ Bytes(e) + (Bytes(other) + a.cost) <= MaxRetainedBytes
  BY <1>1, <1>2, EvictIs, Zenon
<1> HIDE DEF e
<1>4. Bytes(e) \in Nat /\ Len(other) \in Nat
  BY <1>3, BytesAre, LenProperties
<1>5. /\ o \in Seq(Answer) /\ Len(o) <= Len(other) /\ Drawn(o, other)
      /\ Distinct(other) => Distinct(o)
      /\ o = <<>> \/ Bytes(o) + (Bytes(e) + a.cost) <= MaxRetainedBytes
  <2>1. Bytes(e) + a.cost \in Nat
    BY <1>2, <1>4
  <2> QED
    BY <1>4, <2>1, EvictIs, Zenon
<1> HIDE DEF o
<1>6. /\ s \in Seq(Answer) /\ Len(s) = Len(e) + 1 /\ DOMAIN s = 1 .. (Len(e) + 1)
      /\ DOMAIN e = 1 .. Len(e) /\ Len(e) \in Nat
      /\ \A i \in 1 .. Len(e) : s[i] = e[i]
      /\ s[Len(e) + 1] = a
  BY <1>3, LenProperties, AppendProperties
<1>7. Bytes(s) = Bytes(e) + a.cost
  BY <1>3, BytesAppended
<1> HIDE DEF s
<1>8. Bytes(s) + Bytes(o) <= MaxRetainedBytes
  <2>1. Bytes(o) \in Nat
    BY <1>5, BytesAre
  <2>2. CASE o # <<>>
    BY <1>2, <1>4, <1>5, <1>7, <2>1, <2>2
  <2>3. CASE o = <<>> /\ e # <<>>
    <3>1. Bytes(o) = 0
      BY <2>3, NoBytes
    <3>2. Bytes(e) + (Bytes(other) + a.cost) <= MaxRetainedBytes
      BY <1>3, <2>3, Zenon
    <3> QED
      BY <1>2, <1>4, <1>7, <3>1, <3>2
  <2>4. CASE o = <<>> /\ e = <<>>
    <3>1. Bytes(o) = 0 /\ Bytes(e) = 0
      BY <2>4, NoBytes
    <3> QED
      BY <1>2, <1>7, <3>1
  <2> QED
    BY <2>2, <2>3, <2>4
<1>9. Drawn(e, some)
  BY <1>1, <1>3 DEF Drawn
<1>10. \A j \in DOMAIN s : s[j] = a \/ (j \in DOMAIN e /\ s[j] = e[j])
  <2>1. \A j \in 1 .. (Len(e) + 1) : j \in 1 .. Len(e) \/ j = Len(e) + 1
    BY <1>6
  <2> QED
    BY <1>6, <2>1, Zenon
<1>11. \A j \in DOMAIN s : s[j] = a \/ \E i \in DOMAIN some : s[j] = some[i]
  BY <1>9, <1>10 DEF Drawn
<1>12. ASSUME Distinct(some)
       PROVE  Distinct(s) /\ \A j \in DOMAIN s : s[j].of = a.of => s[j] = a
  <2>1. Distinct(e) /\ \A j \in DOMAIN w : w[j].of # a.of
    BY <1>1, <1>3, <1>12
  <2>2. \A j \in DOMAIN e : e[j].of # a.of
    BY <1>3, <2>1 DEF Drawn
  <2>3. \A j \in DOMAIN s : s[j].of = a.of => s[j] = a
    BY <1>10, <2>2
  <2>4. \A j, k \in DOMAIN s : s[j].of = s[k].of => j = k
    <3>1. \A j \in DOMAIN s : j \in DOMAIN e \/ j = Len(e) + 1
      BY <1>6
    <3>2. \A j, k \in DOMAIN e : e[j].of = e[k].of => j = k
      BY <2>1 DEF Distinct
    <3>3. \A j \in DOMAIN e : s[j] = e[j]
      BY <1>6
    <3> QED
      BY <1>6, <2>2, <3>1, <3>2, <3>3
  <2> QED
    BY <2>3, <2>4 DEF Distinct
<1>13. Len(s) <= most
  BY <1>2, <1>3, <1>6
<1>14. Fitted(some, other, s, o, a)
  BY <1>5, <1>6, <1>8, <1>11, <1>12 DEF Fitted
<1> QED
  BY <1>13, <1>14, Zenon DEF s, o, e, w

\* An answer as it is published.
LEMMA UpgradeIs ==
  ASSUME TypeOK, NEW a \in Answer, a.cost <= MaxRetainedBytes
  PROVE  /\ Upgrade(a) \in Answer /\ Upgrade(a).cost <= MaxRetainedBytes
         /\ Upgrade(a).of = a.of /\ Upgrade(a).kind = a.kind
         /\ Upgrade(a).by = a.by \/ \E i \in DOMAIN addresses : Upgrade(a).by = addresses[i].by
         /\ a.kind = "detailed" => \A i \in DOMAIN addresses :
              addresses[i].of = a.of /\ addresses[i].found => Upgrade(a).found
<1> DEFINE kept == {i \in DOMAIN addresses : addresses[i].of = a.of /\ addresses[i].found}
           k == CHOOSE i \in kept : TRUE
           u == [a EXCEPT !.found = TRUE, !.by = addresses[k].by, !.cost = Weight["basic"]]
<1>1. Upgrade(a) = IF a.kind = "detailed" /\ ~a.found /\ kept # {} THEN u ELSE a
  BY DEF Upgrade
<1>2. CASE a.kind = "detailed" /\ ~a.found /\ kept # {}
  <2>1. Upgrade(a) = u
    BY <1>1, <1>2, Zenon
  <2>2. k \in DOMAIN addresses
    BY <1>2
  <2>3. addresses[k] \in Answer
    BY <2>2, ElementOfSeq, LenProperties DEF TypeOK
  <2>4. Weight["basic"] \in 0 .. MaxRetainedBytes /\ MaxRetainedBytes \in Nat
    BY Costs DEF Lookup
  <2>5. addresses[k].by \in Gen /\ Weight["basic"] \in Nat /\ Weight["basic"] <= MaxRetainedBytes
    BY <2>3, <2>4 DEF Answer
  <2> HIDE DEF k
  <2>6. /\ u \in Answer /\ u.cost = Weight["basic"] /\ u.of = a.of /\ u.kind = a.kind
        /\ u.by = addresses[k].by /\ u.found = TRUE
    BY <2>5 DEF Answer
  <2> HIDE DEF u
  <2> QED
    BY <2>1, <2>2, <2>5, <2>6, Zenon
<1>3. CASE ~(a.kind = "detailed" /\ ~a.found /\ kept # {})
  <2>1. Upgrade(a) = a
    BY <1>1, <1>3, Zenon
  <2>2. a.kind = "detailed" => \A i \in DOMAIN addresses :
          addresses[i].of = a.of /\ addresses[i].found => a.found
    BY <1>3
  <2> QED
    BY <2>1, <2>2, Zenon
<1> QED
  BY <1>2, <1>3, Zenon

\* An answer for an address makes room in both caches, and so does one for a name.
LEMMA InAddressesFits ==
  ASSUME TypeOK, NEW a \in Answer, a.cost <= MaxRetainedBytes, InAddresses(a)
  PROVE  Fitted(addresses, names, addresses', names', a) /\ Len(addresses') <= MaxAddressCache
<1>1. addresses \in Seq(Answer) /\ names \in Seq(Answer) /\ MaxAddressCache \in Nat \ {0}
  BY Costs DEF TypeOK
<1> QED
  BY <1>1, Fits, Zenon DEF InAddresses

\* The other way round.
LEMMA InNamesFits ==
  ASSUME TypeOK, NEW a \in Answer, a.cost <= MaxRetainedBytes, InNames(a)
  PROVE  Fitted(names, addresses, names', addresses', a) /\ Len(names') <= MaxNameCache
<1>1. addresses \in Seq(Answer) /\ names \in Seq(Answer) /\ MaxNameCache \in Nat \ {0}
  BY Costs DEF TypeOK
<1> QED
  BY <1>1, Fits, Zenon DEF InNames
----------------------------------------------------------------------------
(* What is under way.                                                      *)

\* The numbers under way: 0 is the worker's request, the others are the queue's.
LEMMA UnderwayIs ==
  ASSUME TypeOK
  PROVE  /\ Len(queue) \in Nat /\ DOMAIN queue = 1 .. Len(queue)
         /\ Underway \in SUBSET (0 .. Len(queue))
         /\ \A i \in 1 .. Len(queue) : queue[i] \in Request /\ At(i) = queue[i]
         /\ At(0) = request /\ request \in Request
         /\ \A i \in 0 .. Len(queue) :
              i \in Underway <=> /\ At(i).kind \in Lookup /\ At(i).gen = generation
                                 /\ i = 0 => pc \notin {"done", "wait"}
<1>1. Len(queue) \in Nat /\ DOMAIN queue = 1 .. Len(queue)
  BY LenProperties DEF TypeOK
<1>2. \A i \in 1 .. Len(queue) : queue[i] \in Request
  BY ElementOfSeq DEF TypeOK
<1>3. At(0) = request /\ \A i \in 1 .. Len(queue) : At(i) = queue[i]
  BY <1>1 DEF At
<1> QED
  BY <1>1, <1>2, <1>3 DEF TypeOK, Underway

\* The requests under way have all been so, in this order.
Moved(n) == \A i \in Underway' : i + n \in Underway /\ At(i)' = At(i + n)

\* No address comes into the cache for which a basic lookup is under way.
LEMMA MovedKeepsBasic ==
  ASSUME BasicComesFirst, NEW n \in Nat, Moved(n), Underway' \subseteq Nat,
         \A m \in DOMAIN addresses' :
           \/ \E i \in DOMAIN addresses : addresses'[m].of = addresses[i].of
           \/ \A i \in Underway' : At(i)'.kind = "basic" => At(i)'.of # addresses'[m].of
  PROVE  BasicComesFirst'
<1> SUFFICES ASSUME NEW i \in Underway', At(i)'.kind = "basic"
             PROVE  /\ \A m \in DOMAIN addresses' : addresses'[m].of # At(i)'.of
                    /\ \A j \in Underway' : j < i => At(j)'.kind = "name" \/ At(j)'.of # At(i)'.of
  BY DEF BasicComesFirst
<1>1. i + n \in Underway /\ At(i)' = At(i + n) /\ At(i + n).kind = "basic"
  BY DEF Moved
<1>2. /\ \A m \in DOMAIN addresses : addresses[m].of # At(i + n).of
      /\ \A j \in Underway : j < i + n => At(j).kind = "name" \/ At(j).of # At(i + n).of
  BY <1>1 DEF BasicComesFirst
<1>3. \A m \in DOMAIN addresses' : addresses'[m].of # At(i)'.of
  BY <1>1, <1>2
<1>4. ASSUME NEW j \in Underway', j < i
      PROVE  At(j)'.kind = "name" \/ At(j)'.of # At(i)'.of
  <2>1. j + n \in Underway /\ At(j)' = At(j + n)
    BY DEF Moved
  <2>2. j + n < i + n
    BY <1>4
  <2> QED
    BY <1>1, <1>2, <2>1, <2>2
<1> QED
  BY <1>3, <1>4

\* Nothing becomes pending or is answered.
LEMMA MovedKeepsPending ==
  ASSUME PendingHolds, NEW n \in Nat, Moved(n), Underway' \subseteq Nat, Underway \subseteq Nat,
         pending' = pending, pendingBytes' = pendingBytes, stopping' = stopping,
         ~stopping => \A i \in Underway : \E j \in Underway' : i = j + n
  PROVE  PendingHolds'
<1>1. \A i \in Underway' : Key(At(i))' = Key(At(i + n)) /\ i + n \in Underway
  BY DEF Moved, Key
<1>2. IsFiniteSet(pending') /\ pendingBytes' = CostOf(pending)'
  BY DEF PendingHolds, CostOf
<1>3. ASSUME ~stopping', NEW k \in pending'
      PROVE  \E i \in Underway' : k = Key(At(i))'
  <2>1. PICK i \in Underway : k = Key(At(i))
    BY <1>3 DEF PendingHolds
  <2>2. PICK j \in Underway' : i = j + n
    BY <1>3
  <2> QED
    BY <1>1, <2>1, <2>2
<1>4. ASSUME ~stopping', NEW i \in Underway'
      PROVE  Key(At(i))' \in pending'
  BY <1>1, <1>4 DEF PendingHolds
<1>5. ASSUME ~stopping', NEW i \in Underway', NEW j \in Underway', Key(At(i))' = Key(At(j))'
      PROVE  i = j
  <2>1. i + n = j + n
    BY <1>1, <1>5 DEF PendingHolds
  <2> QED
    BY <2>1
<1> QED
  BY <1>2, <1>3, <1>4, <1>5 DEF PendingHolds

----------------------------------------------------------------------------
(* The interface thread.                                                   *)

\* What the interface thread queues is a request.
LEMMA Requested ==
  ASSUME NEW kind \in Lookup \cup {"bind", "reset"}, NEW of \in Addr \cup Name \cup {"-"},
         NEW s \in Session, NEW gen \in Gen
  PROVE  /\ [kind |-> kind, of |-> of, session |-> s, gen |-> gen] \in Request
         /\ <<[kind |-> kind, of |-> of, session |-> s, gen |-> gen]>> \in Seq(Request)
  BY DEF Request

\* A new session of any kind: nothing of the old one is left but what the
\* worker has taken.
LEMMA Replaces ==
  ASSUME IInv, NEW some \in BOOLEAN, NEW handle \in Gen, Ready,
         ReplaceSession(some, handle), UNCHANGED <<stopping, work, busy, backend>>,
         call' = call \/ (call' = "waiting" /\ ~some)
  PROVE  IInv'
<1> DEFINE g == generation + 1
           s == IF some THEN [gen |-> g, handle |-> handle] ELSE NoSession
           r == [kind |-> IF some THEN "bind" ELSE "reset", of |-> "-", session |-> s, gen |-> g]
<1>1. /\ generation' = g /\ session' = s /\ queue' = <<r>> /\ failedGeneration' = 0
      /\ pending' = {} /\ pendingBytes' = 0 /\ addresses' = <<>> /\ names' = <<>>
      /\ pc' = pc /\ request' = request /\ answer' = answer /\ active' = active
      /\ bound' = bound /\ busy' = busy /\ backend' = backend /\ stopping' = stopping
      /\ call = "ready" /\ ~stopping
  BY DEF ReplaceSession, ClearLookupState, work, Ready
<1>2. TypeOK /\ generation \in Nat /\ generation < MaxGeneration /\ MaxGeneration \in Nat
  BY Costs DEF IInv, TypeOK, Gen, Ready
<1>3. g \in Gen /\ g \in Nat /\ g # 0 /\ generation < g /\ 0 \in Gen
  BY <1>2 DEF Gen
<1>4. s \in Session /\ NoSession \in Session /\ NoSession.gen = 0
  BY <1>3 DEF Session, NoSession
<1>5. r.kind \in {"bind", "reset"} /\ r.gen = g /\ r.session = s /\ s.gen \in {0, g}
  BY <1>4
<1>6. (some <=> s # NoSession) /\ (some => s.gen = g /\ r.kind = "bind") /\ (~some => r.kind = "reset")
  BY <1>3, <1>4
<1>7. r \in Request /\ <<r>> \in Seq(Request)
  BY <1>3, <1>4, Requested
<1>8. Len(<<r>>) = 1 /\ DOMAIN <<r>> = {1} /\ <<r>>[1] = r
  OBVIOUS
<1> HIDE DEF s, r, g
<1>9. TypeOK'
  <2>1. <<>> \in Seq(Answer) /\ Len(<<>>) = 0 /\ Bytes(<<>>) = 0
    BY EmptySeq, NoBytes
  <2>2. Bytes(addresses)' = 0 /\ Bytes(names)' = 0
    BY <1>1, <2>1 DEF Bytes
  <2>3. call' \in {"ready", "waiting", "joining", "gone"}
    BY <1>1
  <2> QED
    BY <1>1, <1>2, <1>3, <1>4, <1>7, <2>1, <2>2, <2>3, Costs DEF TypeOK
<1>11. RequestsAreSound'
  <2>1. Sound(request) /\ request.gen \in Nat
    BY <1>2 DEF IInv, RequestsAreSound, TypeOK, Request, Gen
  <2>2. Sound(request)'
    BY <1>1, <1>2, <1>3, <2>1 DEF Sound
  <2>3. queue'[1] = r /\ DOMAIN queue' = {1}
    BY <1>1, <1>8
  <2>4. Sound(queue[1])'
    BY <1>1, <1>3, <1>5, <1>6, <2>3 DEF Sound
  <2>5. queue'[1].gen = generation'
    BY <1>1, <1>5, <2>3
  <2> QED
    BY <1>1, <2>2, <2>3, <2>4, <2>5 DEF RequestsAreSound
<1>12. SessionsAreOne'
  <2>1. ASSUME NEW q \in Session, OneSession(q)
        PROVE  OneSession(q)'
    <3>1. q.gen \in Nat
      BY DEF Session, Gen
    <3> QED
      BY <1>1, <1>2, <1>3, <2>1, <3>1 DEF OneSession
  <2>2. OneSession(active) /\ OneSession(bound) /\ OneSession(request.session)
    BY DEF IInv, SessionsAreOne
  <2>3. active \in Session /\ bound \in Session /\ request.session \in Session
    BY <1>2 DEF TypeOK, Request
  <2>4. OneSession(active)' /\ OneSession(bound)' /\ OneSession(request.session)'
    BY <1>1, <2>1, <2>2, <2>3 DEF OneSession
  <2>5. OneSession(session)'
    BY <1>1, <1>3, <1>4, <1>5, <1>6 DEF OneSession
  <2>6. queue'[1].session = session' /\ DOMAIN queue' = {1}
    BY <1>1, <1>5, <1>8
  <2>7. \A i \in DOMAIN queue' : OneSession(queue[i].session)'
    BY <2>5, <2>6 DEF OneSession
  <2>8. session'.gen \in {0, generation'}
    BY <1>1, <1>5
  <2> QED
    BY <2>4, <2>5, <2>7, <2>8 DEF SessionsAreOne
<1>13. WorkerHolds' /\ BackendHolds'
  BY <1>1 DEF IInv, WorkerHolds, BackendHolds, Idling
<1>14. CachesAreFresh'
  BY <1>1 DEF CachesAreFresh, Distinct
<1>15. Underway' = {}
  <2>1. \A i \in Underway' : i \in 0 .. Len(<<r>>) /\ At(i)'.kind \in Lookup /\ At(i)'.gen = g
    BY <1>1 DEF Underway
  <2>2. At(0)' = request /\ At(1)' = r
    BY <1>1, <1>8 DEF At
  <2>3. request.gen <= generation /\ request.gen \in Nat
    BY <1>2 DEF IInv, RequestsAreSound, Sound, TypeOK, Request, Gen
  <2>4. \A i \in Underway' : i = 0 \/ i = 1
    BY <1>8, <2>1
  <2> QED
    BY <1>2, <1>3, <1>5, <2>1, <2>2, <2>3, <2>4 DEF Lookup
<1>16. BasicComesFirst'
  BY <1>15 DEF BasicComesFirst
<1>17. PendingHolds'
  <2>1. CostOf(pending)' = 0 /\ IsFiniteSet(pending')
    BY <1>1, NoCost, FS_EmptySet DEF CostOf
  <2> QED
    BY <1>1, <1>15, <2>1 DEF PendingHolds
<1>18. WaitingHolds'
  BY <1>1, <1>6, <1>8 DEF WaitingHolds
<1> QED
  BY <1>9, <1>11, <1>12, <1>13, <1>14, <1>16, <1>17, <1>18 DEF IInv

\* Cancelling what has stopped clears what is left.
LEMMA StoppedIsEmpty ==
  ASSUME IInv, call = "ready", stopping, session' = NoSession, ClearLookupState, queue' = <<>>,
         UNCHANGED <<call, stopping, generation, failedGeneration, work, busy, backend>>
  PROVE  IInv'
<1>1. /\ session' = NoSession /\ queue' = <<>> /\ pending' = {} /\ pendingBytes' = 0
      /\ addresses' = <<>> /\ names' = <<>> /\ generation' = generation
      /\ failedGeneration' = failedGeneration /\ pc' = pc /\ request' = request
      /\ answer' = answer /\ active' = active /\ bound' = bound /\ busy' = busy
      /\ backend' = backend /\ stopping' = stopping /\ stopping /\ call' = "ready"
  BY DEF ClearLookupState, work
<1>2. TypeOK /\ generation \in Nat
  BY DEF IInv, TypeOK, Gen
<1>3. NoSession \in Session /\ NoSession.gen = 0
  BY Costs DEF Session, NoSession, Gen
<1>4. TypeOK'
  <2>1. <<>> \in Seq(Answer) /\ <<>> \in Seq(Request) /\ Len(<<>>) = 0 /\ Bytes(<<>>) = 0
    BY EmptySeq, NoBytes
  <2>2. Bytes(addresses)' = 0 /\ Bytes(names)' = 0
    BY <1>1, <2>1 DEF Bytes
  <2> QED
    BY <1>1, <1>2, <1>3, <2>1, <2>2, Costs DEF TypeOK
<1>5. DOMAIN queue' = {} /\ DOMAIN addresses' = {} /\ DOMAIN names' = {}
  BY <1>1
<1>6. RequestsAreSound'
  BY <1>1, <1>5 DEF IInv, RequestsAreSound, Sound
<1>7. SessionsAreOne'
  <2>1. OneSession(session)'
    BY <1>1, <1>2, <1>3 DEF OneSession
  <2>2. OneSession(active)' /\ OneSession(bound)' /\ OneSession(request.session)'
    BY <1>1 DEF IInv, SessionsAreOne, OneSession
  <2> QED
    BY <1>1, <1>3, <1>5, <2>1, <2>2 DEF SessionsAreOne
<1>8. WorkerHolds' /\ BackendHolds'
  BY <1>1 DEF IInv, WorkerHolds, BackendHolds, Idling
<1>9. CachesAreFresh'
  BY <1>5 DEF CachesAreFresh, Distinct
<1>10. BasicComesFirst'
  <2>1. Underway' \subseteq {0}
    BY <1>1 DEF Underway
  <2> QED
    BY <1>5, <2>1 DEF BasicComesFirst
<1>11. PendingHolds'
  <2>1. CostOf(pending)' = 0 /\ IsFiniteSet(pending')
    BY <1>1, NoCost, FS_EmptySet DEF CostOf
  <2> QED
    BY <1>1, <2>1 DEF PendingHolds
<1>12. WaitingHolds'
  BY <1>1 DEF WaitingHolds
<1> QED
  BY <1>4, <1>6, <1>7, <1>8, <1>9, <1>10, <1>11, <1>12 DEF IInv

\* The destructor drops the queue: what was pending is not under way any more.
LEMMA DestroyKeeps == ASSUME IInv, Destroy PROVE IInv'
<1>1. /\ session' = session /\ queue' = <<>> /\ pending' = pending /\ pendingBytes' = pendingBytes
      /\ addresses' = addresses /\ names' = names /\ generation' = generation
      /\ failedGeneration' = failedGeneration /\ pc' = pc /\ request' = request
      /\ answer' = answer /\ active' = active /\ bound' = bound /\ busy' = busy
      /\ backend' = backend /\ stopping' = TRUE /\ call' = "joining"
  BY DEF Destroy, work
<1>2. TypeOK'
  <2>1. <<>> \in Seq(Request)
    BY EmptySeq
  <2> QED
    BY <1>1, <2>1 DEF IInv, TypeOK, Bytes
<1>3. DOMAIN queue' = {}
  BY <1>1
<1>4. RequestsAreSound'
  BY <1>1, <1>3 DEF IInv, RequestsAreSound, Sound
<1>5. SessionsAreOne'
  BY <1>1, <1>3 DEF IInv, SessionsAreOne, OneSession
<1>6. WorkerHolds' /\ BackendHolds'
  BY <1>1 DEF IInv, WorkerHolds, BackendHolds, Idling
<1>7. CachesAreFresh'
  BY <1>1 DEF IInv, CachesAreFresh, Distinct
<1>8. BasicComesFirst'
  <2>1. \A i \in Underway' : i = 0
    BY <1>1 DEF Underway
  <2>2. \A i \in Underway' : i \in Underway
    <3>1. Len(queue) \in Nat
      BY UnderwayIs DEF IInv
    <3>2. At(0)' = At(0)
      BY <1>1 DEF At
    <3> QED
      BY <1>1, <2>1, <3>1, <3>2 DEF Underway
  <2>3. \A i \in Underway' : At(i)' = At(i)
    BY <1>1, <2>1 DEF At
  <2> QED
    BY <1>1, <2>1, <2>2, <2>3 DEF IInv, BasicComesFirst
<1>9. PendingHolds'
  BY <1>1 DEF IInv, PendingHolds, CostOf
<1>10. WaitingHolds'
  BY <1>1 DEF WaitingHolds
<1> QED
  BY <1>2, <1>4, <1>5, <1>6, <1>7, <1>8, <1>9, <1>10 DEF IInv

\* A lookup is new: nothing of the cache or of what is under way answers it.
LEMMA AskKeeps ==
  ASSUME IInv, NEW kind \in Lookup, NEW of \in Addr \cup Name,
         kind = "name" => of \in Name, kind # "name" => of \in Addr, Ask(kind, of)
  PROVE  IInv'
<1>r. PICK r : r = [kind |-> kind, of |-> of, session |-> session, gen |-> generation]
  OBVIOUS
<1>k. PICK k : k = KeyOf(kind, of)
  OBVIOUS
<1>n. PICK n : n = Len(queue) + 1
  OBVIOUS
<1>1. /\ session' = session /\ generation' = generation
      /\ failedGeneration' = failedGeneration /\ pc' = pc /\ request' = request
      /\ answer' = answer /\ active' = active /\ bound' = bound /\ busy' = busy
      /\ backend' = backend /\ stopping' = stopping /\ call' = "ready"
      /\ addresses' = addresses /\ names' = names /\ ~stopping /\ session # NoSession
      /\ pending' = pending \cup {k} /\ pendingBytes' = pendingBytes + Cost[kind]
      /\ pendingBytes + Cost[kind] <= MaxQueuedBytes /\ queue' = Append(queue, r)
      /\ ~Cached(kind, of) /\ ~Coalesced(kind, of)
  BY <1>r, <1>k DEF Ask, work
<1>2. TypeOK /\ Cost[kind] \in Nat /\ pendingBytes \in Nat /\ MaxQueuedBytes \in Nat
  BY Costs DEF IInv, TypeOK
<1>3. /\ r.kind = kind /\ r.of = of /\ r.session = session /\ r.gen = generation
      /\ r \in Request
  <2>1. generation \in Gen /\ session \in Session
    BY <1>2 DEF TypeOK
  <2> QED
    BY <1>r, <2>1, Requested
<1>4. /\ k \in Keys /\ k = Key(r) /\ k \notin pending
      /\ kind = "basic" => KeyOf("detailed", of) \notin pending
  BY <1>1, <1>3, <1>k DEF Keys, Key, KeyOf, Coalesced
<1>5. /\ queue' \in Seq(Request) /\ Len(queue') = n /\ DOMAIN queue' = 1 .. n /\ queue'[n] = r
      /\ Len(queue) \in Nat /\ DOMAIN queue = 1 .. Len(queue)
      /\ \A i \in 1 .. Len(queue) : queue'[i] = queue[i]
  BY <1>1, <1>2, <1>3, <1>n, AppendProperties, LenProperties DEF TypeOK
<1>6. /\ IsFiniteSet(pending) /\ pendingBytes = CostOf(pending) /\ pending \in SUBSET Keys
      /\ IsFiniteSet(pending') /\ CostOf(pending)' = pendingBytes'
  <2>1. IsFiniteSet(pending) /\ pendingBytes = CostOf(pending) /\ pending \in SUBSET Keys
    BY DEF IInv, PendingHolds, TypeOK, Keys
  <2>2. IsFiniteSet(pending \cup {k}) /\ CostOf(pending \cup {k}) = CostOf(pending) + Cost[k.kind]
    BY <1>4, <2>1, CostAdded
  <2>3. CostOf(pending)' = CostOf(pending \cup {k}) /\ k.kind = kind
    BY <1>1, <1>k DEF CostOf, KeyOf
  <2> QED
    BY <1>1, <2>1, <2>2, <2>3
<1>7. TypeOK'
  <2>1. pendingBytes' \in 0 .. MaxQueuedBytes
    BY <1>1, <1>2
  <2>2. pending' \subseteq [kind : Lookup, of : Addr \cup Name]
    BY <1>1, <1>4, <1>6 DEF Keys
  <2> QED
    BY <1>1, <1>2, <1>5, <2>1, <2>2 DEF TypeOK, Bytes
<1>8. session.gen = generation /\ generation # 0
  BY <1>1 DEF IInv, SessionsAreOne, OneSession
<1>9. \A i \in 1 .. n : i \in 1 .. Len(queue) \/ i = n
  BY <1>5, <1>n
<1>10. RequestsAreSound'
  <2>1. Sound(request)'
    BY <1>1 DEF IInv, RequestsAreSound, Sound
  <2>2. \A i \in 1 .. Len(queue) : Sound(queue[i])' /\ queue'[i].gen = generation'
    BY <1>1, <1>5 DEF IInv, RequestsAreSound, Sound
  <2>3. Sound(queue[n])' /\ queue'[n].gen = generation'
    <3>1. generation <= generation
      BY DEF IInv, TypeOK, Gen
    <3>2. queue'[n].gen = generation /\ queue'[n].session = session /\ queue'[n].kind = kind
          /\ queue'[n].of = of
      BY <1>3, <1>5
    <3> QED
      BY <1>1, <1>8, <3>1, <3>2 DEF Sound, Lookup
  <2>4. \A i \in DOMAIN queue' : Sound(queue[i])' /\ queue'[i].gen = generation'
    BY <1>5, <1>9, <2>2, <2>3
  <2> QED
    BY <1>1, <2>1, <2>4 DEF RequestsAreSound
<1>11. SessionsAreOne'
  <2>1. OneSession(session)' /\ OneSession(active)' /\ OneSession(bound)' /\ OneSession(request.session)'
    BY <1>1 DEF IInv, SessionsAreOne, OneSession
  <2>2. \A i \in 1 .. Len(queue) : OneSession(queue[i].session)'
    BY <1>1, <1>5 DEF IInv, SessionsAreOne, OneSession
  <2>3. queue'[n].session = session'
    BY <1>1, <1>3, <1>5
  <2>4. OneSession(queue[n].session)'
    BY <2>1, <2>3 DEF OneSession
  <2>5. \A i \in DOMAIN queue' : OneSession(queue[i].session)'
    BY <1>5, <1>9, <2>2, <2>4
  <2> QED
    BY <1>1, <2>1, <2>5 DEF IInv, SessionsAreOne
<1>12. WorkerHolds' /\ BackendHolds'
  BY <1>1 DEF IInv, WorkerHolds, BackendHolds, Idling
<1>13. CachesAreFresh'
  BY <1>1 DEF IInv, CachesAreFresh, Distinct
<1>14. /\ \A i \in Underway' : i = n \/ i \in Underway
       /\ \A i \in Underway : i \in Underway' /\ At(i)' = At(i)
       /\ n \in Underway' /\ At(n)' = r
       /\ \A i \in Underway : i < n
       /\ Underway \subseteq Nat
  <2>1. At(n)' = r
    BY <1>5, <1>n DEF At
  <2>2. \A i \in 0 .. Len(queue) : At(i)' = At(i)
    BY <1>1, <1>5 DEF At
  <2>3. \A i \in Underway : i \in 0 .. Len(queue)
    BY DEF Underway
  <2>4. \A i \in 0 .. n : i = n \/ i \in 0 .. Len(queue)
    BY <1>5, <1>n
  <2>5. \A i \in 0 .. Len(queue) : i \in 0 .. n /\ i < n /\ i \in Nat
    BY <1>5, <1>n
  <2>6. n \in 0 .. n /\ n # 0
    BY <1>5, <1>n
  <2>7. \A i : i \in Underway' <=> /\ i \in 0 .. n /\ At(i)'.kind \in Lookup /\ At(i)'.gen = generation
                                   /\ i = 0 => pc \notin {"done", "wait"}
    BY <1>1, <1>5 DEF Underway
  <2>8. \A i : i \in Underway <=> /\ i \in 0 .. Len(queue) /\ At(i).kind \in Lookup
                                  /\ At(i).gen = generation
                                  /\ i = 0 => pc \notin {"done", "wait"}
    BY DEF Underway
  <2>9. n \in Underway'
    BY <1>3, <2>1, <2>6, <2>7
  <2>10. \A i \in Underway : i \in Underway' /\ At(i)' = At(i)
    BY <2>2, <2>5, <2>7, <2>8
  <2>11. \A i \in Underway' : i = n \/ i \in Underway
    BY <2>2, <2>4, <2>7, <2>8
  <2> QED
    BY <2>1, <2>3, <2>5, <2>9, <2>10, <2>11
<1>15. BasicComesFirst'
  <2> SUFFICES ASSUME NEW i \in Underway', At(i)'.kind = "basic"
               PROVE  /\ \A m \in DOMAIN addresses' : addresses'[m].of # At(i)'.of
                      /\ \A j \in Underway' : j < i => At(j)'.kind = "name" \/ At(j)'.of # At(i)'.of
    BY DEF BasicComesFirst
  <2>1. CASE i \in Underway
    <3>1. \A j \in Underway' : j < i => j \in Underway
      <4>1. ~(n < i)
        <5>1. i < n /\ i \in Nat
          BY <1>14, <2>1
        <5>2. n \in Nat
          BY <1>5, <1>n
        <5> QED
          BY <5>1, <5>2
      <4> QED
        BY <1>14, <4>1
    <3> QED
      BY <1>1, <1>14, <2>1, <3>1 DEF IInv, BasicComesFirst
  <2>2. CASE i = n
    <3>1. kind = "basic" /\ At(i)'.of = of
      BY <1>3, <1>14, <2>2
    <3>2. \A m \in DOMAIN addresses' : addresses'[m].of # At(i)'.of
      BY <1>1, <3>1 DEF Cached
    <3>3. ASSUME NEW j \in Underway', j < i
          PROVE  At(j)'.kind = "name" \/ At(j)'.of # At(i)'.of
      <4>1. ~(n < n)
        BY <1>5, <1>n
      <4>2. j \in Underway /\ At(j)' = At(j)
        BY <1>14, <2>2, <3>3, <4>1
      <4>3. Key(At(j)) \in pending /\ At(j).kind \in Lookup
        BY <1>1, <4>2 DEF IInv, PendingHolds, Underway
      <4>4. Key(At(j)) # KeyOf("basic", of) /\ Key(At(j)) # KeyOf("detailed", of)
        BY <1>1, <3>1, <4>3 DEF Coalesced
      <4>5. ~(At(j).kind = "basic" /\ At(j).of = of) /\ ~(At(j).kind = "detailed" /\ At(j).of = of)
        BY <4>4 DEF Key, KeyOf
      <4> QED
        BY <3>1, <4>2, <4>3, <4>5 DEF Lookup
    <3> QED
      BY <3>2, <3>3
  <2> QED
    BY <1>14, <2>1, <2>2
<1>16. PendingHolds'
  <2>1. \A i \in Underway : Key(At(i))' = Key(At(i)) /\ Key(At(i)) \in pending
    BY <1>1, <1>14 DEF Key, IInv, PendingHolds
  <2>2. Key(At(n))' = k
    BY <1>4, <1>14 DEF Key
  <2>3. \A q \in pending' : \E i \in Underway' : q = Key(At(i))'
    <3>1. \A q \in pending : \E i \in Underway : q = Key(At(i))
      BY <1>1 DEF IInv, PendingHolds
    <3> QED
      BY <1>1, <1>14, <2>1, <2>2, <3>1
  <2>4. \A i \in Underway' : Key(At(i))' \in pending'
    BY <1>1, <1>14, <2>1, <2>2
  <2>5. \A i, j \in Underway : Key(At(i)) = Key(At(j)) => i = j
    BY <1>1 DEF IInv, PendingHolds
  <2>6. ASSUME NEW i \in Underway', NEW j \in Underway', Key(At(i))' = Key(At(j))'
        PROVE  i = j
    <3>1. i = n \/ (i \in Underway /\ Key(At(i))' = Key(At(i)) /\ Key(At(i))' # k)
      BY <1>4, <1>14, <2>1
    <3>2. j = n \/ (j \in Underway /\ Key(At(j))' = Key(At(j)) /\ Key(At(j))' # k)
      BY <1>4, <1>14, <2>1
    <3> QED
      BY <2>2, <2>5, <2>6, <3>1, <3>2
  <2> QED
    BY <1>6, <2>3, <2>4, <2>6 DEF PendingHolds
<1>17. WaitingHolds'
  BY <1>1 DEF WaitingHolds
<1> QED
  BY <1>7, <1>10, <1>11, <1>12, <1>13, <1>15, <1>16, <1>17 DEF IInv

\* The caller goes on, and nothing else changes.
LEMMA CallerGoesOn ==
  ASSUME IInv, call' \in {"ready", "gone"} \/ call' = call,
         UNCHANGED <<stopping, generation, failedGeneration, session, store, work, busy, backend>>
  PROVE  IInv'
<1>1. /\ session' = session /\ queue' = queue /\ pending' = pending /\ pendingBytes' = pendingBytes
      /\ addresses' = addresses /\ names' = names /\ generation' = generation
      /\ failedGeneration' = failedGeneration /\ pc' = pc /\ request' = request
      /\ answer' = answer /\ active' = active /\ bound' = bound /\ busy' = busy
      /\ backend' = backend /\ stopping' = stopping
  BY DEF work, store
<1>2. TypeOK'
  BY <1>1 DEF IInv, TypeOK, Bytes
<1>3. RequestsAreSound' /\ SessionsAreOne'
  BY <1>1 DEF IInv, RequestsAreSound, Sound, SessionsAreOne, OneSession
<1>4. WorkerHolds' /\ BackendHolds' /\ CachesAreFresh'
  BY <1>1 DEF IInv, WorkerHolds, BackendHolds, Idling, CachesAreFresh, Distinct
<1>5. Underway' = Underway /\ \A i : At(i)' = At(i)
  BY <1>1 DEF Underway, At
<1>6. BasicComesFirst' /\ PendingHolds'
  BY <1>1, <1>5 DEF IInv, BasicComesFirst, PendingHolds, CostOf, Key
<1>7. WaitingHolds'
  BY <1>1 DEF IInv, WaitingHolds
<1> QED
  BY <1>2, <1>3, <1>4, <1>6, <1>7 DEF IInv
----------------------------------------------------------------------------
(* The worker.                                                             *)

\* What the types say of what the worker leaves alone.
LEMMA TypesOfWork ==
  ASSUME TypeOK, call' = call, stopping' \in BOOLEAN, generation' = generation,
         failedGeneration' \in Gen, session' = session, queue' \in Seq(Request),
         request' \in Request, pending' = pending, pendingBytes' = pendingBytes,
         addresses' = addresses, names' = names, busy' \in BOOLEAN, backend' = backend,
         answer' \in Answer, active' \in Session, bound' \in Session
  PROVE  TypeOK'
  BY DEF TypeOK, Bytes

\* No session and no request are of generation 0.
LEMMA NothingIsTyped ==
  /\ NoSession \in Session /\ NoSession.gen = 0 /\ NoRequest \in Request /\ NoAnswer \in Answer
  /\ NoRequest.gen = 0 /\ NoRequest.session = NoSession /\ NoRequest.kind = "reset"
<1>1. 0 \in Gen
  BY Costs DEF Gen
<1> QED
  BY <1>1 DEF NoSession, Session, NoRequest, Request, NoAnswer, Answer, Lookup

\* The oldest request moves from the queue to the worker.
LEMMA TakeKeeps == ASSUME IInv, Take PROVE IInv'
<1>1. /\ session' = session /\ generation' = generation
      /\ failedGeneration' = failedGeneration /\ pending' = pending /\ pendingBytes' = pendingBytes
      /\ addresses' = addresses /\ names' = names /\ answer' = answer /\ active' = active
      /\ bound' = bound /\ backend' = backend /\ stopping' = stopping /\ call' = call
      /\ pc = "wait" /\ queue # <<>> /\ request' = Head(queue) /\ queue' = Tail(queue)
      /\ busy' = TRUE /\ pc' \in {"fail", "reset", "check"}
      /\ ~backend => pc' = "fail"
      /\ backend => (pc' = "reset" <=> request'.kind = "reset")
      /\ pc' = "reset" => request'.kind = "reset"
      /\ pc' = "check" => request'.kind # "reset"
  BY DEF Take, CallerKept, IInv, TypeOK
<1>2. TypeOK
  BY DEF IInv
<1>3. PICK n : n = Len(queue) - 1
  OBVIOUS
<1>4. /\ n \in Nat /\ Len(queue) = n + 1 /\ DOMAIN queue = 1 .. (n + 1)
      /\ queue' \in Seq(Request) /\ request' \in Request
      /\ Len(queue') = n /\ DOMAIN queue' = 1 .. n
      /\ request' = queue[1] /\ \A i \in 1 .. n : queue'[i] = queue[i + 1]
  <2>1. queue \in Seq(Request) /\ Len(queue) \in Nat /\ Len(queue) # 0
        /\ DOMAIN queue = 1 .. Len(queue)
    BY <1>1, <1>2, LenProperties, EmptySeq DEF TypeOK
  <2>2. /\ Head(queue) \in Request /\ Tail(queue) \in Seq(Request)
        /\ Len(Tail(queue)) = Len(queue) - 1
        /\ \A i \in 1 .. Len(Tail(queue)) : Tail(queue)[i] = queue[i + 1]
    BY <1>1, <2>1, HeadTailProperties
  <2>3. Head(queue) = queue[1]
    BY <2>1 DEF Head
  <2>4. DOMAIN Tail(queue) = 1 .. Len(Tail(queue))
    BY <2>2, LenProperties
  <2> QED
    BY <1>1, <1>3, <2>1, <2>2, <2>3, <2>4
<1>5. TypeOK'
  BY <1>1, <1>2, <1>4, TypesOfWork DEF TypeOK
<1>6. 1 \in 1 .. (n + 1) /\ \A i \in 1 .. n : i + 1 \in 1 .. (n + 1)
  BY <1>4
<1>7. ~stopping
  <2>1. stopping => queue = <<>>
    BY DEF IInv, RequestsAreSound
  <2> QED
    BY <1>1, <2>1
<1>8. \A i \in 1 .. (n + 1) : Sound(queue[i]) /\ queue[i].gen = generation /\ OneSession(queue[i].session)
  BY <1>4 DEF IInv, RequestsAreSound, SessionsAreOne
<1>9. RequestsAreSound'
  <2>1. Sound(request)'
    BY <1>1, <1>4, <1>6, <1>8 DEF Sound
  <2>2. ASSUME NEW i \in 1 .. n
        PROVE  Sound(queue[i])' /\ queue'[i].gen = generation'
    <3>1. Sound(queue[i + 1]) /\ queue[i + 1].gen = generation /\ queue'[i] = queue[i + 1]
      BY <1>4, <1>6, <1>8
    <3> QED
      BY <1>1, <3>1 DEF Sound
  <2> QED
    BY <1>1, <1>4, <1>7, <2>1, <2>2 DEF RequestsAreSound
<1>10. SessionsAreOne'
  <2>1. OneSession(session)' /\ OneSession(active)' /\ OneSession(bound)'
    BY <1>1 DEF IInv, SessionsAreOne, OneSession
  <2>2. OneSession(request.session)'
    BY <1>1, <1>4, <1>6, <1>8 DEF OneSession
  <2>3. ASSUME NEW i \in 1 .. n
        PROVE  OneSession(queue[i].session)'
    <3>1. OneSession(queue[i + 1].session) /\ queue'[i] = queue[i + 1]
      BY <1>4, <1>6, <1>8
    <3> QED
      BY <1>1, <3>1 DEF OneSession
  <2> QED
    BY <1>1, <1>4, <2>1, <2>2, <2>3 DEF IInv, SessionsAreOne
<1>11. WorkerHolds' /\ BackendHolds'
  BY <1>1 DEF IInv, WorkerHolds, BackendHolds, Idling
<1>12. CachesAreFresh'
  BY <1>1 DEF IInv, CachesAreFresh, Distinct
<1>13. /\ Moved(1) /\ Underway' \subseteq Nat /\ Underway \subseteq Nat
       /\ \A i \in Underway : \E j \in Underway' : i = j + 1
  <2>1. /\ \A i \in 1 .. n : At(i)' = queue[i + 1] /\ At(i + 1) = queue[i + 1]
        /\ At(0)' = queue[1] /\ At(1) = queue[1]
    BY <1>4 DEF At
  <2>2. \A i \in 0 .. n : At(i)' = At(i + 1) /\ i + 1 \in 1 .. (n + 1)
    BY <1>4, <2>1
  <2>3. \A i : i \in Underway' <=> i \in 0 .. n /\ At(i)'.kind \in Lookup /\ At(i)'.gen = generation
    BY <1>1, <1>4 DEF Underway
  <2>4. \A i : i \in Underway <=> /\ i \in 0 .. (n + 1) /\ At(i).kind \in Lookup
                                  /\ At(i).gen = generation /\ i # 0
    BY <1>1, <1>4 DEF Underway
  <2>5. \A i \in 0 .. n : i \in Nat /\ i + 1 \in 0 .. (n + 1) /\ i + 1 # 0
    BY <1>4
  <2>6. \A i \in 0 .. (n + 1) : i \in Nat /\ (i # 0 => i - 1 \in 0 .. n /\ i = (i - 1) + 1)
    BY <1>4
  <2>7. Moved(1)
    BY <2>2, <2>3, <2>4, <2>5 DEF Moved
  <2>8. ASSUME NEW i \in Underway
        PROVE  \E j \in Underway' : i = j + 1
    <3>1. i - 1 \in 0 .. n /\ i = (i - 1) + 1
      BY <2>4, <2>6
    <3>2. At(i - 1)' = At(i)
      BY <2>2, <3>1
    <3>3. i - 1 \in Underway'
      BY <2>3, <2>4, <3>1, <3>2
    <3> QED
      BY <3>1, <3>3
  <2> QED
    BY <2>3, <2>4, <2>5, <2>6, <2>7, <2>8
<1>14. BasicComesFirst'
  BY <1>1, <1>13, MovedKeepsBasic DEF IInv
<1>15. PendingHolds'
  BY <1>1, <1>13, MovedKeepsPending DEF IInv
<1>16. WaitingHolds'
  <2> SUFFICES ASSUME call' = "waiting"
               PROVE  WaitingHolds'
    BY DEF WaitingHolds
  <2>1. session = NoSession /\ pending = {} /\ Len(queue) = 1 /\ queue[1].kind = "reset"
    BY <1>1 DEF IInv, WaitingHolds
  <2>2. queue' = <<>>
    BY <1>4, <2>1, EmptySeq
  <2>3. request'.session = NoSession /\ request'.kind = "reset"
    BY <1>4, <1>6, <1>8, <2>1 DEF Sound
  <2>4. CASE backend
    BY <1>1, <2>1, <2>2, <2>3, <2>4 DEF WaitingHolds
  <2>5. CASE ~backend
    <3>1. bound = NoSession /\ active = NoSession
      BY <2>5 DEF IInv, BackendHolds
    <3> QED
      BY <1>1, <2>1, <2>2, <2>3, <2>5, <3>1 DEF WaitingHolds
  <2> QED
    BY <1>2, <2>4, <2>5 DEF TypeOK
<1> QED
  BY <1>5, <1>9, <1>10, <1>11, <1>12, <1>14, <1>15, <1>16 DEF IInv

\* A step that only the worker and the backend see: what is under way stays so.
Unseen ==
  /\ CallerKept /\ UNCHANGED <<failedGeneration, store, backend>>
  /\ Underway' = Underway /\ \A i \in Underway : At(i)' = At(i)
  /\ answer' \in Answer /\ active' \in {active, NoSession, request.session}
  /\ bound' \in {bound, NoSession, request.session}

\* Such a step has to keep only what relates the worker to the backend and the caller.
LEMMA UnseenKeeps ==
  ASSUME IInv, Unseen, busy' \in BOOLEAN, request' \in {request, NoRequest},
         WorkerHolds', BackendHolds', WaitingHolds'
  PROVE  IInv'
<1>1. /\ session' = session /\ queue' = queue /\ pending' = pending /\ pendingBytes' = pendingBytes
      /\ addresses' = addresses /\ names' = names /\ generation' = generation
      /\ failedGeneration' = failedGeneration
      /\ backend' = backend /\ stopping' = stopping /\ call' = call
      /\ Underway' = Underway /\ \A i \in Underway : At(i)' = At(i)
  BY DEF Unseen, CallerKept, store
<1>2. TypeOK /\ generation \in Nat /\ request.session \in Session
  BY DEF IInv, TypeOK, Gen, Request
<1>3. TypeOK'
  <2>1. request' \in Request /\ active' \in Session /\ bound' \in Session /\ answer' \in Answer
    BY <1>2, NothingIsTyped DEF Unseen, TypeOK
  <2> QED
    BY <1>1, <1>2, <2>1, TypesOfWork DEF TypeOK
<1>4. RequestsAreSound'
  <2>1. Sound(request)'
    <3>1. CASE request' = request
      BY <1>1, <3>1 DEF IInv, RequestsAreSound, Sound
    <3>2. CASE request' = NoRequest
      BY <1>1, <1>2, <3>2, NothingIsTyped DEF Sound
    <3> QED
      BY <3>1, <3>2
  <2> QED
    BY <1>1, <2>1 DEF IInv, RequestsAreSound, Sound
<1>5. SessionsAreOne'
  <2>1. OneSession(session) /\ OneSession(active) /\ OneSession(bound) /\ OneSession(request.session)
    BY DEF IInv, SessionsAreOne
  <2>2. OneSession(NoSession)
    BY <1>2, NothingIsTyped DEF OneSession
  <2>3. request'.session \in {request.session, NoSession}
    BY NothingIsTyped
  <2>4. OneSession(session') /\ OneSession(active') /\ OneSession(bound') /\ OneSession(request'.session)
    BY <1>1, <2>1, <2>2, <2>3 DEF Unseen
  <2>5. OneSession(session)' /\ OneSession(active)' /\ OneSession(bound)' /\ OneSession(request.session)'
    BY <1>1, <2>4 DEF OneSession
  <2> QED
    BY <1>1, <2>5 DEF IInv, SessionsAreOne, OneSession
<1>6. CachesAreFresh'
  BY <1>1 DEF IInv, CachesAreFresh, Distinct
<1>7. BasicComesFirst' /\ PendingHolds'
  BY <1>1 DEF IInv, BasicComesFirst, PendingHolds, CostOf, Key
<1> QED
  BY <1>3, <1>4, <1>5, <1>6, <1>7 DEF IInv

\* The request in hand is under way until it is done.
LEMMA SameUnderway ==
  ASSUME UNCHANGED <<queue, request, generation>>,
         \/ pc \notin {"done", "wait"} /\ pc' \notin {"done", "wait"}
         \/ request.kind \notin Lookup \/ request.gen # generation
  PROVE  Underway' = Underway /\ \A i \in Underway : At(i)' = At(i)
<1>1. \A i : At(i)' = At(i)
  BY DEF At
<1>2. At(0) = request
  BY DEF At
<1>3. \A i : i \in Underway <=> /\ i \in 0 .. Len(queue) /\ At(i).kind \in Lookup
                                /\ At(i).gen = generation
                                /\ i = 0 => pc \notin {"done", "wait"}
  BY DEF Underway
<1>4. \A i : i \in Underway' <=> /\ i \in 0 .. Len(queue) /\ At(i).kind \in Lookup
                                 /\ At(i).gen = generation
                                 /\ i = 0 => pc' \notin {"done", "wait"}
  BY <1>1 DEF Underway
<1>5. \A i : i \in Underway' <=> i \in Underway
  BY <1>2, <1>3, <1>4
<1> QED
  BY <1>1, <1>5

\* What holds at a step of the worker between taking a request and being done.
LEMMA AtWork ==
  ASSUME IInv, pc \in {"reset", "check", "unbind", "bind", "modules", "resolve", "publish"}
  PROVE  /\ busy = TRUE /\ backend = TRUE /\ answer \in Answer
         /\ call = "waiting" => \/ Len(queue) = 1 /\ queue[1].kind = "reset"
                                \/ queue = <<>> /\ pc = "reset"
         /\ call = "waiting" => session = NoSession /\ pending = {}
<1>1. busy = TRUE /\ backend = TRUE /\ answer \in Answer
  BY DEF IInv, WorkerHolds, Idling, TypeOK
<1> QED
  BY <1>1 DEF IInv, WaitingHolds

\* A step lemma for each action of the worker.
LEMMA ResetBackendKeeps == ASSUME IInv, ResetBackend PROVE IInv'
<1>1. /\ CallerKept /\ UNCHANGED <<failedGeneration, store, backend, busy, request, answer>>
      /\ pc = "reset" /\ pc' = "done" /\ bound' = NoSession /\ active' = NoSession
  BY DEF ResetBackend, Alone, Step
<1>2. UNCHANGED <<call, stopping, generation, session, queue, pending>>
  BY <1>1 DEF CallerKept, store
<1>3. request.kind = "reset" /\ request.session = NoSession /\ busy = TRUE /\ backend = TRUE /\ answer \in Answer
  BY <1>1, AtWork DEF IInv, WorkerHolds, RequestsAreSound, Sound
<1>4. Unseen
  <2>1. Underway' = Underway /\ \A i \in Underway : At(i)' = At(i)
    BY <1>1, <1>2, <1>3, SameUnderway DEF Lookup
  <2> QED
    BY <1>1, <1>3, <2>1 DEF Unseen
<1>5. WorkerHolds'
  BY <1>1, <1>3 DEF WorkerHolds, Idling
<1>6. BackendHolds'
  BY <1>1 DEF BackendHolds
<1>7. WaitingHolds'
  BY <1>1, <1>2, <1>3, AtWork DEF WaitingHolds
<1> QED
  BY <1>1, <1>3, <1>4, <1>5, <1>6, <1>7, UnseenKeeps

\* The session of a request that is current is the one of now.
LEMMA CurrentIsNow ==
  ASSUME IInv, request.kind # "reset", Current(request)
  PROVE  /\ request.session = session /\ request.session # NoSession
         /\ active.gen = request.session.gen => active = request.session /\ bound = request.session
<1>1. request.session.gen = generation /\ generation # 0 /\ ~stopping
  BY DEF IInv, RequestsAreSound, Sound, Current
<1>2. request.session = session
  BY <1>1 DEF IInv, SessionsAreOne, OneSession
<1>3. request.session # NoSession
  BY <1>1 DEF NoSession
<1>4. active.gen = request.session.gen => active = session
  BY <1>1 DEF IInv, SessionsAreOne, OneSession
<1> QED
  BY <1>2, <1>3, <1>4 DEF IInv, BackendHolds

\* After the session is bound: a request to bind is done, a lookup goes on.
LEMMA ServeIs ==
  ASSUME IInv, request.kind # "reset"
  PROVE  \/ Serve = "done" /\ request.kind = "bind"
         \/ Serve = "resolve" /\ request.kind \in Lookup
  BY DEF Serve, IInv, TypeOK, Request

\* The backend is used unbound and bound again only if it is bound to another session.
LEMMA CheckKeeps == ASSUME IInv, Check PROVE IInv'
<1>1. /\ CallerKept /\ UNCHANGED <<failedGeneration, store, backend, busy, request, answer, active, bound>>
      /\ pc = "check"
      /\ \/ pc' \in {"fail", "cancel"}
         \/ Current(request) /\ active.gen = request.session.gen /\ pc' = Serve
         \/ Current(request) /\ active.gen # request.session.gen /\ pc' = "unbind"
  BY DEF Check, Alone, Step
<1>2. UNCHANGED <<call, stopping, generation, session, queue, pending>>
  BY <1>1 DEF CallerKept, store
<1>3. request.kind # "reset" /\ busy = TRUE /\ backend = TRUE /\ answer \in Answer
  BY <1>1, AtWork DEF IInv, WorkerHolds
<1>4. \/ pc' \in {"fail", "cancel", "unbind"}
      \/ pc' = "done" /\ request.kind = "bind"
      \/ pc' = "resolve" /\ request.kind \in Lookup /\ bound = request.session
  BY <1>1, <1>3, ServeIs, CurrentIsNow
<1>5. Unseen
  <2>1. Underway' = Underway /\ \A i \in Underway : At(i)' = At(i)
    BY <1>1, <1>2, <1>4, SameUnderway DEF Lookup
  <2> QED
    BY <1>1, <1>3, <2>1 DEF Unseen
<1>6. WorkerHolds'
  BY <1>1, <1>3, <1>4 DEF WorkerHolds, Idling
<1>7. BackendHolds'
  BY <1>1, <1>3, <1>4 DEF IInv, BackendHolds
<1>8. WaitingHolds'
  BY <1>1, <1>2, AtWork DEF WaitingHolds
<1> QED
  BY <1>1, <1>3, <1>5, <1>6, <1>7, <1>8, UnseenKeeps

\* Unbinding leaves no session active.
LEMMA UnbindKeeps == ASSUME IInv, Unbind PROVE IInv'
<1>1. /\ CallerKept /\ UNCHANGED <<failedGeneration, store, backend, busy, request, answer>>
      /\ pc = "unbind" /\ pc' \in {"bind", "cancel", "fail"}
      /\ bound' = NoSession /\ active' = NoSession
  BY DEF Unbind, Backend, Alone
<1>2. UNCHANGED <<call, stopping, generation, session, queue, pending>>
  BY <1>1 DEF CallerKept, store
<1>3. request.kind # "reset" /\ busy = TRUE /\ backend = TRUE /\ answer \in Answer
  BY <1>1, AtWork DEF IInv, WorkerHolds
<1>4. Unseen
  <2>1. Underway' = Underway /\ \A i \in Underway : At(i)' = At(i)
    BY <1>1, <1>2, SameUnderway
  <2> QED
    BY <1>1, <1>3, <2>1 DEF Unseen
<1>5. WorkerHolds'
  BY <1>1, <1>3 DEF WorkerHolds, Idling
<1>6. BackendHolds'
  BY <1>1 DEF BackendHolds
<1>7. WaitingHolds'
  BY <1>1, <1>2, AtWork DEF WaitingHolds
<1> QED
  BY <1>1, <1>3, <1>4, <1>5, <1>6, <1>7, UnseenKeeps

\* A session becomes active only when it is bound and still current.
LEMMA BindBackendKeeps == ASSUME IInv, BindBackend PROVE IInv'
<1>1. /\ CallerKept /\ UNCHANGED <<failedGeneration, store, backend, busy, request, answer>>
      /\ pc = "bind" /\ pc' \in {"modules", Serve, "cancel", "fail"}
      /\ bound' = IF pc' = "fail" THEN NoSession ELSE request.session
      /\ \/ UNCHANGED active
         \/ pc' = Serve /\ active' = request.session
  BY DEF BindBackend, Backend, Alone, Activate
<1>2. UNCHANGED <<call, stopping, generation, session, queue, pending>>
  BY <1>1 DEF CallerKept, store
<1>3. request.kind # "reset" /\ busy = TRUE /\ backend = TRUE /\ answer \in Answer
  BY <1>1, AtWork DEF IInv, WorkerHolds
<1>4. /\ active = NoSession
      /\ \/ Serve = "done" /\ request.kind = "bind"
         \/ Serve = "resolve" /\ request.kind \in Lookup
  BY <1>1, <1>3, ServeIs DEF IInv, BackendHolds
<1>5. Unseen
  <2>1. Underway' = Underway /\ \A i \in Underway : At(i)' = At(i)
    BY <1>1, <1>2, <1>4, SameUnderway DEF Lookup
  <2> QED
    BY <1>1, <1>3, <2>1 DEF Unseen
<1>6. WorkerHolds'
  BY <1>1, <1>3, <1>4 DEF WorkerHolds, Idling
<1>7. BackendHolds'
  BY <1>1, <1>3, <1>4 DEF BackendHolds
<1>8. WaitingHolds'
  BY <1>1, <1>2, AtWork DEF WaitingHolds
<1> QED
  BY <1>1, <1>3, <1>5, <1>6, <1>7, <1>8, UnseenKeeps

\* A live session becomes active only after its modules.
LEMMA EnsureModulesKeeps == ASSUME IInv, EnsureModules PROVE IInv'
<1>1. /\ CallerKept /\ UNCHANGED <<failedGeneration, store, backend, busy, request, answer, bound>>
      /\ pc = "modules" /\ pc' \in {Serve, "cancel", "fail"}
      /\ active' = IF pc' = Serve THEN request.session ELSE active
  BY DEF EnsureModules, Backend, Alone, Activate
<1>2. UNCHANGED <<call, stopping, generation, session, queue, pending>>
  BY <1>1 DEF CallerKept, store
<1>3. request.kind # "reset" /\ busy = TRUE /\ backend = TRUE /\ answer \in Answer
  BY <1>1, AtWork DEF IInv, WorkerHolds
<1>4. /\ active = NoSession /\ bound = request.session
      /\ \/ Serve = "done" /\ request.kind = "bind"
         \/ Serve = "resolve" /\ request.kind \in Lookup
  BY <1>1, <1>3, ServeIs DEF IInv, BackendHolds
<1>5. Unseen
  <2>1. Underway' = Underway /\ \A i \in Underway : At(i)' = At(i)
    BY <1>1, <1>2, <1>4, SameUnderway DEF Lookup
  <2> QED
    BY <1>1, <1>3, <2>1 DEF Unseen
<1>6. WorkerHolds'
  BY <1>1, <1>3, <1>4 DEF WorkerHolds, Idling
<1>7. BackendHolds'
  BY <1>1, <1>3, <1>4 DEF BackendHolds
<1>8. WaitingHolds'
  BY <1>1, <1>2, AtWork DEF WaitingHolds
<1> QED
  BY <1>1, <1>3, <1>5, <1>6, <1>7, <1>8, UnseenKeeps

\* The backend answers for the session it is bound to, which is the request's.
LEMMA ResolveKeeps == ASSUME IInv, Resolve PROVE IInv'
<1>1. /\ CallerKept /\ UNCHANGED <<failedGeneration, store, backend, busy, request, active, bound>>
      /\ pc = "resolve"
      /\ \/ /\ \E found \in BOOLEAN :
                 answer' = [of |-> request.of, kind |-> request.kind, found |-> found,
                            by |-> bound.gen,
                            cost |-> Weight[IF found THEN request.kind ELSE "basic"]]
            /\ \/ pc' = "done" /\ request.gen # generation
               \/ pc' = "publish"
         \/ pc' = "fail" /\ answer' = answer
  BY DEF Resolve, Alone
<1>2. UNCHANGED <<call, stopping, generation, session, queue, pending>>
  BY <1>1 DEF CallerKept, store
<1>3. /\ request.kind \in Lookup /\ busy = TRUE /\ backend = TRUE /\ answer \in Answer
      /\ bound = request.session /\ request.session.gen = request.gen
  BY <1>1, AtWork DEF IInv, WorkerHolds, BackendHolds, RequestsAreSound, Sound, Lookup
<1>4. /\ answer' \in Answer
      /\ pc' # "fail" => /\ answer'.of = request.of /\ answer'.kind = request.kind
                         /\ answer'.by = request.gen /\ answer'.cost <= MaxRetainedBytes
  <2>1. CASE pc' = "fail" /\ answer' = answer
    BY <1>3, <2>1
  <2>2. ASSUME NEW found \in BOOLEAN, pc' # "fail",
               answer' = [of |-> request.of, kind |-> request.kind, found |-> found, by |-> bound.gen,
                          cost |-> Weight[IF found THEN request.kind ELSE "basic"]]
        PROVE  /\ answer' \in Answer
               /\ answer'.of = request.of /\ answer'.kind = request.kind
               /\ answer'.by = request.gen /\ answer'.cost <= MaxRetainedBytes
    <3>1. PICK k \in Lookup : k = IF found THEN request.kind ELSE "basic"
      BY <1>3 DEF Lookup
    <3>2. Weight[k] \in Nat /\ Weight[k] <= MaxRetainedBytes
      BY Costs
    <3>3. request.of \in Addr \cup Name \cup {"-"} /\ request.gen \in Gen
      BY DEF IInv, TypeOK, Request
    <3>4. answer' = [of |-> request.of, kind |-> request.kind, found |-> found, by |-> request.gen,
                     cost |-> Weight[k]]
      BY <1>3, <2>2, <3>1
    <3> QED
      BY <1>3, <3>2, <3>3, <3>4 DEF Answer
  <2> QED
    BY <1>1, <2>1, <2>2
<1>5. Unseen
  <2>1. Underway' = Underway /\ \A i \in Underway : At(i)' = At(i)
    BY <1>1, <1>2, SameUnderway
  <2> QED
    BY <1>1, <1>4, <2>1 DEF Unseen
<1>6. WorkerHolds'
  BY <1>1, <1>3 DEF WorkerHolds, Idling
<1>7. BackendHolds'
  BY <1>1, <1>3, <1>4 DEF IInv, BackendHolds
<1>8. WaitingHolds'
  BY <1>1, <1>2, AtWork DEF WaitingHolds
<1> QED
  BY <1>1, <1>3, <1>5, <1>6, <1>7, <1>8, UnseenKeeps DEF IInv, TypeOK

\* A request that is done is not under way, so the worker may forget it.
LEMMA DoneKeeps == ASSUME IInv, Done PROVE IInv'
<1>1. /\ CallerKept /\ UNCHANGED <<failedGeneration, store, backend, active, bound>>
      /\ pc = "done" /\ pc' = "wait" /\ busy' = FALSE /\ request' = NoRequest /\ answer' = NoAnswer
  BY DEF Done, Step
<1>2. UNCHANGED <<call, stopping, generation, session, queue, pending>>
  BY <1>1 DEF CallerKept, store
<1>3. Unseen
  <2>1. \A i : i \in Underway <=> /\ i \in 0 .. Len(queue) /\ At(i).kind \in Lookup
                                  /\ At(i).gen = generation /\ i # 0
    BY <1>1 DEF Underway
  <2>2. \A i : i \in Underway' <=> /\ i \in 0 .. Len(queue) /\ At(i)'.kind \in Lookup
                                   /\ At(i)'.gen = generation /\ i # 0
    BY <1>1, <1>2 DEF Underway
  <2>3. \A i : i # 0 => At(i)' = At(i)
    BY <1>2 DEF At
  <2>4. Underway' = Underway /\ \A i \in Underway : At(i)' = At(i)
    <3>1. \A i : i \in Underway' <=> i \in Underway
      BY <2>1, <2>2, <2>3
    <3> QED
      BY <2>1, <2>3, <3>1
  <2> QED
    BY <1>1, <2>4, NothingIsTyped DEF Unseen
<1>4. WorkerHolds'
  BY <1>1 DEF IInv, WorkerHolds, Idling
<1>5. BackendHolds'
  BY <1>1 DEF IInv, BackendHolds
<1>6. WaitingHolds'
  BY <1>1, <1>2, NothingIsTyped DEF IInv, WaitingHolds
<1> QED
  BY <1>1, <1>3, <1>4, <1>5, <1>6, UnseenKeeps

\* The worker that ends unbinds the backend.
LEMMA EndKeeps == ASSUME IInv, End PROVE IInv'
<1>1. /\ CallerKept /\ UNCHANGED <<failedGeneration, store, backend, busy, request, answer>>
      /\ pc = "wait" /\ pc' = "ended" /\ bound' = NoSession /\ active' = NoSession
  BY DEF End, Alone, Step
<1>2. UNCHANGED <<call, stopping, generation, session, queue, pending>>
  BY <1>1 DEF CallerKept, store
<1>3. request = NoRequest /\ busy = FALSE /\ answer \in Answer
  BY <1>1 DEF IInv, WorkerHolds, Idling, TypeOK
<1>4. Unseen
  <2>1. request.kind \notin Lookup
    BY <1>3, NothingIsTyped DEF Lookup
  <2>2. Underway' = Underway /\ \A i \in Underway : At(i)' = At(i)
    BY <1>1, <1>2, <2>1, SameUnderway
  <2> QED
    BY <1>1, <1>3, <2>2 DEF Unseen
<1>5. WorkerHolds'
  BY <1>1, <1>3 DEF WorkerHolds, Idling
<1>6. BackendHolds'
  BY <1>1 DEF BackendHolds
<1>7. WaitingHolds'
  BY <1>1, <1>2, <1>3, NothingIsTyped DEF IInv, WaitingHolds
<1> QED
  BY <1>1, <1>3, <1>4, <1>5, <1>6, <1>7, UnseenKeeps

\* The worker that cannot record a failure stops the service.
LEMMA WorkerFailsKeeps == ASSUME IInv, WorkerFails PROVE IInv'
<1>1. /\ stopping' = TRUE /\ busy' = FALSE /\ pc = "fail" /\ pc' = "ended"
      /\ queue' = <<>> /\ pending' = {} /\ pendingBytes' = 0
      /\ request' = NoRequest /\ active' = NoSession /\ bound' = NoSession
      /\ UNCHANGED <<call, generation, failedGeneration, session, addresses, names, answer, backend>>
  BY DEF WorkerFails, Step
<1>2. TypeOK /\ generation \in Nat
  BY DEF IInv, TypeOK, Gen
<1>3. TypeOK'
  <2>1. <<>> \in Seq(Request)
    BY EmptySeq
  <2> QED
    <3>1. 0 \in 0 .. MaxQueuedBytes
      BY Costs
    <3>2. Bytes(addresses)' = Bytes(addresses) /\ Bytes(names)' = Bytes(names)
      BY <1>1 DEF Bytes
    <3> QED
      BY <1>1, <1>2, <2>1, <3>1, <3>2, NothingIsTyped DEF TypeOK
<1>4. DOMAIN queue' = {}
  BY <1>1
<1>5. RequestsAreSound'
  <2>1. Sound(request)'
    BY <1>1, <1>2, NothingIsTyped DEF Sound
  <2> QED
    BY <1>1, <1>4, <2>1 DEF RequestsAreSound
<1>6. SessionsAreOne'
  <2>1. OneSession(session)'
    BY <1>1 DEF IInv, SessionsAreOne, OneSession
  <2>2. OneSession(active)' /\ OneSession(bound)' /\ OneSession(request.session)'
    BY <1>1, <1>2, NothingIsTyped DEF OneSession
  <2> QED
    BY <1>1, <1>4, <2>1, <2>2 DEF IInv, SessionsAreOne
<1>7. WorkerHolds' /\ BackendHolds'
  BY <1>1 DEF WorkerHolds, Idling, BackendHolds
<1>8. CachesAreFresh'
  BY <1>1 DEF IInv, CachesAreFresh, Distinct
<1>9. BasicComesFirst'
  <2>1. Underway' = {}
    <3>1. \A i \in Underway' : i = 0 /\ At(i)'.kind \in Lookup
      BY <1>1 DEF Underway
    <3>2. At(0)' = NoRequest
      BY <1>1 DEF At
    <3> QED
      BY <3>1, <3>2, NothingIsTyped DEF Lookup
  <2> QED
    BY <2>1 DEF BasicComesFirst
<1>10. PendingHolds'
  <2>1. CostOf(pending)' = 0 /\ IsFiniteSet(pending')
    BY <1>1, NoCost, FS_EmptySet DEF CostOf
  <2> QED
    BY <1>1, <2>1 DEF PendingHolds
<1>11. WaitingHolds'
  BY <1>1, NothingIsTyped DEF IInv, WaitingHolds
<1> QED
  BY <1>3, <1>5, <1>6, <1>7, <1>8, <1>9, <1>10, <1>11 DEF IInv

\* A request of now is answered: it leaves what is pending, nothing else does.
Answered ==
  /\ pc \in {"publish", "cancel", "fail"} /\ pc' = "done"
  /\ IF request.gen = generation THEN Retire(request) ELSE UNCHANGED <<pending, pendingBytes>>
  /\ failedGeneration' \in {generation, failedGeneration}
  /\ CallerKept
  /\ UNCHANGED <<queue, busy, backend, request, answer, active, bound>>

\* Its bytes were counted, so they can be taken off.
LEMMA RetireIs ==
  ASSUME TypeOK, PendingHolds, Retire(request)
  PROVE  /\ pending' = pending \ {Key(request)} /\ IsFiniteSet(pending')
         /\ pendingBytes' = CostOf(pending)' /\ pendingBytes' \in 0 .. MaxQueuedBytes
<1>1. /\ IsFiniteSet(pending) /\ pendingBytes = CostOf(pending) /\ pending \in SUBSET Keys
      /\ pendingBytes \in 0 .. MaxQueuedBytes /\ MaxQueuedBytes \in Nat
  BY Costs DEF PendingHolds, TypeOK, Keys
<1>2. CASE Key(request) \in pending
  <2>1. PICK k \in pending : k = Key(request) /\ k.kind = request.kind
    BY <1>2 DEF Key
  <2>2. pending' = pending \ {k} /\ pendingBytes' = pendingBytes - Cost[k.kind]
    BY <1>2, <2>1 DEF Retire
  <2>3. /\ IsFiniteSet(pending \ {k}) /\ CostOf(pending \ {k}) = CostOf(pending) - Cost[k.kind]
        /\ CostOf(pending \ {k}) \in Nat /\ Cost[k.kind] \in Nat
    BY <1>1, CostRemoved
  <2>4. CostOf(pending)' = CostOf(pending \ {k})
    BY <2>2 DEF CostOf
  <2>5. pendingBytes' = CostOf(pending \ {k}) /\ pendingBytes' \in 0 .. MaxQueuedBytes
    BY <1>1, <2>2, <2>3
  <2> QED
    BY <2>1, <2>2, <2>3, <2>4, <2>5
<1>3. CASE Key(request) \notin pending
  <2>1. pending' = pending /\ pendingBytes' = pendingBytes
    BY <1>3 DEF Retire
  <2>2. CostOf(pending)' = CostOf(pending) /\ pending \ {Key(request)} = pending
    BY <1>3, <2>1 DEF CostOf
  <2> QED
    BY <1>1, <2>1, <2>2
<1> QED
  BY <1>2, <1>3

\* The worker's request leaves both what is under way and what is pending.
LEMMA AnsweredKeeps ==
  ASSUME IInv, Answered
  PROVE  /\ RequestsAreSound' /\ SessionsAreOne' /\ WorkerHolds' /\ BackendHolds'
         /\ PendingHolds' /\ WaitingHolds'
         /\ pending' \subseteq pending /\ pendingBytes' \in 0 .. MaxQueuedBytes
         /\ Moved(0) /\ Underway' = Underway \ {0} /\ Underway \subseteq Nat
<1>1. UNCHANGED <<call, stopping, generation, session, queue, busy, backend, request, answer,
                  active, bound>>
  BY DEF Answered, CallerKept
<1>2. pc \in {"publish", "cancel", "fail"} /\ pc' = "done" /\ TypeOK /\ PendingHolds
  BY DEF Answered, IInv
<1>3. RequestsAreSound' /\ SessionsAreOne'
  BY <1>1 DEF IInv, RequestsAreSound, Sound, SessionsAreOne, OneSession
<1>4. WorkerHolds' /\ BackendHolds'
  BY <1>1, <1>2 DEF IInv, WorkerHolds, Idling, BackendHolds
<1>5. /\ Underway' = Underway \ {0} /\ Underway \subseteq Nat
      /\ \A i \in Underway' : At(i)' = At(i)
      /\ 0 \in Underway <=> request.kind \in Lookup /\ request.gen = generation
      /\ At(0) = request
  <2>1. \A i : At(i)' = At(i)
    BY <1>1 DEF At
  <2>2. At(0) = request
    BY DEF At
  <2>3. \A i : i \in Underway <=> /\ i \in 0 .. Len(queue) /\ At(i).kind \in Lookup
                                  /\ At(i).gen = generation
    BY <1>2 DEF Underway
  <2>4. \A i : i \in Underway' <=> /\ i \in 0 .. Len(queue) /\ At(i).kind \in Lookup
                                   /\ At(i).gen = generation /\ i # 0
    BY <1>1, <1>2, <2>1 DEF Underway
  <2>5. Len(queue) \in Nat
    BY <1>2, UnderwayIs
  <2>6. 0 \in 0 .. Len(queue) /\ \A i \in 0 .. Len(queue) : i \in Nat
    BY <2>5
  <2> QED
    BY <2>1, <2>2, <2>3, <2>4, <2>6
<1>6. Moved(0)
  <2>1. \A i \in Nat : i + 0 = i
    OBVIOUS
  <2> QED
    BY <1>5, <2>1 DEF Moved
<1>7. /\ IsFiniteSet(pending') /\ pendingBytes' = CostOf(pending)'
      /\ pendingBytes' \in 0 .. MaxQueuedBytes
      /\ pending' = IF request.gen = generation THEN pending \ {Key(request)} ELSE pending
  <2>1. CASE request.gen = generation
    BY <1>2, <2>1, RetireIs DEF Answered
  <2>2. CASE request.gen # generation
    <3>1. pending' = pending /\ pendingBytes' = pendingBytes
      BY <2>2 DEF Answered
    <3>2. CostOf(pending)' = CostOf(pending)
      BY <3>1 DEF CostOf
    <3> QED
      BY <1>2, <2>2, <3>1, <3>2 DEF PendingHolds, TypeOK
  <2> QED
    BY <2>1, <2>2
<1>8. PendingHolds'
  <2>1. SUFFICES ASSUME ~stopping
                 PROVE  /\ \A k \in pending' : \E i \in Underway' : k = Key(At(i))'
                        /\ \A i \in Underway' : Key(At(i))' \in pending'
                        /\ \A i, j \in Underway' : Key(At(i))' = Key(At(j))' => i = j
    BY <1>1, <1>7 DEF PendingHolds
  <2>2. /\ \A k \in pending : \E i \in Underway : k = Key(At(i))
        /\ \A i \in Underway : Key(At(i)) \in pending
        /\ \A i, j \in Underway : Key(At(i)) = Key(At(j)) => i = j
    BY <1>2, <2>1 DEF PendingHolds
  <2>3. \A i \in Underway' : Key(At(i))' = Key(At(i)) /\ i \in Underway /\ i # 0
    BY <1>5 DEF Key
  <2>4. 0 \in Underway => Key(At(0)) = Key(request) /\ request.gen = generation
    BY <1>5
  <2>5. Key(request) \in pending /\ request.gen = generation => 0 \in Underway
    <3>1. \A k \in pending : k.kind \in Lookup
      BY <1>2 DEF TypeOK
    <3> QED
      BY <1>5, <3>1 DEF Key
  <2>6. ASSUME NEW k \in pending'
        PROVE  \E i \in Underway' : k = Key(At(i))'
    <3>1. k \in pending /\ (request.gen = generation => k # Key(request))
      BY <1>7
    <3>2. PICK i \in Underway : k = Key(At(i))
      BY <2>2, <3>1
    <3>3. i # 0
      BY <2>4, <3>1, <3>2
    <3>4. i \in Underway'
      BY <1>5, <3>3
    <3> QED
      BY <2>3, <3>2, <3>4
  <2>7. ASSUME NEW i \in Underway'
        PROVE  Key(At(i))' \in pending'
    <3>1. Key(At(i)) \in pending /\ i \in Underway /\ i # 0
      BY <2>2, <2>3
    <3>2. request.gen = generation => Key(At(i)) # Key(request)
      BY <2>2, <2>4, <2>5, <3>1
    <3> QED
      BY <1>7, <2>3, <3>1, <3>2
  <2>8. ASSUME NEW i \in Underway', NEW j \in Underway', Key(At(i))' = Key(At(j))'
        PROVE  i = j
    <3>1. i \in Underway /\ j \in Underway /\ Key(At(i)) = Key(At(j))
      BY <2>3, <2>8
    <3> QED
      BY <2>2, <3>1
  <2> QED
    BY <2>6, <2>7, <2>8
<1>9. pending' \subseteq pending
  BY <1>7
<1>10. WaitingHolds'
  BY <1>1, <1>2, <1>9 DEF IInv, WaitingHolds
<1> QED
  BY <1>3, <1>4, <1>5, <1>6, <1>7, <1>8, <1>9, <1>10

\* An answered request that is not published.
LEMMA GivenUpKeeps ==
  ASSUME IInv, Answered, addresses' = addresses, names' = names
  PROVE  IInv'
<1>1. UNCHANGED <<call, stopping, generation, session, queue, busy, backend, request, answer,
                  active, bound>>
  BY DEF Answered, CallerKept
<1>2. TypeOK'
  BY <1>1, AnsweredKeeps DEF IInv, TypeOK, Answered, Bytes
<1>3. CachesAreFresh'
  BY <1>1 DEF IInv, CachesAreFresh, Distinct
<1>4. BasicComesFirst'
  <2>1. Moved(0) /\ Underway' \subseteq Nat
    BY AnsweredKeeps
  <2> QED
    BY <2>1, MovedKeepsBasic DEF IInv
<1> QED
  BY <1>2, <1>3, <1>4, AnsweredKeeps DEF IInv

\* A cancelled request is given up.
LEMMA CancelKeeps == ASSUME IInv, Cancel PROVE IInv'
<1>1. Answered /\ addresses' = addresses /\ names' = names
  BY DEF Cancel, Answered, Step
<1> QED
  BY <1>1, GivenUpKeeps

\* So is a failed one.
LEMMA FailKeeps == ASSUME IInv, Fail PROVE IInv'
<1>1. Answered /\ addresses' = addresses /\ names' = names
  BY DEF Fail, Answered, Step
<1> QED
  BY <1>1, GivenUpKeeps

\* What is published is of the session of now, and the richest known.
Published ==
  /\ request.gen = generation /\ answer.kind = request.kind /\ answer.of = request.of
  /\ \E a \in Answer :
       /\ a.kind = request.kind /\ a.of = request.of /\ a.by = generation
       /\ \/ /\ a.kind = "name" /\ Fitted(names, addresses, names', addresses', a)
             /\ Len(names') <= MaxNameCache
          \/ /\ a.kind # "name" /\ Fitted(addresses, names, addresses', names', a)
             /\ Len(addresses') <= MaxAddressCache
             /\ a.kind = "detailed" => \A i \in DOMAIN addresses :
                  addresses[i].of = a.of /\ addresses[i].found => a.found

\* What was checked before an answer was trimmed is checked again under the mutex.
LEMMA PublishIs ==
  ASSUME IInv, Publish
  PROVE  Answered /\ pc = "publish" /\ (Published \/ (addresses' = addresses /\ names' = names))
<1>1. /\ pc = "publish" /\ pc' = "done" /\ CallerKept
      /\ UNCHANGED <<failedGeneration, busy, backend, request, answer, active, bound>>
      /\ \/ request.gen # generation /\ UNCHANGED store
         \/ /\ request.gen = generation /\ Retire(request) /\ queue' = queue
            /\ IF answer.kind = "name" THEN InNames(answer) ELSE InAddresses(Upgrade(answer))
  BY DEF Publish, Step
<1>2. Answered
  BY <1>1 DEF Answered, store
<1>3. CASE request.gen # generation /\ UNCHANGED store
  BY <1>1, <1>2, <1>3 DEF store
<1>4. CASE /\ request.gen = generation
           /\ IF answer.kind = "name" THEN InNames(answer) ELSE InAddresses(Upgrade(answer))
  <2>1. /\ answer.of = request.of /\ answer.kind = request.kind
        /\ answer.by = generation /\ answer.cost <= MaxRetainedBytes /\ answer \in Answer /\ TypeOK
    BY <1>1, <1>4 DEF IInv, BackendHolds, TypeOK
  <2>2. CASE answer.kind = "name"
    <3>1. Fitted(names, addresses, names', addresses', answer) /\ Len(names') <= MaxNameCache
      BY <1>4, <2>1, <2>2, InNamesFits
    <3> QED
      BY <1>1, <1>2, <1>4, <2>1, <2>2, <3>1 DEF Published
  <2>3. CASE answer.kind # "name"
    <3>1. PICK a : a = Upgrade(answer)
      OBVIOUS
    <3>2. /\ a \in Answer /\ a.cost <= MaxRetainedBytes /\ a.of = answer.of /\ a.kind = answer.kind
          /\ a.by = answer.by \/ \E i \in DOMAIN addresses : a.by = addresses[i].by
          /\ a.kind = "detailed" => \A i \in DOMAIN addresses :
               addresses[i].of = a.of /\ addresses[i].found => a.found
      BY <2>1, <3>1, UpgradeIs
    <3>3. a.by = generation
      BY <2>1, <3>2 DEF IInv, CachesAreFresh
    <3>4. InAddresses(a)
      BY <1>4, <2>3, <3>1
    <3>5. Fitted(addresses, names, addresses', names', a) /\ Len(addresses') <= MaxAddressCache
      BY <2>1, <3>2, <3>4, InAddressesFits
    <3>6. Published
      BY <1>4, <2>1, <2>3, <3>2, <3>3, <3>5 DEF Published
    <3> QED
      BY <1>1, <1>2, <3>6
  <2> QED
    BY <2>2, <2>3
<1> QED
  BY <1>1, <1>3, <1>4

\* An answer that is published keeps the caches fresh and in their bounds.
LEMMA PublishedKeeps ==
  ASSUME IInv, Answered, pc = "publish", Published
  PROVE  IInv'
<1>1. UNCHANGED <<call, stopping, generation, session, queue, busy, backend, request, answer,
                  active, bound>>
  BY DEF Answered, CallerKept
<1>2. PICK a \in Answer :
        /\ a.kind = request.kind /\ a.of = request.of /\ a.by = generation
        /\ \/ /\ a.kind = "name" /\ Fitted(names, addresses, names', addresses', a)
              /\ Len(names') <= MaxNameCache
           \/ /\ a.kind # "name" /\ Fitted(addresses, names, addresses', names', a)
              /\ Len(addresses') <= MaxAddressCache
  BY DEF Published
<1>3. /\ addresses \in Seq(Answer) /\ names \in Seq(Answer) /\ Len(addresses) <= MaxAddressCache
      /\ Len(names) <= MaxNameCache /\ MaxAddressCache \in Nat /\ MaxNameCache \in Nat
      /\ Len(addresses) \in Nat /\ Len(names) \in Nat
  BY Costs, LenProperties DEF IInv, TypeOK
<1>4. /\ addresses' \in Seq(Answer) /\ names' \in Seq(Answer) /\ Len(addresses') <= MaxAddressCache
      /\ Len(names') <= MaxNameCache /\ Bytes(addresses') + Bytes(names') <= MaxRetainedBytes
  <2>1. addresses' \in Seq(Answer) /\ names' \in Seq(Answer)
    BY <1>2 DEF Fitted
  <2>2. /\ Bytes(addresses') \in Nat /\ Bytes(names') \in Nat
        /\ Len(addresses') \in Nat /\ Len(names') \in Nat
    BY <2>1, BytesAre, LenProperties
  <2>3. CASE a.kind = "name" /\ Fitted(names, addresses, names', addresses', a)
             /\ Len(names') <= MaxNameCache
    <3>1. /\ Bytes(names') + Bytes(addresses') <= MaxRetainedBytes
          /\ Len(addresses') <= Len(addresses)
      BY <2>3 DEF Fitted
    <3> QED
      BY <1>3, <2>1, <2>2, <2>3, <3>1
  <2>4. CASE a.kind # "name" /\ Fitted(addresses, names, addresses', names', a)
             /\ Len(addresses') <= MaxAddressCache
    <3>1. /\ Bytes(addresses') + Bytes(names') <= MaxRetainedBytes
          /\ Len(names') <= Len(names)
      BY <2>4 DEF Fitted
    <3> QED
      BY <1>3, <2>1, <2>2, <2>4, <3>1
  <2> QED
    BY <1>2, <2>3, <2>4
<1>5. TypeOK'
  <2>1. Bytes(addresses)' = Bytes(addresses') /\ Bytes(names)' = Bytes(names')
    BY DEF Bytes
  <2>2. pending' \subseteq pending /\ pendingBytes' \in 0 .. MaxQueuedBytes
    BY AnsweredKeeps
  <2> QED
    BY <1>1, <1>4, <2>1, <2>2 DEF IInv, TypeOK, Answered
<1>6. /\ \A j \in DOMAIN addresses' : \/ addresses'[j] = a /\ a.kind # "name"
                                      \/ \E i \in DOMAIN addresses : addresses'[j] = addresses[i]
      /\ \A j \in DOMAIN names' : names'[j] = a \/ \E i \in DOMAIN names : names'[j] = names[i]
      /\ Distinct(addresses')
  BY <1>2 DEF Fitted, Drawn, IInv, CachesAreFresh
<1>7. CachesAreFresh'
  <2>1. /\ \A j \in DOMAIN addresses' : addresses'[j].by = generation
        /\ \A j \in DOMAIN names' : names'[j].by = generation
    BY <1>2, <1>6 DEF IInv, CachesAreFresh
  <2> QED
    BY <1>1, <1>6, <2>1 DEF CachesAreFresh, Distinct
<1>8. BasicComesFirst'
  <2>1. Moved(0) /\ Underway' \subseteq Nat /\ Underway' = Underway \ {0} /\ Underway \subseteq Nat
    BY AnsweredKeeps
  <2>2. ASSUME NEW m \in DOMAIN addresses', addresses'[m] = a, a.kind # "name",
               NEW i \in Underway', At(i)'.kind = "basic"
        PROVE  At(i)'.of # addresses'[m].of
    <3>1. 0 \in Underway /\ At(0) = request
      <4>1. Len(queue) \in Nat
        BY UnderwayIs DEF IInv
      <4>2. 0 \in 0 .. Len(queue) /\ At(0) = request
        BY <4>1 DEF At
      <4> QED
        BY <1>2, <4>2 DEF Underway, Published, IInv, WorkerHolds
    <3>2. i \in Underway /\ 0 < i /\ At(i)' = At(i)
      BY <1>1, <2>1 DEF At
    <3>3. At(0).kind = "name" \/ At(0).of # At(i).of
      BY <2>2, <3>1, <3>2 DEF IInv, BasicComesFirst
    <3> QED
      BY <1>2, <2>2, <3>1, <3>2, <3>3
  <2>3. \A m \in DOMAIN addresses' :
          \/ \E i \in DOMAIN addresses : addresses'[m].of = addresses[i].of
          \/ \A i \in Underway' : At(i)'.kind = "basic" => At(i)'.of # addresses'[m].of
    BY <1>6, <2>2
  <2> QED
    BY <2>1, <2>3, MovedKeepsBasic DEF IInv
<1> QED
  BY <1>5, <1>7, <1>8, AnsweredKeeps DEF IInv
----------------------------------------------------------------------------
(* The invariant, and what follows from it.                                *)

\* The service starts with nothing bound, queued or pending.
LEMMA InitHolds == Init => IInv
<1> SUFFICES ASSUME Init PROVE IInv
  OBVIOUS
<1>1. /\ call = "ready" /\ stopping = FALSE /\ generation = 0 /\ failedGeneration = 0
      /\ session = NoSession /\ queue = <<>> /\ pending = {} /\ pendingBytes = 0
      /\ addresses = <<>> /\ names = <<>> /\ pc = "wait" /\ busy = FALSE /\ backend \in BOOLEAN
      /\ request = NoRequest /\ answer = NoAnswer /\ active = NoSession /\ bound = NoSession
  BY DEF Init
<1>2. TypeOK
  <2>1. <<>> \in Seq(Answer) /\ <<>> \in Seq(Request) /\ Len(<<>>) = 0 /\ Bytes(<<>>) = 0
    BY EmptySeq, NoBytes
  <2>2. 0 \in Gen /\ 0 \in 0 .. MaxQueuedBytes
    BY Costs DEF Gen
  <2> QED
    <3>1. Bytes(addresses) = 0 /\ Bytes(names) = 0
      BY <1>1, <2>1
    <3>2. 0 + 0 <= MaxRetainedBytes /\ 0 <= MaxAddressCache /\ 0 <= MaxNameCache
      BY Costs
    <3> QED
      BY <1>1, <2>1, <2>2, <3>1, <3>2, NothingIsTyped DEF TypeOK
<1>3. RequestsAreSound /\ SessionsAreOne
  BY <1>1, NothingIsTyped DEF RequestsAreSound, Sound, SessionsAreOne, OneSession
<1>4. WorkerHolds /\ BackendHolds /\ CachesAreFresh
  BY <1>1 DEF WorkerHolds, Idling, BackendHolds, CachesAreFresh, Distinct
<1>5. Underway = {}
  <2>1. \A i \in Underway : i = 0 /\ At(i).kind \in Lookup
    BY <1>1 DEF Underway
  <2>2. At(0) = NoRequest
    BY <1>1 DEF At
  <2> QED
    BY <2>1, <2>2, NothingIsTyped DEF Lookup
<1>6. BasicComesFirst
  BY <1>5 DEF BasicComesFirst
<1>7. PendingHolds
  BY <1>1, <1>5, NoCost, FS_EmptySet DEF PendingHolds
<1>8. WaitingHolds
  BY <1>1 DEF WaitingHolds
<1> QED
  BY <1>2, <1>3, <1>4, <1>6, <1>7, <1>8 DEF IInv

\* The interface thread's calls keep the invariant.
LEMMA InterfaceKeeps == ASSUME IInv, Interface PROVE IInv'
<1>1. /\ 0 \in Gen /\ session.handle \in Gen
      /\ Ready => generation + 1 \in Gen
  BY Costs DEF IInv, TypeOK, Session, Gen, Ready
<1>2. CASE UseBinary
  BY <1>1, <1>2, Replaces DEF UseBinary, Rebind
<1>3. CASE UseLive
  <2>1. Ready
    BY <1>3 DEF UseLive, Rebind
  <2> QED
    BY <1>1, <1>3, <2>1, Replaces DEF UseLive, Rebind
<1>4. CASE ResetSession
  BY <1>1, <1>4, Replaces DEF ResetSession, Rebind
<1>5. CASE Configure
  BY <1>1, <1>5, Replaces DEF Configure, Rebind
<1>6. CASE LookupAddress
  BY <1>6, AskKeeps DEF LookupAddress, Lookup
<1>7. CASE LookupName
  BY <1>7, AskKeeps DEF LookupName, Lookup
<1>8. CASE CancelAndWaitIdle
  <2>1. CASE Ready /\ ReplaceSession(FALSE, 0) /\ call' = "waiting"
    BY <1>1, <1>8, <2>1, Replaces DEF CancelAndWaitIdle
  <2>2. CASE /\ stopping /\ session' = NoSession /\ ClearLookupState /\ queue' = <<>>
             /\ call' = "ready" /\ UNCHANGED <<generation, failedGeneration>>
    BY <1>8, <2>2, StoppedIsEmpty DEF CancelAndWaitIdle
  <2> QED
    BY <1>8, <2>1, <2>2 DEF CancelAndWaitIdle
<1>9. CASE Destroy
  BY <1>9, DestroyKeeps
<1> QED
  BY <1>2, <1>3, <1>4, <1>5, <1>6, <1>7, <1>8, <1>9 DEF Interface

\* So does the worker.
LEMMA WorkerKeeps == ASSUME IInv, Worker PROVE IInv'
<1>1. CASE Publish
  <2>1. Answered /\ pc = "publish" /\ (Published \/ (addresses' = addresses /\ names' = names))
    BY <1>1, PublishIs
  <2> QED
    BY <2>1, PublishedKeeps, GivenUpKeeps
<1> QED
  BY <1>1, TakeKeeps, ResetBackendKeeps, CheckKeeps, UnbindKeeps, BindBackendKeeps,
     EnsureModulesKeeps, ResolveKeeps, CancelKeeps, FailKeeps, WorkerFailsKeeps, DoneKeeps,
     EndKeeps DEF Worker

\* So does every step.
LEMMA StepKeeps == IInv /\ [Next]_vars => IInv'
<1> SUFFICES ASSUME IInv, [Next]_vars PROVE IInv'
  OBVIOUS
<1>1. CASE Interface
  BY <1>1, InterfaceKeeps
<1>2. CASE Worker
  BY <1>2, WorkerKeeps
<1>3. CASE Returns
  BY <1>3, CallerGoesOn DEF Returns, Idle, Join
<1>4. CASE UNCHANGED vars
  BY <1>4, CallerGoesOn DEF vars
<1> QED
  BY <1>1, <1>2, <1>3, <1>4 DEF Next, Gone

\* Every session that replaces another, every lookup and every failure keeps the
\* invariant.
THEOREM Invariant == Spec => []IInv
<1> QED
  BY InitHolds, StepKeeps, PTL DEF Spec

\* The caches stay within their counts and, together, within the bytes that may be
\* retained; the bytes pending within their limit.
THEOREM TypeCorrect == Spec => []TypeOK
<1>1. IInv => TypeOK
  BY DEF IInv
<1> QED
  BY <1>1, Invariant, PTL

\* A lookup that answers Pending is with the worker or in the queue, exactly once,
\* and its bytes are counted once (lookupAddress, retirePendingLocked).
THEOREM PendingAlwaysUnderway == Spec => []PendingIsUnderway
<1>1. ASSUME IInv
      PROVE  PendingIsUnderway
  <2> SUFFICES ASSUME ~stopping
               PROVE  /\ Cardinality(Underway) = Cardinality(pending)
                      /\ pending = {Key(At(i)) : i \in Underway}
                      /\ pendingBytes = CostOf(pending)
                      /\ \A i \in DOMAIN queue : queue[i].gen = generation
    BY DEF PendingIsUnderway
  <2>1. /\ \A k \in pending : \E i \in Underway : k = Key(At(i))
        /\ \A i \in Underway : Key(At(i)) \in pending
        /\ \A i, j \in Underway : Key(At(i)) = Key(At(j)) => i = j
    BY <1>1 DEF IInv, PendingHolds
  <2>2. IsFiniteSet(Underway)
    <3>1. Len(queue) \in Nat /\ Underway \in SUBSET (0 .. Len(queue))
      BY <1>1, UnderwayIs DEF IInv
    <3>2. IsFiniteSet(0 .. Len(queue))
      BY <3>1, FS_Interval
    <3> QED
      BY <3>1, <3>2, FS_Subset
  <2>3. [i \in Underway |-> Key(At(i))] \in Bijection(Underway, pending)
    BY <2>1 DEF Bijection, Injection, Surjection, IsInjective
  <2>4. Cardinality(Underway) = Cardinality(pending)
    BY <2>2, <2>3, FS_Bijection DEF ExistsBijection
  <2>5. pending = {Key(At(i)) : i \in Underway}
    BY <2>1
  <2> QED
    BY <1>1, <2>4, <2>5 DEF IInv, PendingHolds, RequestsAreSound
<1> QED
  BY <1>1, Invariant, PTL

\* What is cached, and what is being resolved, is of the session of now.
LEMMA OfTheSession == IInv => AnswersAreOfTheSession
<1> SUFFICES ASSUME IInv PROVE AnswersAreOfTheSession
  OBVIOUS
<1>1. \A cache \in {addresses, names} : \A i \in DOMAIN cache : cache[i].by = generation
  BY DEF IInv, CachesAreFresh
<1>2. ASSUME pc = "resolve"
      PROVE  bound = request.session /\ bound.gen # 0 /\ bound.handle \in Open
  <2>1. bound = request.session /\ request.kind \in Lookup
    BY <1>2 DEF IInv, BackendHolds, WorkerHolds
  <2>2. request.session.gen # 0
    BY <2>1 DEF IInv, RequestsAreSound, Sound, Lookup
  <2>3. request.session.handle \in Open
    BY DEF Open
  <2> QED
    BY <2>1, <2>2, <2>3
<1> QED
  BY <1>1, <1>2 DEF AnswersAreOfTheSession

\* What a step of AnswersNeverRegress must keep.
Kept ==
  \A i \in DOMAIN addresses, j \in DOMAIN addresses' :
    addresses[i].of = addresses'[j].of =>
      /\ addresses[i].found => addresses'[j].found
      /\ addresses[i].kind = "detailed" => addresses'[j].kind = "detailed"

\* A basic answer never meets a cached one, and a rich one keeps a proven name.
LEMMA PublishKeepsRicher == ASSUME IInv, Publish PROVE Kept
<1>1. Answered /\ pc = "publish" /\ (Published \/ addresses' = addresses)
  BY PublishIs
<1>2. Distinct(addresses)
  BY DEF IInv, CachesAreFresh
<1>3. CASE addresses' = addresses
  BY <1>2, <1>3 DEF Kept, Distinct
<1>4. CASE Published
  <2>1. PICK a \in Answer :
          /\ a.kind = request.kind /\ a.of = request.of
          /\ \/ /\ a.kind = "name" /\ Fitted(names, addresses, names', addresses', a)
             \/ /\ a.kind # "name" /\ Fitted(addresses, names, addresses', names', a)
                /\ a.kind = "detailed" => \A i \in DOMAIN addresses :
                     addresses[i].of = a.of /\ addresses[i].found => a.found
    BY <1>4 DEF Published
  <2> SUFFICES ASSUME NEW i \in DOMAIN addresses, NEW j \in DOMAIN addresses',
                      addresses[i].of = addresses'[j].of
               PROVE  /\ addresses[i].found => addresses'[j].found
                      /\ addresses[i].kind = "detailed" => addresses'[j].kind = "detailed"
    BY DEF Kept
  <2>2. \/ \E k \in DOMAIN addresses : addresses'[j] = addresses[k]
        \/ addresses'[j] = a /\ a.kind # "name"
    BY <2>1 DEF Fitted, Drawn
  <2>3. CASE \E k \in DOMAIN addresses : addresses'[j] = addresses[k]
    BY <1>2, <2>3 DEF Distinct
  <2>4. CASE addresses'[j] = a /\ a.kind # "name"
    <3>1. a.kind \in Lookup /\ request.gen = generation
      BY <1>4 DEF Answer, Published
    <3>2. 0 \in Underway /\ At(0) = request
      <4>1. Len(queue) \in Nat
        BY UnderwayIs DEF IInv
      <4>2. 0 \in 0 .. Len(queue) /\ At(0) = request
        BY <4>1 DEF At
      <4> QED
        BY <1>1, <2>1, <3>1, <4>2 DEF Underway
    <3>3. a.kind # "basic"
      BY <2>1, <2>4, <3>2 DEF IInv, BasicComesFirst
    <3>4. a.kind = "detailed"
      BY <2>4, <3>1, <3>3 DEF Lookup
    <3> QED
      BY <2>1, <2>4, <3>4
  <2> QED
    BY <2>2, <2>3, <2>4
<1> QED
  BY <1>1, <1>3, <1>4

\* No other step puts anything into the cache.
LEMMA NeverRegresses == IInv /\ [Next]_vars => [generation' = generation => Kept]_vars
<1> SUFFICES ASSUME IInv, Next, generation' = generation
             PROVE  Kept
  OBVIOUS
<1>1. Distinct(addresses) /\ generation + 1 # generation
  BY DEF IInv, CachesAreFresh, TypeOK, Gen
<1>2. addresses' = addresses => Kept
  BY <1>1 DEF Kept, Distinct
<1>3. addresses' = <<>> => Kept
  BY DEF Kept
<1>4. CASE Interface
  BY <1>1, <1>2, <1>3, <1>4
     DEF Interface, UseBinary, UseLive, ResetSession, Configure, Rebind, ReplaceSession,
         LookupAddress, LookupName, Ask, CancelAndWaitIdle, ClearLookupState, Destroy
<1>5. CASE Returns
  BY <1>2, <1>5 DEF Returns, Idle, Join, store
<1>6. CASE Worker
  <2>1. Publish => Kept
    BY PublishKeepsRicher
  <2>2. Take \/ Cancel \/ Fail \/ WorkerFails \/ Done => addresses' = addresses
    BY DEF Take, Cancel, Fail, WorkerFails, Done, store
  <2>3. Alone => addresses' = addresses
    BY DEF Alone, store
  <2>4. ResetBackend \/ Check \/ Unbind \/ BindBackend \/ EnsureModules \/ Resolve \/ End => Alone
    BY DEF ResetBackend, Check, Unbind, BindBackend, EnsureModules, Backend, Resolve, End
  <2> QED
    BY <1>2, <1>6, <2>1, <2>2, <2>3, <2>4 DEF Worker
<1>7. CASE Gone
  BY <1>2, <1>7 DEF Gone, vars, store
<1> QED
  BY <1>4, <1>5, <1>6, <1>7 DEF Next

\* What a step that returns from waiting finds.
Quiet == bound = NoSession /\ Open = {0} /\ request = NoRequest /\ pending = {}

\* Only an idle worker lets the caller return.
LEMMA QuietReturn ==
  IInv /\ [Next]_vars => [call = "waiting" /\ call' = "ready" => Quiet]_vars
<1> SUFFICES ASSUME IInv, Next, call = "waiting", call' = "ready"
             PROVE  Quiet
  OBVIOUS
<1>1. Idle
  <2>1. ~Interface
    BY DEF Interface, UseBinary, UseLive, ResetSession, Configure, Rebind, Ready,
           LookupAddress, LookupName, Ask, CancelAndWaitIdle, Destroy
  <2>2. ~Worker
    BY DEF Worker, Take, ResetBackend, Check, Unbind, BindBackend, EnsureModules, Backend,
           Resolve, Publish, Cancel, Fail, WorkerFails, Done, End, Alone, CallerKept
  <2> QED
    BY <2>1, <2>2 DEF Next, Returns, Join, Gone
<1>2. ~busy /\ queue = <<>>
  BY <1>1 DEF Idle, IdleNow
<1>3. pc \in {"wait", "ended"} /\ request = NoRequest
  BY <1>2 DEF IInv, WorkerHolds, Idling
<1>4. session = NoSession /\ pending = {} /\ bound = NoSession /\ active = NoSession
  BY <1>2, <1>3, EmptySeq DEF IInv, WaitingHolds
<1>5. Open = {0}
  <2>1. DOMAIN queue = {}
    BY <1>2
  <2>2. \A s \in {session, active, request.session} : s.handle = 0
    BY <1>3, <1>4, NothingIsTyped DEF NoSession
  <2> QED
    BY <2>1, <2>2 DEF Open
<1> QED
  BY <1>3, <1>4, <1>5 DEF Quiet

\* No answer of one session is seen in another, none replaces a better one, and when
\* cancelAndWaitIdle returns nothing of a session is bound, held or open.
THEOREM SessionsAlwaysSeparate == Spec => SessionsAreSeparate
<1>1. Spec => []AnswersAreOfTheSession
  BY OfTheSession, Invariant, PTL
<1>2. Spec => [][generation' = generation => Kept]_vars
  BY NeverRegresses, Invariant, PTL DEF Spec
<1>3. Spec => AnswersNeverRegress
  BY <1>2 DEF AnswersNeverRegress, Kept
<1>4. Spec => [][call = "waiting" /\ call' = "ready" => Quiet]_vars
  BY QuietReturn, Invariant, PTL DEF Spec
<1>5. Spec => QuietAfterCancel
  BY <1>4 DEF QuietAfterCancel, Quiet
<1> QED
  BY <1>1, <1>3, <1>5, PTL DEF SessionsAreSeparate, AnswersHold
=============================================================================
