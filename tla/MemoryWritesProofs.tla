-------------------------- MODULE MemoryWritesProofs -------------------------
(***************************************************************************)
(* Proofs about the writes to the target's memory, for any callers, calls, *)
(* addresses and bounds: the types, that the target stays whole, that the  *)
(* queue is counted right and served, and that all of it implements        *)
(* TargetWrites.                                                           *)
(***************************************************************************)
EXTENDS MemoryWrites, SequenceTheorems, FiniteSetTheorems, TLAPS
----------------------------------------------------------------------------
(* The inductive invariant.                                                *)

Of(id) == req[id[1]][id[2]]

\* A caller has answers for the first of its requests, and no other answers.
CallsHold ==
  \A c \in Caller :
    /\ pc[c] = "free" <=> req[c] = <<>>
    /\ Len(results[c]) <= Len(req[c])
    /\ \A i \in DOMAIN req[c] :
         /\ req[c][i].stale <=> req[c][1].stale
         /\ req[c][i].written => req[c][i].done
         /\ i <= Len(results[c]) => req[c][i].done \/ req[c][i].cancel

\* What is queued was asked of the present target.
QueueIsFresh == \A id \in Range(pending) : ~Of(id).stale

\* The request in hand is neither answered nor queued; its call may be gone.
TakenHolds ==
  active # None =>
    /\ owner \in {"serves", "paused", "leaves"}
    /\ ~active.orphan =>
         /\ active.id[2] \in DOMAIN req[active.id[1]] /\ active.id \notin Range(pending)
         /\ ~Of(active.id).done /\ ~Of(active.id).stale
         /\ Of(active.id).span = active.span

\* The session's state is the owner's.
OwnerHolds ==
  /\ owner \in {"waits", "serves", "served"} => state = "Running"
  /\ cleanupOnly <=> owner = "gone"
  /\ cleanupOnly => pending = <<>>

\* The target does not run on unless some caller of the queue, or a break, or a
\* failure to break in, will be noticed.
BreakIsComing ==
  owner \in {"waits", "served"} /\ pending # <<>> /\ ~unbroken =>
    sync \/ \E id \in Range(pending) : pc[id[1]] = "wake"

\* What the owner has read is what a rollback will write.
WriteHolds ==
  ~Idle =>
    /\ open \subseteq Cell \cap Code
    /\ \A a \in Cell : bp[a].kind # "temp"
    /\ active.at = "wrote" => \A a \in Cell : bytes[a] = Physical(a)

\* Each address is whole, and those that are being written will be after a rollback.
WholeAt(a, b) ==
  /\ bp[a].kind \in {"armed", "temp"} => b = Int3
  /\ bp[a].kind = "exposed" => b = bp[a].orig
WillBeWhole ==
  ~reported =>
    /\ \A a \in Addr : (Idle \/ a \notin Cell) => WholeAt(a, bytes[a])
    /\ ~Idle => \A a \in Cell : WholeAt(a, before[a]) /\ (bp[a].kind = "armed" => bytes[a] = Int3)
    /\ Idle => open = {}

IInv == /\ TypeOK /\ CallsHold /\ QueueAccounted /\ QueueIsFresh /\ TakenHolds /\ OwnerHolds
        /\ BreakIsComing /\ WriteHolds /\ WillBeWhole

----------------------------------------------------------------------------
(* The queue as a set, and its bytes as pairs.                             *)

\* The place at which the n-th of the numbers I is found.
LEMMA Places ==
  ASSUME NEW m \in Nat, NEW I \in SUBSET (1 .. m)
  PROVE  /\ Cardinality(I) \in 0 .. m
         /\ \A n \in 1 .. Cardinality(I) :
              (CHOOSE i \in I : Cardinality({j \in I : j <= i}) = n) \in I
         /\ \A n, k \in 1 .. Cardinality(I) :
              (CHOOSE i \in I : Cardinality({j \in I : j <= i}) = n)
                = (CHOOSE i \in I : Cardinality({j \in I : j <= i}) = k) => n = k
         /\ \A i \in I : \E n \in 1 .. Cardinality(I) :
              i = CHOOSE h \in I : Cardinality({j \in I : j <= h}) = n
<1> DEFINE rank(i) == Cardinality({j \in I : j <= i})
           N == Cardinality(I)
           place(n) == CHOOSE i \in I : rank(i) = n
           r == [i \in I |-> rank(i)]
<1>1. IsFiniteSet(I) /\ N \in 0 .. m
  <2>1. IsFiniteSet(1 .. m) /\ Cardinality(1 .. m) = m
    BY FS_Interval
  <2>2. IsFiniteSet(I) /\ N <= m
    BY <2>1, FS_Subset
  <2>3. N \in Nat
    BY <2>2, FS_CardinalityType
  <2> QED
    BY <2>2, <2>3
<1>2. \A i \in I : /\ IsFiniteSet({j \in I : j <= i}) /\ rank(i) \in 1 .. N
  <2> SUFFICES ASSUME NEW i \in I
               PROVE  IsFiniteSet({j \in I : j <= i}) /\ rank(i) \in 1 .. N
    OBVIOUS
  <2>1. {j \in I : j <= i} \in SUBSET I /\ {j \in I : j <= i} # {}
    OBVIOUS
  <2>2. IsFiniteSet({j \in I : j <= i}) /\ rank(i) <= N
    BY <1>1, <2>1, FS_Subset
  <2>3. rank(i) \in Nat /\ rank(i) # 0
    BY <2>1, <2>2, FS_CardinalityType, FS_EmptySet
  <2> QED
    BY <1>1, <2>2, <2>3
<1>3. \A i, k \in I : rank(i) = rank(k) => i = k
  <2>1. ASSUME NEW i \in I, NEW k \in I, i < k PROVE rank(i) # rank(k)
    <3>1. {j \in I : j <= i} \in SUBSET {j \in I : j <= k}
      <4>1. \A j \in I : j \in Nat
        OBVIOUS
      <4>2. \A j \in I : j <= i => j <= k
        BY <2>1, <4>1
      <4> QED
        BY <4>2, Zenon
    <3>2. k \in {j \in I : j <= k} /\ k \notin {j \in I : j <= i}
      BY <2>1
    <3> QED
      BY <1>2, <3>1, <3>2, FS_Subset
  <2> QED
    BY <2>1
<1> HIDE DEF rank
<1>4. r \in Injection(I, 1 .. N)
  BY <1>2, <1>3 DEF Injection, IsInjective
<1>5. IsFiniteSet(1 .. N) /\ Cardinality(1 .. N) = N
  BY <1>1, FS_Interval
<1>6. r \in Surjection(I, 1 .. N)
  BY <1>4, <1>5, FS_Injection
<1>7. \A n \in 1 .. N : \E i \in I : rank(i) = n
  BY <1>6 DEF Surjection
<1>8. \A n \in 1 .. N : place(n) \in I /\ rank(place(n)) = n
  BY <1>7
<1>9. \A i \in I : i = place(rank(i))
  BY <1>2, <1>3, <1>8
<1> HIDE DEF place, N
<1>10. /\ N \in 0 .. m
       /\ \A n \in 1 .. N : place(n) \in I
       /\ \A n, k \in 1 .. N : place(n) = place(k) => n = k
       /\ \A i \in I : \E n \in 1 .. N : i = place(n)
  BY <1>1, <1>2, <1>8, <1>9
<1> QED
  BY <1>10, Zenon DEF place, N, rank

\* What is kept of the queue is what was at the places that are kept.
LEMMA KeptAre ==
  ASSUME NEW S, pending \in Seq(S), IsInjective(pending), NEW I \in SUBSET (DOMAIN pending)
  PROVE  /\ Kept(I) \in Seq(S) /\ IsInjective(Kept(I)) /\ Len(Kept(I)) <= Len(pending)
         /\ Range(Kept(I)) = {pending[i] : i \in I}
<1> DEFINE place(n) == CHOOSE i \in I : Cardinality({j \in I : j <= i}) = n
           N == Cardinality(I)
<1>1. /\ N \in 0 .. Len(pending)
      /\ \A n \in 1 .. N : place(n) \in I
      /\ \A n, k \in 1 .. N : place(n) = place(k) => n = k
      /\ \A i \in I : \E n \in 1 .. N : i = place(n)
  <2>1. Len(pending) \in Nat /\ I \in SUBSET (1 .. Len(pending))
    BY LenProperties
  <2> QED
    BY <2>1, Places, Zenon
<1>2. Kept(I) = [n \in 1 .. N |-> pending[place(n)]]
  BY Zenon DEF Kept
<1> HIDE DEF place, N
<1>3. \A i \in I : pending[i] \in S
  BY ElementOfSeq, LenProperties
<1>4. Kept(I) \in Seq(S) /\ Len(Kept(I)) = N
  BY <1>1, <1>2, <1>3, IsASeq
<1>5. IsInjective(Kept(I))
  BY <1>1, <1>2 DEF IsInjective
<1>6. Range(Kept(I)) = {pending[i] : i \in I}
  <2>1. DOMAIN Kept(I) = 1 .. N /\ \A n \in 1 .. N : Kept(I)[n] = pending[place(n)]
    BY <1>2
  <2>2. \A x : x \in Range(Kept(I)) <=> \E n \in 1 .. N : x = pending[place(n)]
    BY <2>1 DEF Range
  <2>3. \A x : x \in {pending[i] : i \in I} <=> \E i \in I : x = pending[i]
    OBVIOUS
  <2>4. \A x : x \in Range(Kept(I)) <=> x \in {pending[i] : i \in I}
    BY <1>1, <2>2, <2>3, Zenon
  <2> QED
    BY <2>4, Zenon
<1> QED
  BY <1>1, <1>4, <1>5, <1>6

\* The bytes of the requests that are queued.
CellsOf(ids) == UNION {{id} \X DOMAIN Of(id).span.bytes : id \in ids}

\* The bytes of the requests I of a call.
CallCells(c, call, I) == UNION {{<<c, i>>} \X DOMAIN call[i].bytes : i \in I}

\* They are as many as the bytes of the call's spans I.
LEMMA CallBytes ==
  ASSUME NEW c, NEW call \in Seq(Span), NEW I \in SUBSET (DOMAIN call)
  PROVE  IsFiniteSet(CallCells(c, call, I)) /\ Cardinality(CallCells(c, call, I)) = Total(call, I)
<1> DEFINE cells == UNION {{<<c, i>>} \X DOMAIN call[i].bytes : i \in I}
           pairs == UNION {{i} \X DOMAIN call[i].bytes : i \in I}
           f == [p \in pairs |-> <<<<c, p[1]>>, p[2]>>]
<1>1. IsFiniteSet(pairs)
  <2>1. IsFiniteSet(I)
    <3>1. Len(call) \in Int /\ I \in SUBSET (1 .. Len(call))
      BY LenProperties
    <3>2. IsFiniteSet(1 .. Len(call))
      BY <3>1, FS_Interval
    <3> QED
      BY <3>1, <3>2, FS_Subset
  <2>2. \A i \in I : IsFiniteSet(DOMAIN call[i].bytes)
    BY WritesAssumption, ElementOfSeq, LenProperties
  <2>3. \A i \in I : IsFiniteSet({i} \X DOMAIN call[i].bytes)
    BY <2>2, FS_Product, FS_Singleton
  <2> DEFINE parts == {{i} \X DOMAIN call[i].bytes : i \in I}
  <2>4. IsFiniteSet(parts)
    <3>1. [i \in I |-> {i} \X DOMAIN call[i].bytes] \in Surjection(I, parts)
      BY DEF Surjection
    <3> QED
      BY <2>1, <3>1, FS_Surjection
  <2>5. \A T \in parts : IsFiniteSet(T)
    BY <2>3
  <2> HIDE DEF parts
  <2>6. IsFiniteSet(UNION parts)
    BY <2>4, <2>5, FS_UNION
  <2> QED
    BY <2>6, Zenon DEF parts
<1>2. f \in Bijection(pairs, cells)
  <2>1. \A p \in pairs : /\ p[1] \in I /\ p[2] \in DOMAIN call[p[1]].bytes /\ p = <<p[1], p[2]>>
    OBVIOUS
  <2>2. \A p \in pairs : <<<<c, p[1]>>, p[2]>> \in cells
    BY <2>1
  <2>3. \A x \in cells : \E i \in I : \E a \in DOMAIN call[i].bytes : x = <<<<c, i>>, a>>
    OBVIOUS
  <2>4. \A i \in I : \A a \in DOMAIN call[i].bytes : <<i, a>> \in pairs
    OBVIOUS
  <2> HIDE DEF pairs, cells
  <2>5. \A p, q \in pairs : f[p] = f[q] => p = q
    BY <2>1
  <2>6. \A x \in cells : \E p \in pairs : f[p] = x
    BY <2>3, <2>4
  <2>7. f \in [pairs -> cells]
    BY <2>2
  <2> HIDE DEF f
  <2> QED
    BY <2>5, <2>6, <2>7, Zenon DEF Bijection, Injection, Surjection, IsInjective
<1>3. Total(call, I) = Cardinality(pairs)
  BY Zenon DEF Total
<1> HIDE DEF pairs, cells, f
<1>4. IsFiniteSet(cells) /\ Cardinality(cells) = Total(call, I)
  BY <1>1, <1>2, <1>3, FS_Bijection, Zenon DEF ExistsBijection
<1> QED
  BY <1>4, Zenon DEF cells, CallCells
----------------------------------------------------------------------------
(* What becomes of the requests.                                           *)

\* A request that is marked is a request, with the same span.
LEMMA Marked ==
  ASSUME NEW r \in Requests
  PROVE  /\ r.stale \in BOOLEAN /\ r.cancel \in BOOLEAN /\ r.done \in BOOLEAN
         /\ r.written \in BOOLEAN /\ r.span \in Span
         /\ [r EXCEPT !.cancel = TRUE] \in Requests
         /\ [r EXCEPT !.cancel = TRUE, !.done = TRUE] \in Requests
         /\ [r EXCEPT !.stale = TRUE] \in Requests
         /\ \A w \in BOOLEAN : [r EXCEPT !.done = TRUE, !.written = w] \in Requests
  BY Zenon DEF Requests

\* The marks of a request that is marked.
LEMMA MarksOf ==
  ASSUME NEW r \in Requests
  PROVE  /\ LET s == [r EXCEPT !.cancel = TRUE] IN
              /\ s.span = r.span /\ s.stale = r.stale /\ s.cancel /\ s.done = r.done
              /\ s.written = r.written
         /\ LET s == [r EXCEPT !.cancel = TRUE, !.done = TRUE] IN
              /\ s.span = r.span /\ s.stale = r.stale /\ s.cancel /\ s.done
              /\ s.written = r.written
         /\ LET s == [r EXCEPT !.stale = TRUE] IN
              /\ s.span = r.span /\ s.stale /\ s.cancel = r.cancel /\ s.done = r.done
              /\ s.written = r.written
  BY Zenon DEF Requests

\* The marks of a request that is answered.
LEMMA MarksOfAnswered ==
  ASSUME NEW r \in Requests, NEW w \in BOOLEAN
  PROVE  LET s == [r EXCEPT !.done = TRUE, !.written = w]
         IN  /\ s.span = r.span /\ s.stale = r.stale /\ s.cancel = r.cancel /\ s.done
             /\ s.written = w
  BY Zenon DEF Requests

\* One request of one caller is changed.
LEMMA OneRequest ==
  ASSUME req \in [Caller -> Seq(Requests)], NEW c \in Caller, NEW k \in DOMAIN req[c],
         NEW r \in Requests, req' = [req EXCEPT ![c] = [req[c] EXCEPT ![k] = r]]
  PROVE  /\ req' \in [Caller -> Seq(Requests)]
         /\ \A d \in Caller : Len(req'[d]) = Len(req[d]) /\ DOMAIN req'[d] = DOMAIN req[d]
         /\ \A d \in Caller : \A i \in DOMAIN req[d] :
              req'[d][i] = IF <<d, i>> = <<c, k>> THEN r ELSE req[d][i]
<1>1. [req[c] EXCEPT ![k] = r] \in Seq(Requests) /\ Len([req[c] EXCEPT ![k] = r]) = Len(req[c])
  BY ExceptSeq
<1>2. \A d \in Caller : req'[d] = IF d = c THEN [req[c] EXCEPT ![k] = r] ELSE req[d]
  OBVIOUS
<1>3. req' \in [Caller -> Seq(Requests)]
  BY <1>1
<1>4. \A d \in Caller : Len(req'[d]) = Len(req[d]) /\ DOMAIN req'[d] = DOMAIN req[d]
  BY <1>1, <1>2
<1>5. \A d \in Caller : \A i \in DOMAIN req[d] :
        req'[d][i] = IF d = c /\ i = k THEN r ELSE req[d][i]
  BY <1>2
<1> QED
  BY <1>3, <1>4, <1>5

\* The requests after a step in which none is added or taken away.
Renewed ==
  /\ req' \in [Caller -> Seq(Requests)]
  /\ \A d \in Caller : Len(req'[d]) = Len(req[d]) /\ DOMAIN req'[d] = DOMAIN req[d]
  /\ \A d \in Caller : \A i \in DOMAIN req[d] : req'[d][i].span = req[d][i].span

\* A caller gives a request up.
LEMMA DeadlineMarks ==
  ASSUME TypeOK, NEW c \in Caller, Deadline(c)
  PROVE  /\ Renewed /\ Current(c) \in DOMAIN req[c] /\ ~req[c][Current(c)].done
         /\ \A d \in Caller : \A i \in DOMAIN req[d] :
              /\ (req'[d][i].done <=> req[d][i].done) /\ (req'[d][i].written <=> req[d][i].written)
              /\ (req'[d][i].stale <=> req[d][i].stale)
              /\ req'[d][i].cancel <=> req[d][i].cancel \/ <<d, i>> = <<c, Current(c)>>
<1> DEFINE k == Current(c)
           r == [req[c][k] EXCEPT !.cancel = TRUE]
<1>1. /\ k \in DOMAIN req[c] /\ ~req[c][k].done /\ req \in [Caller -> Seq(Requests)]
      /\ req' = [req EXCEPT ![c] = [req[c] EXCEPT ![k] = r]]
  BY Zenon DEF Deadline, TypeOK
<1>2. \A d \in Caller : \A i \in DOMAIN req[d] : req[d][i] \in Requests
  BY <1>1, ElementOfSeq, LenProperties
<1>3. r \in Requests
  BY <1>1, <1>2, Marked
<1> HIDE DEF k, r
<1>4. /\ req' \in [Caller -> Seq(Requests)]
      /\ \A d \in Caller : Len(req'[d]) = Len(req[d]) /\ DOMAIN req'[d] = DOMAIN req[d]
      /\ \A d \in Caller : \A i \in DOMAIN req[d] :
           req'[d][i] = IF <<d, i>> = <<c, k>> THEN r ELSE req[d][i]
  BY <1>1, <1>3, OneRequest
<1>5. /\ r.span = req[c][k].span /\ r.stale = req[c][k].stale /\ r.cancel
      /\ r.done = req[c][k].done /\ r.written = req[c][k].written
  BY <1>1, <1>2, MarksOf, Zenon DEF r
<1>6. \A d \in Caller : \A i \in DOMAIN req[d] :
        /\ <<d, i>> = <<c, k>> => d = c /\ i = k /\ req'[d][i] = r
        /\ <<d, i>> # <<c, k>> => req'[d][i] = req[d][i]
  BY <1>4
<1> QED
  BY <1>1, <1>4, <1>5, <1>6, Zenon DEF Renewed, k

\* The owner answers its request, unless that has lost its call.
LEMMA AnswerMarks ==
  ASSUME TypeOK, TakenHolds, active # None, NEW w \in BOOLEAN, Answer(w)
  PROVE  /\ Renewed
         /\ \A d \in Caller : \A i \in DOMAIN req[d] :
              IF ~active.orphan /\ <<d, i>> = active.id
              THEN /\ req'[d][i].done /\ (req'[d][i].written <=> w /\ ~req[d][i].cancel)
                   /\ (req'[d][i].cancel <=> req[d][i].cancel) /\ (req'[d][i].stale <=> req[d][i].stale)
              ELSE req'[d][i] = req[d][i]
<1>1. /\ req \in [Caller -> Seq(Requests)] /\ active.id \in Caller \X Nat
      /\ active.orphan \in BOOLEAN
  BY Zenon DEF TypeOK
<1>2. CASE active.orphan
  <2>1. req' = req
    BY <1>2, Zenon DEF Answer
  <2> QED
    BY <1>1, <1>2, <2>1, Zenon DEF Renewed
<1>3. CASE ~active.orphan
  <2> DEFINE c == active.id[1]
             k == active.id[2]
             v == w /\ ~Cancelled
             r == [req[c][k] EXCEPT !.done = TRUE, !.written = v]
  <2>1. c \in Caller /\ k \in DOMAIN req[c] /\ active.id = <<c, k>>
    BY <1>1, <1>3 DEF TakenHolds
  <2>2. req' = [req EXCEPT ![c] = [req[c] EXCEPT ![k] = r]]
    BY <1>3, Zenon DEF Answer
  <2>3. \A d \in Caller : \A i \in DOMAIN req[d] : req[d][i] \in Requests
    BY <1>1, ElementOfSeq, LenProperties
  <2>4. v \in BOOLEAN /\ (v <=> w /\ ~req[c][k].cancel)
    BY <1>3, Zenon DEF Cancelled
  <2> HIDE DEF v
  <2>10. req[c][k] \in Requests
    BY <2>1, <2>3
  <2> DEFINE q == req[c][k]
  <2> HIDE DEF r, q
  <2>11. q \in Requests /\ v \in BOOLEAN
    BY <2>4, <2>10 DEF q
  <2>12. r = [q EXCEPT !.done = TRUE, !.written = v]
    BY Zenon DEF r, q
  <2>13. r \in Requests
    BY <2>11, <2>12, Marked, Zenon
  <2>14. /\ r.span = q.span /\ r.stale = q.stale
         /\ r.cancel = q.cancel /\ r.done /\ r.written = v
    <3>1. LET s == [q EXCEPT !.done = TRUE, !.written = v]
          IN  /\ s.span = q.span /\ s.stale = q.stale
              /\ s.cancel = q.cancel /\ s.done /\ s.written = v
      BY <2>11, MarksOfAnswered, Zenon
    <3> QED
      BY <2>12, <3>1
  <2>5. /\ r \in Requests /\ r.span = req[c][k].span /\ r.stale = req[c][k].stale
        /\ r.cancel = req[c][k].cancel /\ r.done /\ r.written = v
    BY <2>13, <2>14, Zenon DEF q
  <2> HIDE DEF c, k
  <2>6. /\ req' \in [Caller -> Seq(Requests)]
        /\ \A d \in Caller : Len(req'[d]) = Len(req[d]) /\ DOMAIN req'[d] = DOMAIN req[d]
        /\ \A d \in Caller : \A i \in DOMAIN req[d] :
             req'[d][i] = IF <<d, i>> = <<c, k>> THEN r ELSE req[d][i]
    BY <1>1, <2>1, <2>2, <2>5, OneRequest
  <2>7. \A d \in Caller : \A i \in DOMAIN req[d] :
          /\ <<d, i>> = active.id => d = c /\ i = k /\ req'[d][i] = r
          /\ <<d, i>> # active.id => req'[d][i] = req[d][i]
    BY <2>1, <2>6
  <2>8. Renewed
    BY <2>1, <2>5, <2>6, <2>7, Zenon DEF Renewed
  <2>9. ASSUME NEW d \in Caller, NEW i \in DOMAIN req[d]
        PROVE  IF ~active.orphan /\ <<d, i>> = active.id
               THEN /\ req'[d][i].done /\ (req'[d][i].written <=> w /\ ~req[d][i].cancel)
                    /\ (req'[d][i].cancel <=> req[d][i].cancel) /\ (req'[d][i].stale <=> req[d][i].stale)
               ELSE req'[d][i] = req[d][i]
    BY <1>3, <2>4, <2>5, <2>7, <2>9, Zenon
  <2> QED
    BY <2>8, <2>9, Zenon
<1> QED
  BY <1>1, <1>2, <1>3

\* A map of the requests is a sequence of requests for each caller.
LEMMA AllRequests ==
  ASSUME req \in [Caller -> Seq(Requests)], req' = [c \in Caller |-> req'[c]],
         \A c \in Caller : req'[c] = [i \in DOMAIN req[c] |-> req'[c][i]],
         \A c \in Caller : \A i \in DOMAIN req[c] :
           req'[c][i] \in Requests /\ req'[c][i].span = req[c][i].span
  PROVE  Renewed
<1>1. ASSUME NEW c \in Caller
      PROVE  /\ req'[c] \in Seq(Requests) /\ Len(req'[c]) = Len(req[c])
             /\ DOMAIN req'[c] = DOMAIN req[c]
  <2>1. Len(req[c]) \in Nat /\ DOMAIN req[c] = 1 .. Len(req[c])
    BY LenProperties
  <2>2. req'[c] = [i \in 1 .. Len(req[c]) |-> req'[c][i]]
    BY <2>1
  <2>3. \A i \in 1 .. Len(req[c]) : req'[c][i] \in Requests
    BY <2>1
  <2>4. req'[c] \in Seq(Requests) /\ Len(req'[c]) = Len(req[c])
    BY <2>1, <2>2, <2>3, IsASeq
  <2> QED
    BY <2>1, <2>2, <2>4
<1>2. \A c \in Caller : \A i \in DOMAIN req[c] : req'[c][i].span = req[c][i].span
  OBVIOUS
<1>3. req' \in [Caller -> Seq(Requests)]
  BY <1>1, Zenon
<1> QED
  BY <1>1, <1>2, <1>3, Zenon DEF Renewed

\* A detach takes the queue back, and tells the owner to give up what it has.
LEMMA CancelMarks ==
  ASSUME TypeOK, CancelPending
  PROVE  /\ Renewed
         /\ \A d \in Caller : \A i \in DOMAIN req[d] :
              /\ req'[d][i].done <=> req[d][i].done \/ Queued(<<d, i>>)
              /\ (req'[d][i].written <=> req[d][i].written) /\ (req'[d][i].stale <=> req[d][i].stale)
              /\ req[d][i].cancel => req'[d][i].cancel
              /\ Queued(<<d, i>>) => req'[d][i].cancel
<1> DEFINE f(c, i) == IF Queued(<<c, i>>)
                      THEN [req[c][i] EXCEPT !.cancel = TRUE, !.done = TRUE]
                      ELSE IF active.at # "none" /\ active.id = <<c, i>>
                      THEN [req[c][i] EXCEPT !.cancel = TRUE]
                      ELSE req[c][i]
<1>1. /\ req \in [Caller -> Seq(Requests)]
      /\ req' = [c \in Caller |-> [i \in DOMAIN req[c] |-> f(c, i)]]
  BY Zenon DEF TypeOK, CancelPending
<1> HIDE DEF f
<1>2. \A d \in Caller : \A i \in DOMAIN req[d] : req[d][i] \in Requests /\ i \in Nat
  BY <1>1, ElementOfSeq, LenProperties
<1>3. ASSUME NEW d \in Caller, NEW i \in DOMAIN req[d]
      PROVE  /\ f(d, i) \in Requests /\ f(d, i).span = req[d][i].span
             /\ f(d, i).done <=> req[d][i].done \/ Queued(<<d, i>>)
             /\ (f(d, i).written <=> req[d][i].written) /\ (f(d, i).stale <=> req[d][i].stale)
             /\ req[d][i].cancel => f(d, i).cancel
             /\ Queued(<<d, i>>) => f(d, i).cancel
  <2> DEFINE r == req[d][i]
  <2>1. r \in Requests
    BY <1>2
  <2> HIDE DEF r
  <2>2. CASE Queued(<<d, i>>)
    <3>1. f(d, i) = [r EXCEPT !.cancel = TRUE, !.done = TRUE]
      BY <2>2, Zenon DEF r, f
    <3>2. f(d, i) \in Requests
      BY <2>1, <3>1, Marked, Zenon
    <3>3. /\ f(d, i).span = r.span /\ f(d, i).stale = r.stale
          /\ f(d, i).cancel /\ f(d, i).done /\ f(d, i).written = r.written
      <4>1. LET s == [r EXCEPT !.cancel = TRUE, !.done = TRUE]
            IN  /\ s.span = r.span /\ s.stale = r.stale /\ s.cancel /\ s.done
                /\ s.written = r.written
        BY <2>1, MarksOf, Zenon
      <4> QED
        BY <3>1, <4>1
    <3> QED
      BY <2>2, <3>2, <3>3, Zenon DEF r
  <2>3. CASE ~Queued(<<d, i>>) /\ active.at # "none" /\ active.id = <<d, i>>
    <3>1. f(d, i) = [r EXCEPT !.cancel = TRUE]
      BY <2>3, Zenon DEF r, f
    <3> QED
      <4>1. f(d, i) \in Requests
        BY <2>1, <3>1, Marked, Zenon
      <4>2. /\ f(d, i).span = r.span /\ f(d, i).stale = r.stale /\ f(d, i).cancel
            /\ f(d, i).done = r.done /\ f(d, i).written = r.written
        <5>1. LET s == [r EXCEPT !.cancel = TRUE]
              IN  /\ s.span = r.span /\ s.stale = r.stale /\ s.cancel
                  /\ s.done = r.done /\ s.written = r.written
          BY <2>1, MarksOf, Zenon
        <5> QED
          BY <3>1, <5>1
      <4> QED
        BY <2>3, <4>1, <4>2, Zenon DEF r
  <2>4. CASE ~Queued(<<d, i>>) /\ ~(active.at # "none" /\ active.id = <<d, i>>)
    <3>1. f(d, i) = r
      BY <2>4, Zenon DEF r, f
    <3> QED
      BY <2>1, <2>4, <3>1, Zenon DEF r
  <2> QED
    BY <2>2, <2>3, <2>4, Zenon
<1> HIDE DEF f
<1>4. \A d \in Caller : req'[d] = [i \in DOMAIN req[d] |-> f(d, i)]
  BY <1>1, Zenon
<1>5. \A d \in Caller : \A i \in DOMAIN req[d] : req'[d][i] = f(d, i)
  BY <1>4, Zenon
<1>6. /\ req' = [d \in Caller |-> req'[d]]
      /\ \A d \in Caller : req'[d] = [i \in DOMAIN req[d] |-> req'[d][i]]
  BY <1>1, <1>4, <1>5, Zenon
<1>7. Renewed
  <2>1. \A d \in Caller : \A i \in DOMAIN req[d] :
          req'[d][i] \in Requests /\ req'[d][i].span = req[d][i].span
    BY <1>3, <1>5, Zenon
  <2> QED
    BY <1>1, <1>6, <2>1, AllRequests, Zenon
<1>8. ASSUME NEW d \in Caller, NEW i \in DOMAIN req[d]
      PROVE  /\ req'[d][i].done <=> req[d][i].done \/ Queued(<<d, i>>)
             /\ (req'[d][i].written <=> req[d][i].written) /\ (req'[d][i].stale <=> req[d][i].stale)
             /\ req[d][i].cancel => req'[d][i].cancel
             /\ Queued(<<d, i>>) => req'[d][i].cancel
  <2>1. req'[d][i] = f(d, i)
    BY <1>5, Zenon
  <2>2. /\ f(d, i).done <=> req[d][i].done \/ Queued(<<d, i>>)
        /\ (f(d, i).written <=> req[d][i].written) /\ (f(d, i).stale <=> req[d][i].stale)
        /\ req[d][i].cancel => f(d, i).cancel
        /\ Queued(<<d, i>>) => f(d, i).cancel
    BY <1>3, Zenon
  <2> QED
    BY <2>1, <2>2
<1> QED
  BY <1>7, <1>8, Zenon

\* A new session makes every request stale.
LEMMA StaleMarks ==
  ASSUME TypeOK, BeginSession
  PROVE  /\ Renewed
         /\ \A d \in Caller : \A i \in DOMAIN req[d] :
              /\ (req'[d][i].done <=> req[d][i].done) /\ (req'[d][i].written <=> req[d][i].written)
              /\ (req'[d][i].cancel <=> req[d][i].cancel) /\ req'[d][i].stale
<1> DEFINE f(c, i) == [req[c][i] EXCEPT !.stale = TRUE]
<1>1. /\ req \in [Caller -> Seq(Requests)]
      /\ req' = [c \in Caller |-> [i \in DOMAIN req[c] |-> f(c, i)]]
  BY Zenon DEF TypeOK, BeginSession
<1>2. \A d \in Caller : \A i \in DOMAIN req[d] : req[d][i] \in Requests /\ i \in Nat
  BY <1>1, ElementOfSeq, LenProperties
<1>3. \A d \in Caller : \A i \in DOMAIN req[d] :
         /\ f(d, i) \in Requests /\ f(d, i).span = req[d][i].span
         /\ (f(d, i).done <=> req[d][i].done) /\ (f(d, i).written <=> req[d][i].written)
         /\ (f(d, i).cancel <=> req[d][i].cancel) /\ f(d, i).stale
  <2> SUFFICES ASSUME NEW d \in Caller, NEW i \in DOMAIN req[d]
               PROVE  /\ f(d, i) \in Requests /\ f(d, i).span = req[d][i].span
                      /\ (f(d, i).done <=> req[d][i].done)
                      /\ (f(d, i).written <=> req[d][i].written)
                      /\ (f(d, i).cancel <=> req[d][i].cancel) /\ f(d, i).stale
    BY Zenon
  <2>1. req[d][i] \in Requests
    BY <1>2
  <2>2. f(d, i) \in Requests
    BY <2>1, Marked, Zenon
  <2>3. LET s == [req[d][i] EXCEPT !.stale = TRUE]
        IN  /\ s.span = req[d][i].span /\ s.stale /\ s.cancel = req[d][i].cancel
            /\ s.done = req[d][i].done /\ s.written = req[d][i].written
    BY <2>1, MarksOf, Zenon
  <2> QED
    BY <2>2, <2>3
<1> HIDE DEF f
<1>4. \A d \in Caller : req'[d] = [i \in DOMAIN req[d] |-> f(d, i)]
  BY <1>1, Zenon
<1>5. \A d \in Caller : \A i \in DOMAIN req[d] : req'[d][i] = f(d, i)
  BY <1>4, Zenon
<1>6. /\ req' = [d \in Caller |-> req'[d]]
      /\ \A d \in Caller : req'[d] = [i \in DOMAIN req[d] |-> req'[d][i]]
  BY <1>1, <1>4, <1>5, Zenon
<1>7. Renewed
  <2>1. \A d \in Caller : \A i \in DOMAIN req[d] :
          req'[d][i] \in Requests /\ req'[d][i].span = req[d][i].span
    BY <1>3, <1>5, Zenon
  <2> QED
    BY <1>1, <1>6, <2>1, AllRequests, Zenon
<1>8. ASSUME NEW d \in Caller, NEW i \in DOMAIN req[d]
      PROVE  /\ (req'[d][i].done <=> req[d][i].done) /\ (req'[d][i].written <=> req[d][i].written)
             /\ (req'[d][i].cancel <=> req[d][i].cancel) /\ req'[d][i].stale
  <2>1. req'[d][i] = f(d, i)
    BY <1>5, Zenon
  <2>2. /\ (f(d, i).done <=> req[d][i].done) /\ (f(d, i).written <=> req[d][i].written)
        /\ (f(d, i).cancel <=> req[d][i].cancel) /\ f(d, i).stale
    BY <1>3, Zenon
  <2> QED
    BY <2>1, <2>2
<1> QED
  BY <1>7, <1>8, Zenon
----------------------------------------------------------------------------
(* The calls and their queue.                                              *)

\* The part of the types that is about calls.
CallTypes ==
  /\ req \in [Caller -> Seq(Requests)] /\ results \in [Caller -> Seq({"written", "refused"})]
  /\ pc \in [Caller -> {"free", "wake", "waits"}]
  /\ pending \in Seq(Caller \X Nat) /\ pendingBytes \in 0..MaxPendingBytes
ActiveType ==
  active = None \/ active \in
    [at : {"taken", "prepared", "wrote", "failed"}, id : Caller \X Nat, span : Span,
     stale : BOOLEAN, submitted : {"Running", "Paused"}, orphan : BOOLEAN]

CallInv == /\ CallTypes /\ ActiveType /\ CallsHold /\ QueueAccounted /\ QueueIsFresh
           /\ TakenHolds

\* What is queued is a request of a call.
LEMMA QueuedAre ==
  ASSUME CallTypes, QueueAccounted, QueueIsFresh, NEW id \in Range(pending)
  PROVE  /\ id \in Caller \X Nat /\ id = <<id[1], id[2]>> /\ id[1] \in Caller
         /\ id[2] \in DOMAIN req[id[1]] /\ Of(id) \in Requests /\ ~Of(id).done /\ ~Of(id).stale
<1>1. PICK n \in DOMAIN pending : id = pending[n]
  BY DEF Range
<1>2. id \in Caller \X Nat
  BY <1>1, ElementOfSeq, LenProperties DEF CallTypes
<1>3. id[2] \in DOMAIN req[id[1]] /\ ~Of(id).done /\ ~Of(id).stale
  BY Zenon DEF QueueAccounted, QueueIsFresh, Of
<1>4. Of(id) \in Requests
  BY <1>2, <1>3, ElementOfSeq, LenProperties DEF Of, CallTypes
<1> QED
  BY <1>2, <1>3, <1>4

\* The requests of a call, one by one.
LEMMA RequestsOf ==
  ASSUME CallTypes, NEW c \in Caller
  PROVE  /\ Len(req[c]) \in Nat /\ DOMAIN req[c] = 1 .. Len(req[c])
         /\ \A i \in DOMAIN req[c] : i \in Nat /\ <<c, i>> \in Caller \X Nat /\ req[c][i] \in Requests
         /\ Len(results[c]) \in Nat /\ req[c] \in Seq(Requests)
         /\ results[c] \in Seq({"written", "refused"})
<1>1. req[c] \in Seq(Requests) /\ results[c] \in Seq({"written", "refused"})
  BY DEF CallTypes
<1>2. Len(req[c]) \in Nat /\ DOMAIN req[c] = 1 .. Len(req[c]) /\ Len(results[c]) \in Nat
  BY <1>1, LenProperties
<1>3. \A i \in DOMAIN req[c] : i \in Nat /\ req[c][i] \in Requests
  BY <1>1, <1>2, ElementOfSeq
<1> QED
  BY <1>1, <1>2, <1>3

\* The bytes of queued requests are finite and count.
LEMMA QueueBytes ==
  ASSUME CallTypes, QueueAccounted, QueueIsFresh
  PROVE  /\ IsFiniteSet(CellsOf(Range(pending)))
         /\ pendingBytes = Cardinality(CellsOf(Range(pending)))
<1>1. pendingBytes = Cardinality(CellsOf(Range(pending)))
  BY Zenon DEF QueueAccounted, CellsOf, Of
<1>2. IsFiniteSet(Range(pending))
  <2>1. Len(pending) \in Int /\ DOMAIN pending = 1 .. Len(pending)
    BY LenProperties DEF CallTypes
  <2>2. IsFiniteSet(DOMAIN pending)
    BY <2>1, FS_Interval
  <2>3. [n \in DOMAIN pending |-> pending[n]] \in Surjection(DOMAIN pending, Range(pending))
    BY DEF Surjection, Range
  <2> QED
    BY <2>2, <2>3, FS_Surjection
<1>3. \A id \in Range(pending) : IsFiniteSet({id} \X DOMAIN Of(id).span.bytes)
  <2> SUFFICES ASSUME NEW id \in Range(pending)
               PROVE  IsFiniteSet({id} \X DOMAIN Of(id).span.bytes)
    OBVIOUS
  <2>1. Of(id).span \in Span
    BY QueuedAre, Marked
  <2>2. IsFiniteSet(DOMAIN Of(id).span.bytes)
    BY <2>1, WritesAssumption
  <2> QED
    BY <2>2, FS_Product, FS_Singleton
<1> DEFINE parts == {{id} \X DOMAIN Of(id).span.bytes : id \in Range(pending)}
<1>4. IsFiniteSet(parts)
  <2>1. [id \in Range(pending) |-> {id} \X DOMAIN Of(id).span.bytes]
          \in Surjection(Range(pending), parts)
    BY DEF Surjection
  <2> QED
    BY <1>2, <2>1, FS_Surjection
<1>5. \A T \in parts : IsFiniteSet(T)
  BY <1>3
<1> HIDE DEF parts
<1>6. IsFiniteSet(UNION parts)
  BY <1>4, <1>5, FS_UNION
<1> QED
  BY <1>1, <1>6, Zenon DEF CellsOf, parts

\* The queue and its bytes are counted as before when no request is renamed.
LEMMA RenewedBytes ==
  ASSUME CallTypes, QueueAccounted, QueueIsFresh, Renewed, UNCHANGED <<pending, pendingBytes>>,
         \A id \in Range(pending) : ~req'[id[1]][id[2]].done /\ ~req'[id[1]][id[2]].stale
  PROVE  QueueAccounted' /\ QueueIsFresh'
<1>1. Range(pending') = Range(pending) /\ Len(pending') = Len(pending)
      /\ IsInjective(pending') /\ pendingBytes' = pendingBytes
  BY Zenon DEF QueueAccounted
<1>2. \A id \in Range(pending) :
        /\ id[2] \in DOMAIN req'[id[1]]
        /\ req'[id[1]][id[2]].span = req[id[1]][id[2]].span
  BY QueuedAre, Zenon DEF Renewed
<1>3. UNION {{id} \X DOMAIN req'[id[1]][id[2]].span.bytes : id \in Range(pending)}
        = UNION {{id} \X DOMAIN req[id[1]][id[2]].span.bytes : id \in Range(pending)}
  BY <1>2
<1>4. QueueAccounted'
  BY <1>1, <1>2, <1>3, Zenon DEF QueueAccounted
<1>5. QueueIsFresh'
  BY <1>1, Zenon DEF QueueIsFresh, Of
<1> QED
  BY <1>4, <1>5

\* A wake-up or its failure leaves the requests alone.
LEMMA WakeCalls ==
  ASSUME CallInv, NEW c \in Caller, Wake(c)
  PROVE  CallInv'
<1>1. /\ UNCHANGED <<req, results, pending, pendingBytes, active, owner>>
      /\ pc[c] = "wake" /\ pc' = [pc EXCEPT ![c] = "waits"]
  BY Zenon DEF Wake, queue
<1>2. CallTypes' /\ ActiveType'
  BY <1>1 DEF CallInv, CallTypes, ActiveType
<1>3. CallsHold'
  <2>1. \A d \in Caller : (pc'[d] = "free") <=> (pc[d] = "free")
    BY <1>1 DEF CallInv, CallTypes
  <2> QED
    BY <1>1, <2>1, Zenon DEF CallInv, CallsHold
<1>4. QueueAccounted' /\ QueueIsFresh' /\ TakenHolds'
  BY <1>1, Zenon DEF CallInv, QueueAccounted, QueueIsFresh, TakenHolds, Of
<1> QED
  BY <1>2, <1>3, <1>4 DEF CallInv

\* A caller reads an answer.
LEMMA CollectCalls ==
  ASSUME CallInv, NEW c \in Caller, Collect(c)
  PROVE  CallInv'
<1> DEFINE k == Current(c)
           v == IF req[c][k].written THEN "written" ELSE "refused"
<1>1. /\ UNCHANGED <<req, pc, pending, pendingBytes, active, owner>>
      /\ pc[c] = "waits" /\ k \in DOMAIN req[c] /\ req[c][k].done
      /\ results' = [results EXCEPT ![c] = Append(results[c], v)]
  BY Zenon DEF Collect, queue, loop
<1>2. k = Len(results[c]) + 1 /\ v \in {"written", "refused"}
  BY Zenon DEF Current
<1> HIDE DEF k, v
<1>3. /\ Append(results[c], v) \in Seq({"written", "refused"})
      /\ Len(Append(results[c], v)) = k
  BY <1>2, AppendProperties DEF CallInv, CallTypes
<1>4. CallTypes' /\ ActiveType'
  BY <1>1, <1>3 DEF CallInv, CallTypes, ActiveType
<1>5. CallsHold'
  <2> SUFFICES ASSUME NEW d \in Caller
               PROVE  /\ Len(results'[d]) <= Len(req[d])
                      /\ \A i \in DOMAIN req[d] :
                           i <= Len(results'[d]) => req[d][i].done \/ req[d][i].cancel
    BY <1>1, Zenon DEF CallInv, CallsHold
  <2>1. CASE d = c
    <3>1. Len(results'[d]) = k /\ k = Len(results[d]) + 1
      BY <1>1, <1>2, <1>3, <2>1 DEF CallInv, CallTypes
    <3>2. \A i \in DOMAIN req[d] : i <= k => i <= Len(results[d]) \/ i = k
      BY <1>2, <2>1, RequestsOf DEF CallInv
    <3>3. k <= Len(req[d])
      BY <1>1, <2>1, RequestsOf DEF CallInv
    <3> QED
      BY <1>1, <2>1, <3>1, <3>2, <3>3, Zenon DEF CallInv, CallsHold
  <2>2. CASE d # c
    BY <1>1, <2>2, Zenon DEF CallInv, CallsHold, CallTypes
  <2> QED
    BY <2>1, <2>2
<1>6. QueueAccounted' /\ QueueIsFresh' /\ TakenHolds'
  BY <1>1, Zenon DEF CallInv, QueueAccounted, QueueIsFresh, TakenHolds, Of
<1> QED
  BY <1>4, <1>5, <1>6 DEF CallInv

\* A caller gives a request up; it remains queued or taken.
LEMMA DeadlineCalls ==
  ASSUME TypeOK, CallInv, NEW c \in Caller, Deadline(c)
  PROVE  CallInv'
<1> DEFINE k == Current(c)
<1>1. /\ UNCHANGED <<pc, pending, pendingBytes, active, owner>>
      /\ results' = [results EXCEPT ![c] = Append(results[c], "refused")]
  BY Zenon DEF Deadline, queue, loop
<1>2. k = Len(results[c]) + 1
  BY Zenon DEF Current
<1>3. /\ Renewed /\ k \in DOMAIN req[c]
      /\ \A d \in Caller : \A i \in DOMAIN req[d] :
           /\ (req'[d][i].done <=> req[d][i].done) /\ (req'[d][i].written <=> req[d][i].written)
           /\ (req'[d][i].stale <=> req[d][i].stale)
           /\ req'[d][i].cancel <=> req[d][i].cancel \/ <<d, i>> = <<c, k>>
  BY DeadlineMarks, Zenon
<1> HIDE DEF k
<1>4. /\ Append(results[c], "refused") \in Seq({"written", "refused"})
      /\ Len(Append(results[c], "refused")) = k
  BY <1>2, AppendProperties DEF CallInv, CallTypes
<1>5. results' \in [Caller -> Seq({"written", "refused"})]
  BY <1>1, <1>4 DEF CallInv, CallTypes
<1>6. CallTypes' /\ ActiveType'
  BY <1>1, <1>3, <1>5, Zenon DEF CallInv, CallTypes, ActiveType, Renewed
<1>7. CallsHold'
  <2> SUFFICES ASSUME NEW d \in Caller
               PROVE  /\ pc'[d] = "free" <=> req'[d] = <<>>
                      /\ Len(results'[d]) <= Len(req'[d])
                      /\ \A i \in DOMAIN req'[d] :
                           /\ req'[d][i].stale <=> req'[d][1].stale
                           /\ req'[d][i].written => req'[d][i].done
                           /\ i <= Len(results'[d]) => req'[d][i].done \/ req'[d][i].cancel
    BY Zenon DEF CallsHold
  <2>1. Len(req'[d]) = Len(req[d]) /\ DOMAIN req'[d] = DOMAIN req[d] /\ req'[d] \in Seq(Requests)
    BY <1>3 DEF Renewed
  <2>2. pc'[d] = "free" <=> req'[d] = <<>>
    <3>1. req'[d] = <<>> <=> req[d] = <<>>
      BY <2>1, RequestsOf, EmptySeq DEF CallInv
    <3> QED
      BY <1>1, <3>1, Zenon DEF CallInv, CallsHold
  <2>3. \A i \in DOMAIN req[d] : 1 \in DOMAIN req[d]
    BY RequestsOf DEF CallInv
  <2>4. \A i \in DOMAIN req[d] : /\ req'[d][i].stale <=> req'[d][1].stale
                                 /\ req'[d][i].written => req'[d][i].done
    <3> SUFFICES ASSUME NEW i \in DOMAIN req[d]
                 PROVE  /\ req'[d][i].stale <=> req'[d][1].stale
                        /\ req'[d][i].written => req'[d][i].done
      OBVIOUS
    <3>1. /\ req'[d][i].stale <=> req[d][i].stale
          /\ req'[d][1].stale <=> req[d][1].stale
          /\ req'[d][i].done <=> req[d][i].done
          /\ req'[d][i].written <=> req[d][i].written
      BY <1>3, <2>3, Zenon
    <3>2. /\ req[d][i].stale <=> req[d][1].stale
          /\ req[d][i].written => req[d][i].done
      BY Zenon DEF CallInv, CallsHold
    <3> QED
      BY <3>1, <3>2, Zenon
  <2>5. CASE d = c
    <3>1. Len(results'[d]) = k /\ k = Len(results[d]) + 1
      BY <1>1, <1>2, <1>4, <2>5 DEF CallInv, CallTypes
    <3>2. \A i \in DOMAIN req[d] : i <= k => i <= Len(results[d]) \/ i = k
      BY <1>2, <2>5, RequestsOf DEF CallInv
    <3>3. k <= Len(req[d])
      BY <1>3, <2>5, RequestsOf DEF CallInv
    <3>4. \A i \in DOMAIN req[d] : i <= k => req'[d][i].done \/ req'[d][i].cancel
      <4>1. \A i \in DOMAIN req[d] : i <= Len(results[d]) => req[d][i].done \/ req[d][i].cancel
        BY Zenon DEF CallInv, CallsHold
      <4> QED
        BY <1>3, <2>5, <3>2, <4>1, Zenon
    <3> QED
      BY <2>1, <2>2, <2>4, <3>1, <3>3, <3>4
  <2>6. CASE d # c
    <3>1. results'[d] = results[d]
      BY <1>1, <2>6 DEF CallInv, CallTypes
    <3>2. /\ Len(results[d]) <= Len(req[d])
          /\ \A i \in DOMAIN req[d] :
               i <= Len(results[d]) => req[d][i].done \/ req[d][i].cancel
      BY Zenon DEF CallInv, CallsHold
    <3>3. \A i \in DOMAIN req[d] :
            i <= Len(results[d]) => req'[d][i].done \/ req'[d][i].cancel
      BY <1>3, <3>2, Zenon
    <3> QED
      BY <2>1, <2>2, <2>4, <3>1, <3>2, <3>3
  <2> QED
    BY <2>5, <2>6
<1>8. QueueAccounted' /\ QueueIsFresh'
  <2>1. \A id \in Range(pending) : ~req'[id[1]][id[2]].done /\ ~req'[id[1]][id[2]].stale
    BY <1>3, QueuedAre, Zenon DEF CallInv, Of
  <2> QED
    BY <1>1, <1>3, <2>1, RenewedBytes DEF CallInv
<1>9. TakenHolds'
  <2> SUFFICES ASSUME active # None, ~active.orphan
               PROVE  /\ active.id[2] \in DOMAIN req'[active.id[1]]
                      /\ ~req'[active.id[1]][active.id[2]].done
                      /\ ~req'[active.id[1]][active.id[2]].stale
                      /\ req'[active.id[1]][active.id[2]].span = active.span
    BY <1>1, Zenon DEF CallInv, TakenHolds, Of
  <2>1. active.id[1] \in Caller /\ active.id[2] \in DOMAIN req[active.id[1]]
    BY DEF CallInv, ActiveType, TakenHolds
  <2>2. /\ active.id[2] \in DOMAIN req[active.id[1]]
        /\ ~req[active.id[1]][active.id[2]].done /\ ~req[active.id[1]][active.id[2]].stale
        /\ req[active.id[1]][active.id[2]].span = active.span
    BY Zenon DEF CallInv, TakenHolds, Of
  <2>3. DOMAIN req'[active.id[1]] = DOMAIN req[active.id[1]]
    BY <1>3, <2>1, Zenon DEF Renewed
  <2>4. /\ ~req'[active.id[1]][active.id[2]].done
        /\ ~req'[active.id[1]][active.id[2]].stale
    BY <1>3, <2>1, <2>2, Zenon
  <2>5. req'[active.id[1]][active.id[2]].span = active.span
    <3>0. \A d \in Caller : \A i \in DOMAIN req[d] : req'[d][i].span = req[d][i].span
      BY <1>3, Zenon DEF Renewed
    <3>1. req'[active.id[1]][active.id[2]].span = req[active.id[1]][active.id[2]].span
      BY <2>1, <3>0, Zenon
    <3> QED
      BY <2>2, <3>1, Zenon
  <2> QED
    BY <2>2, <2>3, <2>4, <2>5, Zenon
<1> QED
  BY <1>6, <1>7, <1>8, <1>9 DEF CallInv

\* Marks that only grow keep the calls as they should be.
LEMMA RenewedCalls ==
  ASSUME CallInv, Renewed, UNCHANGED <<pc, results>>,
         \A d \in Caller : \A i \in DOMAIN req[d] :
           /\ req'[d][i].stale <=> req[d][i].stale \/ req'[d][1].stale
           /\ req[d][1].stale => req'[d][1].stale
           /\ req'[d][i].written => req'[d][i].done
           /\ req[d][i].done \/ req[d][i].cancel => req'[d][i].done \/ req'[d][i].cancel
  PROVE  CallsHold'
<1> SUFFICES ASSUME NEW d \in Caller
             PROVE  /\ pc'[d] = "free" <=> req'[d] = <<>>
                    /\ Len(results'[d]) <= Len(req'[d])
                    /\ \A i \in DOMAIN req'[d] :
                         /\ req'[d][i].stale <=> req'[d][1].stale
                         /\ req'[d][i].written => req'[d][i].done
                         /\ i <= Len(results'[d]) => req'[d][i].done \/ req'[d][i].cancel
  BY Zenon DEF CallsHold
<1>1. Len(req'[d]) = Len(req[d]) /\ DOMAIN req'[d] = DOMAIN req[d] /\ req'[d] \in Seq(Requests)
  BY DEF Renewed
<1>2. pc'[d] = "free" <=> req'[d] = <<>>
  <2>1. req'[d] = <<>> <=> req[d] = <<>>
    BY <1>1, RequestsOf, EmptySeq DEF CallInv
  <2> QED
    BY <2>1, Zenon DEF CallInv, CallsHold
<1>3. ASSUME NEW i \in DOMAIN req[d]
      PROVE  /\ req'[d][i].stale <=> req'[d][1].stale
             /\ req'[d][i].written => req'[d][i].done
             /\ i <= Len(results[d]) => req'[d][i].done \/ req'[d][i].cancel
  <2>1. /\ req[d][i].stale <=> req[d][1].stale
        /\ i <= Len(results[d]) => req[d][i].done \/ req[d][i].cancel
    BY Zenon DEF CallInv, CallsHold
  <2>2. 1 \in DOMAIN req[d]
    BY RequestsOf DEF CallInv
  <2>3. /\ req'[d][i].stale <=> req[d][i].stale \/ req'[d][1].stale
        /\ req[d][1].stale => req'[d][1].stale
        /\ req'[d][i].written => req'[d][i].done
        /\ req[d][i].done \/ req[d][i].cancel => req'[d][i].done \/ req'[d][i].cancel
    BY Zenon
  <2> QED
    BY <2>1, <2>3, Zenon
<1>4. Len(results'[d]) <= Len(req'[d])
  BY <1>1, Zenon DEF CallInv, CallsHold
<1> QED
  BY <1>1, <1>2, <1>3, <1>4

\* The owner answers its request, and has none.
LEMMA AnswerCalls ==
  ASSUME TypeOK, CallInv, active # None, NEW w \in BOOLEAN, Answer(w)
  PROVE  CallInv'
<1>1. UNCHANGED <<pc, results, pending, pendingBytes>> /\ active' = None
  BY Zenon DEF Answer, queue
<1>2. /\ Renewed
      /\ \A d \in Caller : \A i \in DOMAIN req[d] :
           IF ~active.orphan /\ <<d, i>> = active.id
           THEN /\ req'[d][i].done /\ (req'[d][i].written <=> w /\ ~req[d][i].cancel)
                /\ (req'[d][i].cancel <=> req[d][i].cancel) /\ (req'[d][i].stale <=> req[d][i].stale)
           ELSE req'[d][i] = req[d][i]
  BY AnswerMarks, Zenon DEF CallInv
<1>3. CallTypes' /\ ActiveType' /\ TakenHolds'
  BY <1>1, <1>2, Zenon DEF CallInv, CallTypes, ActiveType, Renewed, TakenHolds
<1>4. CallsHold'
  <2>1. ASSUME NEW d \in Caller, NEW i \in DOMAIN req[d]
        PROVE  /\ req'[d][i].stale <=> req[d][i].stale
               /\ req'[d][i].written => req'[d][i].done
               /\ req[d][i].done \/ req[d][i].cancel => req'[d][i].done \/ req'[d][i].cancel
    <3>1. req[d][i].written => req[d][i].done
      BY Zenon DEF CallInv, CallsHold
    <3>2. IF ~active.orphan /\ <<d, i>> = active.id
          THEN /\ req'[d][i].done /\ (req'[d][i].written <=> w /\ ~req[d][i].cancel)
               /\ (req'[d][i].cancel <=> req[d][i].cancel) /\ (req'[d][i].stale <=> req[d][i].stale)
          ELSE req'[d][i] = req[d][i]
      BY <1>2, Zenon
    <3> QED
      BY <3>1, <3>2
  <2>2. \A d \in Caller : \A i \in DOMAIN req[d] : 1 \in DOMAIN req[d]
    BY RequestsOf DEF CallInv
  <2>3. \A d \in Caller : \A i \in DOMAIN req[d] : req[d][i].stale <=> req[d][1].stale
    BY Zenon DEF CallInv, CallsHold
  <2>4. ASSUME NEW d \in Caller, NEW i \in DOMAIN req[d]
        PROVE  /\ req'[d][i].stale <=> req[d][i].stale \/ req'[d][1].stale
               /\ req[d][1].stale => req'[d][1].stale
    <3>1. /\ req'[d][i].stale <=> req[d][i].stale
          /\ req'[d][1].stale <=> req[d][1].stale
          /\ req[d][i].stale <=> req[d][1].stale
      BY <2>1, <2>2, <2>3
    <3> QED
      BY <3>1, Zenon
  <2> QED
    BY <1>1, <1>2, <2>1, <2>4, RenewedCalls
<1>5. QueueAccounted' /\ QueueIsFresh'
  <2>1. ASSUME NEW id \in Range(pending)
        PROVE  ~req'[id[1]][id[2]].done /\ ~req'[id[1]][id[2]].stale
    <3>1. /\ id = <<id[1], id[2]>> /\ id[1] \in Caller /\ id[2] \in DOMAIN req[id[1]]
          /\ ~req[id[1]][id[2]].done /\ ~req[id[1]][id[2]].stale
      BY QueuedAre, Zenon DEF CallInv, Of
    <3>2. ~(~active.orphan /\ id = active.id)
      BY Zenon DEF CallInv, TakenHolds
    <3>3. req'[id[1]][id[2]] = req[id[1]][id[2]]
      BY <1>2, <3>1, <3>2
    <3> QED
      BY <3>1, <3>3
  <2> QED
    BY <1>1, <1>2, <2>1, RenewedBytes DEF CallInv
<1> QED
  BY <1>3, <1>4, <1>5 DEF CallInv

\* A detach empties the queue.
LEMMA CancelCalls ==
  ASSUME TypeOK, CallInv, CancelPending, UNCHANGED <<pc, results, active>>,
         active = None \/ UNCHANGED owner
  PROVE  CallInv'
<1>1. pending' = <<>> /\ pendingBytes' = 0
  BY Zenon DEF CancelPending
<1>2. /\ Renewed
      /\ \A d \in Caller : \A i \in DOMAIN req[d] :
           /\ req'[d][i].done <=> req[d][i].done \/ Queued(<<d, i>>)
           /\ (req'[d][i].written <=> req[d][i].written) /\ (req'[d][i].stale <=> req[d][i].stale)
           /\ req[d][i].cancel => req'[d][i].cancel
           /\ Queued(<<d, i>>) => req'[d][i].cancel
  BY CancelMarks, Zenon
<1>3. Range(pending') = {} /\ IsInjective(pending') /\ Len(pending') = 0
      /\ pending' \in Seq(Caller \X Nat)
  BY <1>1, EmptySeq DEF Range, IsInjective
<1>4. CallTypes' /\ ActiveType'
  <2>1. pendingBytes' \in 0 .. MaxPendingBytes
    BY <1>1, WritesAssumption
  <2> QED
    BY <1>2, <1>3, <2>1, Zenon DEF CallInv, CallTypes, ActiveType, Renewed
<1>5. CallsHold'
  <2>1. \A d \in Caller : \A i \in DOMAIN req[d] : 1 \in DOMAIN req[d]
    BY RequestsOf DEF CallInv
  <2>2. ASSUME NEW d \in Caller, NEW i \in DOMAIN req[d]
        PROVE  /\ req'[d][i].stale <=> req[d][i].stale \/ req'[d][1].stale
               /\ req[d][1].stale => req'[d][1].stale
               /\ req'[d][i].written => req'[d][i].done
               /\ req[d][i].done \/ req[d][i].cancel => req'[d][i].done \/ req'[d][i].cancel
    <3>1. /\ req[d][i].stale <=> req[d][1].stale
          /\ req[d][i].written => req[d][i].done
      BY Zenon DEF CallInv, CallsHold
    <3>2. /\ req'[d][i].stale <=> req[d][i].stale
          /\ req'[d][1].stale <=> req[d][1].stale
          /\ req'[d][i].written <=> req[d][i].written
          /\ req[d][i].done => req'[d][i].done
          /\ req[d][i].cancel => req'[d][i].cancel
      BY <1>2, <2>1
    <3> QED
      BY <3>1, <3>2, Zenon
  <2> QED
    BY <1>2, <2>2, RenewedCalls
<1>6. QueueAccounted' /\ QueueIsFresh'
  <2>1. UNION {{id} \X DOMAIN req'[id[1]][id[2]].span.bytes : id \in Range(pending')} = {}
    BY <1>3
  <2>2. pendingBytes' = Cardinality(
          UNION {{id} \X DOMAIN req'[id[1]][id[2]].span.bytes : id \in Range(pending')})
    BY <1>1, <2>1, FS_EmptySet
  <2>3. Len(pending') <= MaxPending
    BY <1>3, WritesAssumption
  <2>4. \A id \in Range(pending') : FALSE
    BY <1>3
  <2> QED
    BY <1>3, <2>2, <2>3, <2>4, Zenon DEF QueueAccounted, QueueIsFresh
<1>7. TakenHolds'
  <2> SUFFICES ASSUME active # None
               PROVE  /\ owner' \in {"serves", "paused", "leaves"}
                      /\ ~active.orphan =>
                           /\ active.id[2] \in DOMAIN req'[active.id[1]]
                           /\ active.id \notin Range(pending')
                           /\ ~req'[active.id[1]][active.id[2]].done
                           /\ ~req'[active.id[1]][active.id[2]].stale
                           /\ req'[active.id[1]][active.id[2]].span = active.span
    BY Zenon DEF TakenHolds, Of
  <2>1. owner' \in {"serves", "paused", "leaves"}
    BY Zenon DEF CallInv, TakenHolds
  <2>2. CASE ~active.orphan
    <3>1. /\ active.id[1] \in Caller /\ active.id[2] \in DOMAIN req[active.id[1]]
          /\ active.id = <<active.id[1], active.id[2]>> /\ active.id \notin Range(pending)
          /\ ~req[active.id[1]][active.id[2]].done /\ ~req[active.id[1]][active.id[2]].stale
          /\ req[active.id[1]][active.id[2]].span = active.span
      <4>1. /\ active.id[2] \in DOMAIN req[active.id[1]] /\ active.id \notin Range(pending)
            /\ ~Of(active.id).done /\ ~Of(active.id).stale /\ Of(active.id).span = active.span
        BY <2>2, Zenon DEF CallInv, TakenHolds
      <4>2. active.id[1] \in Caller /\ active.id = <<active.id[1], active.id[2]>>
        BY DEF CallInv, ActiveType
      <4> QED
        BY <4>1, <4>2, Zenon DEF Of
    <3>2. ~Queued(<<active.id[1], active.id[2]>>)
      BY <3>1, Zenon DEF Queued
    <3> QED
      BY <1>2, <1>3, <2>1, <2>2, <3>1, <3>2 DEF Renewed
  <2> QED
    BY <2>1, <2>2
<1> QED
  BY <1>4, <1>5, <1>6, <1>7 DEF CallInv

\* A new session finds no request queued or taken.
LEMMA StaleCalls ==
  ASSUME TypeOK, CallInv, BeginSession, pending = <<>>
  PROVE  CallInv'
<1>1. UNCHANGED <<pc, results, pending, pendingBytes, active>> /\ owner = "gone"
  BY Zenon DEF BeginSession, queue
<1>2. /\ Renewed
      /\ \A d \in Caller : \A i \in DOMAIN req[d] :
           /\ (req'[d][i].done <=> req[d][i].done) /\ (req'[d][i].written <=> req[d][i].written)
           /\ (req'[d][i].cancel <=> req[d][i].cancel) /\ req'[d][i].stale
  BY StaleMarks, Zenon
<1>3. active = None
  BY <1>1 DEF CallInv, TakenHolds
<1>4. CallTypes' /\ ActiveType' /\ TakenHolds'
  BY <1>1, <1>2, <1>3, Zenon DEF CallInv, CallTypes, ActiveType, Renewed, TakenHolds
<1>5. CallsHold'
  <2>1. \A d \in Caller : \A i \in DOMAIN req[d] : 1 \in DOMAIN req[d]
    BY RequestsOf DEF CallInv
  <2>2. ASSUME NEW d \in Caller, NEW i \in DOMAIN req[d]
        PROVE  /\ req'[d][i].stale <=> req[d][i].stale \/ req'[d][1].stale
               /\ req[d][1].stale => req'[d][1].stale
               /\ req'[d][i].written => req'[d][i].done
               /\ req[d][i].done \/ req[d][i].cancel => req'[d][i].done \/ req'[d][i].cancel
    <3>1. req[d][i].written => req[d][i].done
      BY Zenon DEF CallInv, CallsHold
    <3>2. /\ req'[d][i].stale /\ req'[d][1].stale
          /\ req'[d][i].written <=> req[d][i].written
          /\ req[d][i].done <=> req'[d][i].done
          /\ req[d][i].cancel <=> req'[d][i].cancel
      BY <1>2, <2>1
    <3> QED
      BY <3>1, <3>2, Zenon
  <2> QED
    BY <1>1, <1>2, <2>2, RenewedCalls
<1>6. QueueAccounted' /\ QueueIsFresh'
  <2>1. Range(pending) = {}
    BY EmptySeq DEF Range
  <2> QED
    BY <1>1, <1>2, <2>1, RenewedBytes DEF CallInv
<1> QED
  BY <1>4, <1>5, <1>6 DEF CallInv

\* The head leaves the queue.
LEMMA TailAre ==
  ASSUME NEW S, pending \in Seq(S), IsInjective(pending), pending # <<>>
  PROVE  /\ Tail(pending) \in Seq(S) /\ IsInjective(Tail(pending))
         /\ Len(Tail(pending)) <= Len(pending)
         /\ Head(pending) \in Range(pending)
         /\ Range(Tail(pending)) = Range(pending) \ {Head(pending)}
<1>1. /\ Tail(pending) \in Seq(S) /\ Len(pending) \in Nat \ {0}
      /\ Len(Tail(pending)) = Len(pending) - 1 /\ DOMAIN pending = 1 .. Len(pending)
      /\ DOMAIN Tail(pending) = 1 .. Len(pending) - 1
      /\ \A i \in 1 .. Len(pending) - 1 : Tail(pending)[i] = pending[i + 1]
      /\ Head(pending) = pending[1]
  BY HeadTailProperties, LenProperties, EmptySeq
<1>2. IsInjective(Tail(pending))
  <2>1. \A i, j \in 1 .. Len(pending) - 1 : pending[i + 1] = pending[j + 1] => i + 1 = j + 1
    BY <1>1 DEF IsInjective
  <2> QED
    BY <1>1, <2>1 DEF IsInjective
<1>3. Head(pending) \in Range(pending)
  BY <1>1 DEF Range
<1>4. \A x : x \in Range(pending) <=> \E i \in 1 .. Len(pending) : x = pending[i]
  BY <1>1 DEF Range
<1>5. \A x : x \in Range(Tail(pending)) <=> \E i \in 1 .. Len(pending) - 1 : x = pending[i + 1]
  BY <1>1 DEF Range
<1>6. \A i \in 1 .. Len(pending) - 1 : pending[i + 1] \in Range(pending) /\ pending[i + 1] # pending[1]
  BY <1>1 DEF Range, IsInjective
<1>7. \A i \in 1 .. Len(pending) : i # 1 => (i - 1) \in 1 .. Len(pending) - 1 /\ (i - 1) + 1 = i
  BY <1>1
<1>8. \A x : x \in Range(Tail(pending)) <=> x \in Range(pending) \ {Head(pending)}
  <2>1. ASSUME NEW x \in Range(Tail(pending)) PROVE x \in Range(pending) \ {Head(pending)}
    BY <1>1, <1>5, <1>6
  <2>2. ASSUME NEW x \in Range(pending) \ {Head(pending)} PROVE x \in Range(Tail(pending))
    <3>1. PICK i \in 1 .. Len(pending) : x = pending[i]
      BY <1>4
    <3>2. i # 1
      BY <1>1, <3>1
    <3>3. (i - 1) \in 1 .. Len(pending) - 1 /\ x = pending[(i - 1) + 1]
      BY <1>7, <3>1, <3>2
    <3> QED
      BY <1>5, <3>3
  <2> QED
    BY <2>1, <2>2
<1> QED
  BY <1>1, <1>2, <1>3, <1>8

\* The owner takes the oldest request.
LEMMA TakeCalls ==
  ASSUME TypeOK, CallInv, Take
  PROVE  CallInv'
<1> DEFINE id == Head(pending)
           r == req[id[1]][id[2]]
<1>1. /\ UNCHANGED <<req, pc, results, owner>> /\ pending' = Tail(pending) /\ pending # <<>>
      /\ owner \in {"serves", "paused", "leaves"} /\ active = None
      /\ active' = [at |-> "taken", id |-> id, span |-> r.span, stale |-> r.stale,
                    submitted |-> r.submitted, orphan |-> FALSE]
      /\ pendingBytes' = pendingBytes - Size(r.span)
  BY Zenon DEF Take, Serving, calls, loop
<1>2. /\ Tail(pending) \in Seq(Caller \X Nat) /\ IsInjective(Tail(pending))
      /\ Len(Tail(pending)) <= Len(pending) /\ id \in Range(pending)
      /\ Range(Tail(pending)) = Range(pending) \ {id}
  BY <1>1, TailAre DEF CallInv, CallTypes, QueueAccounted
<1>3. /\ id \in Caller \X Nat /\ id = <<id[1], id[2]>> /\ id[1] \in Caller
      /\ id[2] \in DOMAIN req[id[1]] /\ r \in Requests /\ ~r.done /\ ~r.stale
  BY <1>2, QueuedAre, Zenon DEF CallInv, Of
<1> HIDE DEF id
<1>4. ActiveType'
  <2>1. r.span \in Span /\ r.stale \in BOOLEAN /\ r.submitted \in {"Running", "Paused"}
    BY <1>3, Zenon DEF Requests
  <2> HIDE DEF r
  <2> QED
    BY <1>1, <1>3, <2>1, Zenon DEF ActiveType
<1>5. /\ pendingBytes' \in 0 .. MaxPendingBytes
      /\ pendingBytes' = Cardinality(CellsOf(Range(pending')))
  <2> DEFINE old == {id} \X DOMAIN r.span.bytes
  <2>1. IsFiniteSet(DOMAIN r.span.bytes)
    BY <1>3, Marked, WritesAssumption
  <2>2. IsFiniteSet(old) /\ Cardinality(old) = Cardinality(DOMAIN r.span.bytes)
    <3>1. IsFiniteSet({id}) /\ Cardinality({id}) = 1
      BY FS_Singleton
    <3>2. /\ IsFiniteSet(old)
          /\ Cardinality(old) = Cardinality({id}) * Cardinality(DOMAIN r.span.bytes)
      BY <2>1, <3>1, FS_Product
    <3>3. Cardinality(DOMAIN r.span.bytes) \in Nat
      BY <2>1, FS_CardinalityType
    <3> HIDE DEF old, r
    <3>4. Cardinality({id}) * Cardinality(DOMAIN r.span.bytes) = Cardinality(DOMAIN r.span.bytes)
      BY <3>1, <3>3
    <3> QED
      BY <3>2, <3>4, Zenon
  <2>3. CellsOf(Range(pending')) = CellsOf(Range(pending)) \ old
    <3>1. \A i : DOMAIN Of(i).span.bytes = DOMAIN Of(i)'.span.bytes
      BY <1>1, Zenon DEF Of
    <3>2. CellsOf(Range(pending')) = UNION {{i} \X DOMAIN Of(i).span.bytes : i \in Range(pending) \ {id}}
      BY <1>1, <1>2, <3>1, Zenon DEF CellsOf
    <3>3. old = {id} \X DOMAIN Of(id).span.bytes
      BY Zenon DEF Of
    <3> HIDE DEF old
    <3> QED
      BY <3>2, <3>3 DEF CellsOf
  <2>4. CellsOf(Range(pending)) \cap old = old
    BY <1>2 DEF CellsOf, Of
  <2>5. /\ IsFiniteSet(CellsOf(Range(pending)))
        /\ pendingBytes = Cardinality(CellsOf(Range(pending)))
    BY QueueBytes DEF CallInv
  <2> HIDE DEF old, r
  <2>6. /\ IsFiniteSet(CellsOf(Range(pending')))
        /\ Cardinality(CellsOf(Range(pending'))) = pendingBytes - Cardinality(old)
    BY <2>3, <2>4, <2>5, FS_Difference
  <2>7. pendingBytes' = Cardinality(CellsOf(Range(pending')))
    BY <1>1, <2>2, <2>6 DEF Size, r
  <2>8. Cardinality(CellsOf(Range(pending'))) \in Nat /\ Cardinality(old) \in Nat
    BY <2>2, <2>6, FS_CardinalityType
  <2>9. pendingBytes \in 0 .. MaxPendingBytes /\ MaxPendingBytes \in Nat
    BY WritesAssumption DEF CallInv, CallTypes
  <2>10. pendingBytes' = pendingBytes - Cardinality(old)
    BY <2>6, <2>7
  <2>11. pendingBytes' \in Nat /\ pendingBytes' <= MaxPendingBytes
    BY <2>7, <2>8, <2>9, <2>10
  <2> QED
    BY <2>7, <2>9, <2>11
<1>6. CallTypes'
  BY <1>1, <1>2, <1>5 DEF CallInv, CallTypes
<1>7. CallsHold'
  BY <1>1, Zenon DEF CallInv, CallsHold
<1>8. QueueAccounted' /\ QueueIsFresh'
  <2>1. Len(pending') <= MaxPending
    <3>1. Len(pending) \in Nat /\ Len(Tail(pending)) \in Nat
      BY <1>2, LenProperties DEF CallInv, CallTypes
    <3>2. Len(pending) <= MaxPending /\ MaxPending \in Nat
      BY WritesAssumption DEF CallInv, QueueAccounted
    <3> QED
      BY <1>1, <1>2, <3>1, <3>2
  <2>2. \A x \in Range(pending') : x \in Range(pending)
    BY <1>1, <1>2
  <2>3. pendingBytes' = Cardinality(UNION {{x} \X DOMAIN req'[x[1]][x[2]].span.bytes :
                                           x \in Range(pending')})
    BY <1>1, <1>5, Zenon DEF CellsOf, Of
  <2> QED
    BY <1>1, <1>2, <2>1, <2>2, <2>3, Zenon DEF CallInv, QueueAccounted, QueueIsFresh, Of
<1>9. TakenHolds'
  <2>1. /\ active'.id = id /\ active'.span = r.span /\ id \notin Range(pending')
    BY <1>1, <1>2
  <2> QED
    BY <1>1, <1>3, <2>1, Zenon DEF TakenHolds, Of
<1> QED
  BY <1>4, <1>6, <1>7, <1>8, <1>9 DEF CallInv

\* A call's requests join the queue.
LEMMA AppendedAre ==
  ASSUME NEW S, pending \in Seq(S), IsInjective(pending), NEW more \in Seq(S),
         IsInjective(more), \A x \in Range(pending) : x \notin Range(more)
  PROVE  /\ pending \o more \in Seq(S) /\ IsInjective(pending \o more)
         /\ Len(pending \o more) = Len(pending) + Len(more)
         /\ Range(pending \o more) = Range(pending) \cup Range(more)
<1> DEFINE m == Len(pending)
           n == Len(more)
           all == pending \o more
<1>1. /\ m \in Nat /\ n \in Nat /\ DOMAIN pending = 1 .. m /\ DOMAIN more = 1 .. n
  BY LenProperties
<1>2. /\ all \in Seq(S) /\ Len(all) = m + n
      /\ \A i \in 1 .. m + n : all[i] = IF i <= m THEN pending[i] ELSE more[i - m]
  BY ConcatProperties
<1>3. DOMAIN all = 1 .. m + n
  BY <1>2, LenProperties
<1> HIDE DEF m, n, all
<1>4. \A i \in 1 .. m : i \in 1 .. m + n /\ all[i] = pending[i] /\ all[i] \in Range(pending)
  <2> SUFFICES ASSUME NEW i \in 1 .. m
               PROVE  i \in 1 .. m + n /\ all[i] = pending[i] /\ pending[i] \in Range(pending)
    OBVIOUS
  <2>1. i \in 1 .. m + n /\ i <= m
    BY <1>1
  <2>2. pending[i] \in Range(pending)
    BY <1>1 DEF Range
  <2> QED
    BY <1>2, <2>1, <2>2
<1>5. \A i \in 1 .. n : m + i \in 1 .. m + n /\ all[m + i] = more[i] /\ all[m + i] \in Range(more)
  <2> SUFFICES ASSUME NEW i \in 1 .. n
               PROVE  m + i \in 1 .. m + n /\ all[m + i] = more[i] /\ more[i] \in Range(more)
    OBVIOUS
  <2>1. m + i \in 1 .. m + n /\ ~(m + i <= m) /\ (m + i) - m = i
    BY <1>1
  <2>2. more[i] \in Range(more)
    BY <1>1 DEF Range
  <2> QED
    BY <1>2, <2>1, <2>2
<1>6. \A i \in 1 .. m + n : i \in 1 .. m \/ \E j \in 1 .. n : i = m + j
  <2> SUFFICES ASSUME NEW i \in 1 .. m + n, i \notin 1 .. m
               PROVE  \E j \in 1 .. n : i = m + j
    OBVIOUS
  <2>1. i - m \in 1 .. n /\ i = m + (i - m)
    BY <1>1
  <2> QED
    BY <2>1
<1>7. IsInjective(all)
  <2>1. \A i, j \in 1 .. m : pending[i] = pending[j] => i = j
    BY <1>1 DEF IsInjective
  <2>2. \A i, j \in 1 .. n : more[i] = more[j] => m + i = m + j
    BY <1>1 DEF IsInjective
  <2> SUFFICES ASSUME NEW i \in 1 .. m + n, NEW j \in 1 .. m + n, all[i] = all[j]
               PROVE  i = j
    BY <1>3 DEF IsInjective
  <2>3. CASE i \in 1 .. m /\ j \in 1 .. m
    BY <1>4, <2>1, <2>3
  <2>4. CASE i \notin 1 .. m /\ j \notin 1 .. m
    BY <1>5, <1>6, <2>2, <2>4
  <2>5. CASE i \in 1 .. m <=> j \notin 1 .. m
    BY <1>4, <1>5, <1>6, <2>5
  <2> QED
    BY <2>3, <2>4, <2>5
<1>8. Range(all) = Range(pending) \cup Range(more)
  <2>1. \A x : x \in Range(all) <=> \E i \in 1 .. m + n : x = all[i]
    BY <1>3 DEF Range
  <2>2. \A x : x \in Range(pending) <=> \E i \in 1 .. m : x = pending[i]
    BY <1>1 DEF Range
  <2>3. \A x : x \in Range(more) <=> \E i \in 1 .. n : x = more[i]
    BY <1>1 DEF Range
  <2>4. \A x : x \in Range(all) => x \in Range(pending) \cup Range(more)
    BY <1>4, <1>5, <1>6, <2>1
  <2>5. \A x : x \in Range(pending) \cup Range(more) => x \in Range(all)
    BY <1>4, <1>5, <2>1, <2>2, <2>3
  <2> QED
    BY <2>4, <2>5
<1> QED
  BY <1>2, <1>7, <1>8 DEF m, n, all

\* A new call's requests have all that the queue asks of them.
LEMMA SubmitCalls ==
  ASSUME TypeOK, CallInv, NEW c \in Caller, Submit(c)
  PROVE  CallInv' /\ <<c, 1>> \in Range(pending')
<1>1. PICK call \in Calls[c] :
        /\ Len(pending) + Len(call) <= MaxPending
        /\ pendingBytes + Total(call, DOMAIN call) <= MaxPendingBytes
        /\ req' = [req EXCEPT ![c] = [i \in DOMAIN call |-> Request(call[i])]]
        /\ pending' = pending \o [i \in DOMAIN call |-> <<c, i>>]
        /\ pendingBytes' = pendingBytes + Total(call, DOMAIN call)
  BY Zenon DEF Submit
<1>2. /\ pc[c] = "free" /\ pc' = [pc EXCEPT ![c] = IF state = "Running" THEN "wake" ELSE "waits"]
      /\ UNCHANGED <<results, active, owner>>
  BY Zenon DEF Submit, loop
<1> DEFINE more == [i \in DOMAIN call |-> <<c, i>>]
           mine == [i \in DOMAIN call |-> Request(call[i])]
           n == Len(call)
<1>3. /\ call \in Seq(Span) /\ n \in Nat /\ n >= 1 /\ DOMAIN call = 1 .. n
      /\ \A i \in 1 .. n : call[i] \in Span
  <2>1. call \in Seq(Span) /\ call # <<>>
    BY WritesAssumption
  <2> QED
    BY <2>1, LenProperties, EmptySeq, ElementOfSeq
<1>4. /\ mine \in Seq(Requests) /\ Len(mine) = n /\ DOMAIN mine = 1 .. n
      /\ \A i \in 1 .. n : /\ mine[i].span = call[i] /\ ~mine[i].stale /\ ~mine[i].cancel
                           /\ ~mine[i].done /\ ~mine[i].written
  <2>1. \A i \in 1 .. n : Request(call[i]) \in Requests
    BY <1>3 DEF Request, Requests, TypeOK
  <2>2. mine = [i \in 1 .. n |-> Request(call[i])]
    BY <1>3
  <2>3. mine \in Seq(Requests)
    BY <1>3, <2>1, <2>2, IsASeq
  <2>4. Len(mine) = n /\ DOMAIN mine = 1 .. n
    BY <1>3, <2>3, LenProperties
  <2> QED
    BY <2>2, <2>3, <2>4 DEF Request
<1>5. /\ more \in Seq(Caller \X Nat) /\ IsInjective(more) /\ Len(more) = n
      /\ Range(more) = {c} \X (1 .. n)
  <2>1. more = [i \in 1 .. n |-> <<c, i>>]
    BY <1>3
  <2>2. more \in Seq(Caller \X Nat)
    BY <1>3, <2>1, IsASeq
  <2>3. Len(more) = n /\ DOMAIN more = 1 .. n
    BY <1>3, <2>2, LenProperties
  <2> QED
    BY <2>1, <2>2, <2>3 DEF IsInjective, Range
<1>6. /\ req[c] = <<>> /\ \A i : i \notin DOMAIN req[c]
      /\ Len(results[c]) = 0
  <2>1. req[c] = <<>> /\ Len(results[c]) <= Len(req[c])
    BY <1>2, Zenon DEF CallInv, CallsHold
  <2>2. Len(results[c]) \in Nat
    BY RequestsOf DEF CallInv
  <2>3. Len(<<>>) = 0 /\ DOMAIN <<>> = {}
    BY EmptySeq
  <2> QED
    BY <2>1, <2>2, <2>3
<1>7. \A id \in Range(pending) : /\ id[1] \in Caller \ {c} /\ id \notin Range(more)
                                 /\ id = <<id[1], id[2]>>
  <2>1. \A id \in Range(pending) : id[1] \in Caller /\ id[1] # c /\ id = <<id[1], id[2]>>
    BY <1>6, QueuedAre DEF CallInv
  <2> QED
    BY <1>5, <2>1
<1> HIDE DEF more, mine, n
<1>8. /\ pending' \in Seq(Caller \X Nat) /\ IsInjective(pending')
      /\ Len(pending') = Len(pending) + n
      /\ Range(pending') = Range(pending) \cup {c} \X (1 .. n)
  <2>1. pending' = pending \o more
    BY <1>1 DEF more
  <2>2. pending \in Seq(Caller \X Nat) /\ IsInjective(pending)
    BY DEF CallInv, CallTypes, QueueAccounted
  <2>3. /\ pending \o more \in Seq(Caller \X Nat) /\ IsInjective(pending \o more)
        /\ Len(pending \o more) = Len(pending) + Len(more)
        /\ Range(pending \o more) = Range(pending) \cup Range(more)
    BY <1>5, <1>7, <2>2, AppendedAre
  <2> QED
    BY <1>5, <2>1, <2>3
<1>9. /\ req' \in [Caller -> Seq(Requests)] /\ req'[c] = mine
      /\ \A d \in Caller : d # c => req'[d] = req[d]
  BY <1>1, <1>4 DEF CallInv, CallTypes, mine
<1>10. pendingBytes' = Cardinality(UNION {{id} \X DOMAIN req'[id[1]][id[2]].span.bytes :
                                          id \in Range(pending')})
  <2> DEFINE new == UNION {{<<c, i>>} \X DOMAIN call[i].bytes : i \in 1 .. n}
             now == UNION {{id} \X DOMAIN req'[id[1]][id[2]].span.bytes : id \in Range(pending')}
  <2>1. IsFiniteSet(new) /\ Cardinality(new) = Total(call, DOMAIN call)
    <3>1. DOMAIN call \in SUBSET DOMAIN call /\ DOMAIN call = 1 .. n
      BY <1>3 DEF n
    <3>2. new = CallCells(c, call, DOMAIN call)
      BY <3>1, Zenon DEF CallCells
    <3> HIDE DEF new
    <3> QED
      BY <1>3, <3>1, <3>2, CallBytes
  <2>2. /\ IsFiniteSet(CellsOf(Range(pending)))
        /\ pendingBytes = Cardinality(CellsOf(Range(pending)))
    BY QueueBytes DEF CallInv
  <2>3. now = CellsOf(Range(pending)) \cup new
    <3>1. \A id \in Range(pending) : req'[id[1]][id[2]] = Of(id)
      BY <1>7, <1>9 DEF Of
    <3>2. \A i \in 1 .. n : req'[<<c, i>>[1]][<<c, i>>[2]].span = call[i]
      BY <1>4, <1>9
    <3>3. \A x : x \in now <=> \/ \E id \in Range(pending) : x \in {id} \X DOMAIN Of(id).span.bytes
                               \/ \E i \in 1 .. n : x \in {<<c, i>>} \X DOMAIN call[i].bytes
      <4>1. \A x : x \in now <=> \E id \in Range(pending') : x \in {id} \X DOMAIN req'[id[1]][id[2]].span.bytes
        OBVIOUS
      <4>2. \A id : id \in Range(pending') <=> id \in Range(pending) \/ \E i \in 1 .. n : id = <<c, i>>
        BY <1>8
      <4> QED
        BY <3>1, <3>2, <4>1, <4>2
    <3>4. \A x : x \in CellsOf(Range(pending)) <=> \E id \in Range(pending) : x \in {id} \X DOMAIN Of(id).span.bytes
      BY DEF CellsOf
    <3>5. \A x : x \in new <=> \E i \in 1 .. n : x \in {<<c, i>>} \X DOMAIN call[i].bytes
      OBVIOUS
    <3> HIDE DEF now, new
    <3> QED
      BY <3>3, <3>4, <3>5
  <2>4. CellsOf(Range(pending)) \cap new = {}
    BY <1>7 DEF CellsOf
  <2>5. pendingBytes' = pendingBytes + Cardinality(new)
    BY <1>1, <2>1
  <2> HIDE DEF new, now
  <2>6. Cardinality(now) = Cardinality(CellsOf(Range(pending))) + Cardinality(new) - 0
    BY <2>1, <2>2, <2>3, <2>4, FS_Union, FS_EmptySet
  <2>7. Cardinality(now) = pendingBytes'
    <3>1. Cardinality(CellsOf(Range(pending))) \in Nat /\ Cardinality(new) \in Nat
      BY <2>1, <2>2, FS_CardinalityType
    <3> QED
      BY <2>2, <2>5, <2>6, <3>1
  <2> QED
    BY <2>7, Zenon DEF now
<1>11. pendingBytes' \in 0 .. MaxPendingBytes
  <2>1. pendingBytes \in 0 .. MaxPendingBytes /\ MaxPendingBytes \in Nat
    BY WritesAssumption DEF CallInv, CallTypes
  <2>2. Total(call, DOMAIN call) \in Nat
    <3>1. DOMAIN call \in SUBSET DOMAIN call
      OBVIOUS
    <3> QED
      BY <1>3, <3>1, CallBytes, FS_CardinalityType
  <2> QED
    BY <1>1, <2>1, <2>2
<1>12. CallTypes' /\ ActiveType'
  BY <1>2, <1>8, <1>9, <1>11 DEF CallInv, CallTypes, ActiveType
<1>13. CallsHold'
  <2> SUFFICES ASSUME NEW d \in Caller
               PROVE  /\ pc'[d] = "free" <=> req'[d] = <<>>
                      /\ Len(results'[d]) <= Len(req'[d])
                      /\ \A i \in DOMAIN req'[d] :
                           /\ req'[d][i].stale <=> req'[d][1].stale
                           /\ req'[d][i].written => req'[d][i].done
                           /\ i <= Len(results'[d]) => req'[d][i].done \/ req'[d][i].cancel
    BY Zenon DEF CallsHold
  <2>1. CASE d = c
    <3>1. pc'[d] # "free"
      BY <1>2, <2>1 DEF CallInv, CallTypes
    <3>2. req'[d] # <<>> /\ Len(req'[d]) = n
      BY <1>3, <1>4, <1>9, <2>1, EmptySeq DEF n
    <3>3. Len(results'[d]) = 0
      BY <1>2, <1>6, <2>1
    <3>4. n \in Nat /\ n >= 1
      BY <1>3 DEF n
    <3>5. \A i \in DOMAIN req'[d] : /\ ~req'[d][i].stale /\ ~req'[d][1].stale
                                    /\ ~req'[d][i].written /\ ~(i <= Len(results'[d]))
      BY <1>4, <1>9, <2>1, <3>3, <3>4
    <3>6. Len(results'[d]) <= Len(req'[d])
      BY <3>2, <3>3, <3>4
    <3> QED
      BY <3>1, <3>2, <3>5, <3>6, Zenon
  <2>2. CASE d # c
    <3>1. pc'[d] = pc[d] /\ req'[d] = req[d] /\ results'[d] = results[d]
      BY <1>2, <1>9, <2>2 DEF CallInv, CallTypes
    <3> QED
      BY <3>1, Zenon DEF CallInv, CallsHold
  <2> QED
    BY <2>1, <2>2
<1>14. QueueAccounted' /\ QueueIsFresh'
  <2>1. Len(pending') <= MaxPending
    BY <1>1, <1>8 DEF n
  <2>2. ASSUME NEW id \in Range(pending')
        PROVE  /\ id[2] \in DOMAIN req'[id[1]] /\ ~req'[id[1]][id[2]].done
               /\ ~req'[id[1]][id[2]].stale
    <3>1. CASE id \in Range(pending)
      <4>1. req'[id[1]] = req[id[1]]
        BY <1>7, <1>9, <3>1
      <4> QED
        BY <3>1, <4>1, Zenon DEF CallInv, QueueAccounted, QueueIsFresh, Of
    <3>2. CASE id \in {c} \X (1 .. n)
      BY <1>4, <1>9, <3>2
    <3> QED
      BY <1>8, <3>1, <3>2
  <2>4. QueueAccounted'
    BY <1>8, <1>10, <2>1, <2>2, Zenon DEF QueueAccounted
  <2> QED
    BY <2>2, <2>4, Zenon DEF QueueIsFresh, Of
<1>15. TakenHolds'
  <2> SUFFICES ASSUME active # None, ~active.orphan
               PROVE  /\ active.id[2] \in DOMAIN req'[active.id[1]]
                      /\ active.id \notin Range(pending')
                      /\ ~req'[active.id[1]][active.id[2]].done
                      /\ ~req'[active.id[1]][active.id[2]].stale
                      /\ req'[active.id[1]][active.id[2]].span = active.span
    BY <1>2, Zenon DEF CallInv, TakenHolds, Of
  <2>1. /\ active.id[1] \in Caller /\ active.id[2] \in DOMAIN req[active.id[1]]
        /\ active.id \notin Range(pending)
        /\ ~req[active.id[1]][active.id[2]].done /\ ~req[active.id[1]][active.id[2]].stale
        /\ req[active.id[1]][active.id[2]].span = active.span
    BY DEF CallInv, ActiveType, TakenHolds, Of
  <2>2. active.id[1] # c
    BY <1>6, <2>1
  <2>3. req'[active.id[1]] = req[active.id[1]]
    BY <1>9, <2>1, <2>2
  <2>4. active.id \notin Range(pending')
    BY <1>8, <2>1, <2>2
  <2> QED
    BY <2>1, <2>3, <2>4
<1>16. <<c, 1>> \in Range(pending')
  <2>1. 1 \in 1 .. n
    BY <1>3 DEF n
  <2> QED
    BY <1>8, <2>1
<1> QED
  BY <1>12, <1>13, <1>14, <1>15, <1>16 DEF CallInv

\* Every request that a returning call leaves in the queue goes with it.
LEMMA LeftAre ==
  ASSUME CallInv, NEW c \in Caller, Len(results[c]) = Len(req[c])
  PROVE  /\ \A id : id \in {c} \X Left(c) <=> id \in Range(pending) /\ id[1] = c
         /\ Left(c) \in SUBSET (DOMAIN req[c])
<1>1. ASSUME NEW id \in Range(pending), id[1] = c
      PROVE  id \in {c} \X Left(c)
  <2>1. /\ id = <<c, id[2]>> /\ id[2] \in DOMAIN req[c] /\ ~req[c][id[2]].done
    BY <1>1, QueuedAre, Zenon DEF CallInv, Of
  <2>2. id[2] <= Len(results[c])
    BY <2>1, RequestsOf DEF CallInv
  <2>3. req[c][id[2]].cancel
    BY <2>1, <2>2, Zenon DEF CallInv, CallsHold
  <2>4. Queued(<<c, id[2]>>)
    BY <2>1, Zenon DEF Queued
  <2>5. id[2] \in Left(c)
    BY <2>1, <2>3, <2>4, Zenon DEF Left
  <2> QED
    BY <2>1, <2>5
<1>2. ASSUME NEW id \in {c} \X Left(c)
      PROVE  id \in Range(pending) /\ id[1] = c
  <2>1. id = <<c, id[2]>> /\ id[2] \in Left(c)
    OBVIOUS
  <2> QED
    BY <2>1 DEF Left, Queued
<1>3. Left(c) \in SUBSET (DOMAIN req[c])
  BY DEF Left
<1> QED
  BY <1>1, <1>2, <1>3

\* A call that returns leaves nothing behind.
LEMMA ReturnCalls ==
  ASSUME TypeOK, CallInv, NEW c \in Caller, Return(c)
  PROVE  CallInv' /\ \A id : id \in Range(pending') <=> id \in Range(pending) /\ id[1] # c
<1> DEFINE I == {n \in DOMAIN pending : pending[n] \notin {c} \X Left(c)}
<1>1. /\ pc[c] = "waits" /\ Len(results[c]) = Len(req[c]) /\ pending' = Kept(I)
      /\ pendingBytes' = pendingBytes - Total(Spans(c), Left(c))
      /\ active' = IF active.at # "none" /\ active.id[1] = c
                   THEN [active EXCEPT !.orphan = TRUE] ELSE active
      /\ req' = [req EXCEPT ![c] = <<>>] /\ results' = [results EXCEPT ![c] = <<>>]
      /\ pc' = [pc EXCEPT ![c] = "free"] /\ UNCHANGED owner
  BY Zenon DEF Return, loop
<1>2. /\ \A id : id \in {c} \X Left(c) <=> id \in Range(pending) /\ id[1] = c
      /\ Left(c) \in SUBSET (DOMAIN req[c])
  BY <1>1, LeftAre
<1>3. /\ pending' \in Seq(Caller \X Nat) /\ IsInjective(pending')
      /\ Len(pending') <= Len(pending)
      /\ \A id : id \in Range(pending') <=> id \in Range(pending) /\ id[1] # c
  <2>1. pending \in Seq(Caller \X Nat) /\ IsInjective(pending)
    BY DEF CallInv, CallTypes, QueueAccounted
  <2>2. I \in SUBSET (DOMAIN pending)
    OBVIOUS
  <2>3. \A id : id \in {pending[i] : i \in I} <=> id \in Range(pending) /\ id \notin {c} \X Left(c)
    BY DEF Range
  <2> HIDE DEF I
  <2>4. /\ Kept(I) \in Seq(Caller \X Nat) /\ IsInjective(Kept(I)) /\ Len(Kept(I)) <= Len(pending)
        /\ Range(Kept(I)) = {pending[i] : i \in I}
    BY <2>1, <2>2, KeptAre
  <2>5. \A id : id \in Range(pending') <=> id \in Range(pending) /\ id \notin {c} \X Left(c)
    BY <1>1, <2>3, <2>4, Zenon
  <2>6. \A id : id \in Range(pending') <=> id \in Range(pending) /\ id[1] # c
    BY <1>2, <2>5, Zenon
  <2> QED
    BY <1>1, <2>4, <2>6
<1> HIDE DEF I
<1>4. /\ req' \in [Caller -> Seq(Requests)] /\ req'[c] = <<>>
      /\ results' \in [Caller -> Seq({"written", "refused"})] /\ results'[c] = <<>>
      /\ pc' \in [Caller -> {"free", "wake", "waits"}] /\ pc'[c] = "free"
      /\ \A d \in Caller : d # c => req'[d] = req[d] /\ results'[d] = results[d] /\ pc'[d] = pc[d]
  BY <1>1, EmptySeq DEF CallInv, CallTypes
<1>5. \A id \in Range(pending') : id[1] \in Caller /\ req'[id[1]] = req[id[1]] /\ id \in Range(pending)
  BY <1>3, <1>4, QueuedAre DEF CallInv
<1>6. /\ pendingBytes' \in 0 .. MaxPendingBytes
      /\ pendingBytes' = Cardinality(UNION {{id} \X DOMAIN req'[id[1]][id[2]].span.bytes :
                                            id \in Range(pending')})
  <2> DEFINE all == CellsOf(Range(pending))
             now == UNION {{id} \X DOMAIN req'[id[1]][id[2]].span.bytes : id \in Range(pending')}
             gone == CallCells(c, Spans(c), Left(c))
  <2>1. IsFiniteSet(gone) /\ Cardinality(gone) = Total(Spans(c), Left(c))
    <3>1. /\ Len(req[c]) \in Nat /\ DOMAIN req[c] = 1 .. Len(req[c])
          /\ \A i \in DOMAIN req[c] : req[c][i].span \in Span
      BY RequestsOf, Marked DEF CallInv
    <3>2. Spans(c) = [i \in 1 .. Len(req[c]) |-> req[c][i].span] /\ DOMAIN Spans(c) = DOMAIN req[c]
      BY <3>1 DEF Spans
    <3>3. Spans(c) \in Seq(Span)
      BY <3>1, <3>2, IsASeq
    <3> QED
      BY <1>2, <3>2, <3>3, CallBytes
  <2>2. IsFiniteSet(all) /\ pendingBytes = Cardinality(all)
    BY QueueBytes DEF CallInv
  <2>3. \A x : x \in all <=> \E id \in Range(pending) : x \in {id} \X DOMAIN Of(id).span.bytes
    BY DEF CellsOf
  <2>4. \A x : x \in gone <=> \E id \in Range(pending) : id[1] = c /\ x \in {id} \X DOMAIN Of(id).span.bytes
    <3>1. \A i \in Left(c) : Spans(c)[i].bytes = Of(<<c, i>>).span.bytes
      BY <1>2 DEF Spans, Of
    <3>2. \A x : x \in gone <=> \E i \in Left(c) : x \in {<<c, i>>} \X DOMAIN Spans(c)[i].bytes
      BY DEF CallCells
    <3>3. \A x : x \in gone <=> \E i \in Left(c) : x \in {<<c, i>>} \X DOMAIN Of(<<c, i>>).span.bytes
      BY <3>1, <3>2
    <3>4. \A id : id \in Range(pending) /\ id[1] = c <=> \E i \in Left(c) : id = <<c, i>>
      <4>1. \A id : id \in {c} \X Left(c) <=> \E i \in Left(c) : id = <<c, i>>
        OBVIOUS
      <4> QED
        BY <1>2, <4>1, Zenon
    <3> HIDE DEF gone
    <3> QED
      BY <3>3, <3>4, Zenon
  <2>5. \A x : x \in now <=> \E id \in Range(pending) : id[1] # c /\ x \in {id} \X DOMAIN Of(id).span.bytes
    <3>1. \A id \in Range(pending') : req'[id[1]][id[2]].span.bytes = Of(id).span.bytes
      BY <1>5 DEF Of
    <3>2. \A x : x \in now <=> \E id \in Range(pending') : x \in {id} \X DOMAIN req'[id[1]][id[2]].span.bytes
      OBVIOUS
    <3> HIDE DEF now
    <3> QED
      BY <1>3, <3>1, <3>2
  <2> HIDE DEF all, now, gone
  <2>6. now = all \ gone /\ all \cap gone = gone
    <3>1. \A x, id, jd : x \in {id} \X DOMAIN Of(id).span.bytes /\ x \in {jd} \X DOMAIN Of(jd).span.bytes
                           => id = jd
      OBVIOUS
    <3>2. \A x : x \in now <=> x \in all \ gone
      BY <2>3, <2>4, <2>5, <3>1
    <3>3. \A x : x \in all \cap gone <=> x \in gone
      BY <2>3, <2>4
    <3> QED
      BY <3>2, <3>3, Zenon
  <2>7. Cardinality(now) = pendingBytes - Cardinality(gone) /\ IsFiniteSet(now)
    <3>1. /\ IsFiniteSet(all \ gone)
          /\ Cardinality(all \ gone) = Cardinality(all) - Cardinality(all \cap gone)
      BY <2>2, FS_Difference
    <3> QED
      BY <2>2, <2>6, <3>1, Zenon
  <2>8. pendingBytes' = Cardinality(now)
    BY <1>1, <2>1, <2>7
  <2>9. Cardinality(now) \in Nat /\ Cardinality(gone) \in Nat
    BY <2>1, <2>7, FS_CardinalityType
  <2>10. pendingBytes \in 0 .. MaxPendingBytes /\ MaxPendingBytes \in Nat
    BY WritesAssumption DEF CallInv, CallTypes
  <2>11. pendingBytes' \in 0 .. MaxPendingBytes
    BY <2>7, <2>8, <2>9, <2>10
  <2> QED
    BY <2>8, <2>11 DEF now
<1>7. ActiveType' /\ (active' = None <=> active = None)
  <2>1. CASE active = None
    BY <1>1, <2>1, Zenon DEF ActiveType, None
  <2>2. CASE active # None /\ active.id[1] = c
    <3>1. active' = [active EXCEPT !.orphan = TRUE]
      BY <1>1, <2>2 DEF CallInv, ActiveType
    <3>2. active' # None
      BY <2>2, <3>1 DEF CallInv, ActiveType, None
    <3> QED
      BY <2>2, <3>1, <3>2, Zenon DEF CallInv, ActiveType
  <2>3. CASE active # None /\ active.id[1] # c
    BY <1>1, <2>3, Zenon DEF CallInv, ActiveType
  <2> QED
    BY <2>1, <2>2, <2>3
<1>8. CallTypes'
  BY <1>3, <1>4, <1>6 DEF CallTypes
<1>9. CallsHold'
  <2>1. Len(results'[c]) <= Len(req'[c]) /\ DOMAIN req'[c] = {}
    BY <1>4, EmptySeq
  <2>2. \A d \in Caller : d # c =>
          req'[d] = req[d] /\ results'[d] = results[d] /\ pc'[d] = pc[d]
    BY <1>4
  <2> SUFFICES ASSUME NEW d \in Caller
               PROVE  /\ pc'[d] = "free" <=> req'[d] = <<>>
                      /\ Len(results'[d]) <= Len(req'[d])
                      /\ \A i \in DOMAIN req'[d] :
                           /\ req'[d][i].stale <=> req'[d][1].stale
                           /\ req'[d][i].written => req'[d][i].done
                           /\ i <= Len(results'[d]) => req'[d][i].done \/ req'[d][i].cancel
    BY Zenon DEF CallsHold
  <2>3. CASE d = c
    BY <1>4, <2>1, <2>3
  <2>4. CASE d # c
    BY <2>2, <2>4, Zenon DEF CallInv, CallsHold
  <2> QED
    BY <2>3, <2>4
<1>10. QueueAccounted' /\ QueueIsFresh'
  <2>1. Len(pending') <= MaxPending
    <3>1. Len(pending) \in Nat /\ Len(pending') \in Nat
      BY <1>3, LenProperties DEF CallInv, CallTypes
    <3>2. Len(pending) <= MaxPending /\ MaxPending \in Nat
      BY WritesAssumption DEF CallInv, QueueAccounted
    <3> QED
      BY <1>3, <3>1, <3>2
  <2>2. ASSUME NEW id \in Range(pending')
        PROVE  /\ id[2] \in DOMAIN req'[id[1]] /\ ~req'[id[1]][id[2]].done
               /\ ~req'[id[1]][id[2]].stale
    BY <1>5, Zenon DEF CallInv, QueueAccounted, QueueIsFresh, Of
  <2>3. QueueAccounted'
    BY <1>3, <1>6, <2>1, <2>2, Zenon DEF QueueAccounted
  <2> QED
    BY <2>2, <2>3, Zenon DEF QueueIsFresh, Of
<1>11. TakenHolds'
  <2>1. CASE active # None /\ active.id[1] = c
    <3>1. active'.orphan
      BY <1>1, <2>1 DEF CallInv, ActiveType
    <3> QED
      BY <1>1, <2>1, <3>1, Zenon DEF CallInv, TakenHolds
  <2>2. CASE active # None /\ active.id[1] # c
    <3>1. active' = active
      BY <1>1, <2>2, Zenon
    <3>2. req'[active.id[1]] = req[active.id[1]]
      BY <1>4, <2>2 DEF CallInv, ActiveType
    <3>3. active.id \notin Range(pending) => active.id \notin Range(pending')
      BY <1>3
    <3> QED
      BY <1>1, <2>2, <3>1, <3>2, <3>3, Zenon DEF CallInv, TakenHolds, Of
  <2>3. CASE active = None
    BY <1>7, <2>3, Zenon DEF TakenHolds
  <2> QED
    BY <2>1, <2>2, <2>3
<1> QED
  BY <1>3, <1>7, <1>8, <1>9, <1>10, <1>11 DEF CallInv

\* The calls are untouched by a step that leaves the requests and the queue alone.
LEMMA SameCalls ==
  ASSUME CallInv, UNCHANGED <<calls, queue, active>>, active # None => UNCHANGED owner
  PROVE  CallInv'
<1>1. UNCHANGED <<req, pc, results, pending, pendingBytes, active>>
  BY Zenon DEF calls, queue
<1>2. CallTypes' /\ ActiveType'
  BY <1>1, Zenon DEF CallInv, CallTypes, ActiveType
<1>3. CallsHold' /\ QueueAccounted' /\ QueueIsFresh'
  <2>1. CallsHold'
    BY <1>1, Zenon DEF CallInv, CallsHold
  <2>2. QueueAccounted'
    BY <1>1 DEF CallInv, QueueAccounted
  <2>3. QueueIsFresh'
    BY <1>1, Zenon DEF CallInv, QueueIsFresh, Of
  <2> QED
    BY <2>1, <2>2, <2>3
<1>4. TakenHolds'
  BY <1>1, Zenon DEF CallInv, TakenHolds, Of
<1> QED
  BY <1>2, <1>3, <1>4 DEF CallInv

\* Nor do they see the steps of a write.
LEMMA StepCalls ==
  ASSUME CallInv, UNCHANGED <<calls, queue, loop>>, active # None,
         NEW at \in {"prepared", "wrote", "failed"}, active' = [active EXCEPT !.at = at]
  PROVE  CallInv'
<1>1. UNCHANGED <<req, pc, results, pending, pendingBytes, owner>>
  BY Zenon DEF calls, queue, loop
<1>2. ActiveType' /\ active'.id = active.id /\ active'.span = active.span
      /\ active'.orphan = active.orphan /\ active' # None
  BY DEF CallInv, ActiveType, None
<1>3. CallTypes'
  BY <1>1, Zenon DEF CallInv, CallTypes
<1>4. CallsHold' /\ QueueAccounted' /\ QueueIsFresh'
  <2>1. CallsHold'
    BY <1>1, Zenon DEF CallInv, CallsHold
  <2>2. QueueAccounted'
    BY <1>1 DEF CallInv, QueueAccounted
  <2>3. QueueIsFresh'
    BY <1>1, Zenon DEF CallInv, QueueIsFresh, Of
  <2> QED
    BY <2>1, <2>2, <2>3
<1>5. TakenHolds'
  BY <1>1, <1>2, Zenon DEF CallInv, TakenHolds, Of
<1> QED
  BY <1>2, <1>3, <1>4, <1>5 DEF CallInv

----------------------------------------------------------------------------
(* The loop.                                                               *)

FlagTypes ==
  /\ state \in {"Running", "Paused"} /\ quit \in BOOLEAN /\ cleanupOnly \in BOOLEAN
  /\ owner \in {"waits", "serves", "served", "paused", "leaves", "gone"}
  /\ sync \in BOOLEAN /\ unbroken \in BOOLEAN

LoopInv == FlagTypes /\ OwnerHolds /\ BreakIsComing

\* A sequence without elements is empty.
LEMMA EmptyRange ==
  ASSUME NEW S, NEW s \in Seq(S)
  PROVE  s = <<>> <=> \A x : x \notin Range(s)
<1>1. Len(s) \in Nat /\ DOMAIN s = 1 .. Len(s) /\ (s = <<>> <=> Len(s) = 0)
  BY LenProperties, EmptySeq
<1>2. \A x : x \in Range(s) <=> \E i \in 1 .. Len(s) : x = s[i]
  BY <1>1 DEF Range
<1>3. CASE Len(s) = 0
  BY <1>1, <1>2, <1>3
<1>4. CASE Len(s) # 0
  <2>1. 1 \in 1 .. Len(s)
    BY <1>1, <1>4
  <2> QED
    BY <1>1, <1>2, <1>4, <2>1
<1> QED
  BY <1>3, <1>4

\* A call that finds the target running will look for a break.
LEMMA SubmitLoop ==
  ASSUME TypeOK, CallInv, LoopInv, NEW c \in Caller, Submit(c)
  PROVE  LoopInv'
<1>1. /\ ~cleanupOnly /\ pc' = [pc EXCEPT ![c] = IF state = "Running" THEN "wake" ELSE "waits"]
      /\ UNCHANGED <<state, quit, cleanupOnly, owner, sync, unbroken>>
  BY Zenon DEF Submit, loop
<1>2. FlagTypes' /\ OwnerHolds'
  BY <1>1, Zenon DEF LoopInv, FlagTypes, OwnerHolds
<1>3. <<c, 1>> \in Range(pending')
  BY SubmitCalls
<1>4. BreakIsComing'
  <2> SUFFICES ASSUME owner \in {"waits", "served"}
               PROVE  \E id \in Range(pending') : pc'[id[1]] = "wake"
    BY <1>1, Zenon DEF BreakIsComing
  <2>1. state = "Running"
    BY Zenon DEF LoopInv, OwnerHolds
  <2>2. pc'[<<c, 1>>[1]] = "wake"
    BY <1>1, <2>1 DEF CallInv, CallTypes
  <2> QED
    BY <1>3, <2>2
<1> QED
  BY <1>2, <1>4 DEF LoopInv

\* A wake-up breaks in, fails to, or finds that it need not.
LEMMA WakeLoop ==
  ASSUME TypeOK, CallInv, LoopInv, NEW c \in Caller, Wake(c)
  PROVE  LoopInv'
<1>1. /\ pc[c] = "wake" /\ pc' = [pc EXCEPT ![c] = "waits"]
      /\ UNCHANGED <<state, quit, cleanupOnly, owner, pending>>
      /\ IF ~req[c][1].stale /\ state = "Running" /\ ~cleanupOnly /\ ~sync
         THEN \/ sync' = TRUE /\ UNCHANGED unbroken
              \/ unbroken' = TRUE /\ UNCHANGED sync
         ELSE UNCHANGED <<sync, unbroken>>
  BY Zenon DEF Wake, queue
<1>2. FlagTypes' /\ OwnerHolds'
  BY <1>1, Zenon DEF LoopInv, FlagTypes, OwnerHolds
<1>3. BreakIsComing'
  <2> SUFFICES ASSUME owner \in {"waits", "served"}, pending # <<>>, ~unbroken', ~sync'
               PROVE  \E id \in Range(pending) : pc'[id[1]] = "wake"
    BY <1>1, Zenon DEF BreakIsComing
  <2>1. state = "Running" /\ ~cleanupOnly
    BY Zenon DEF LoopInv, OwnerHolds
  <2>2. ~sync /\ ~unbroken /\ req[c][1].stale
    <3>1. CASE ~req[c][1].stale /\ ~sync
      <4>1. sync' = TRUE \/ unbroken' = TRUE
        BY <1>1, <2>1, <3>1, Zenon
      <4> QED
        BY <4>1
    <3>2. CASE sync \/ req[c][1].stale
      <4>1. sync' = sync /\ unbroken' = unbroken
        BY <1>1, <3>2, Zenon
      <4> QED
        BY <3>2, <4>1
    <3> QED
      BY <3>1, <3>2
  <2>3. PICK id \in Range(pending) : pc[id[1]] = "wake"
    BY <2>2, Zenon DEF LoopInv, BreakIsComing
  <2>4. /\ id[1] \in Caller /\ id[2] \in DOMAIN req[id[1]] /\ ~req[id[1]][id[2]].stale
    BY QueuedAre, Zenon DEF CallInv, Of
  <2>5. id[1] # c
    BY <2>2, <2>4, Zenon DEF CallInv, CallsHold
  <2>6. pc'[id[1]] = "wake"
    BY <1>1, <2>3, <2>4, <2>5 DEF CallInv, CallTypes
  <2> QED
    BY <2>6
<1> QED
  BY <1>2, <1>3 DEF LoopInv

\* A call that returns was not to break in.
LEMMA ReturnLoop ==
  ASSUME TypeOK, CallInv, LoopInv, NEW c \in Caller, Return(c)
  PROVE  LoopInv'
<1>1. /\ pc[c] = "waits" /\ pc' = [pc EXCEPT ![c] = "free"]
      /\ UNCHANGED <<state, quit, cleanupOnly, owner, sync, unbroken>>
  BY Zenon DEF Return, loop
<1>2. /\ \A id : id \in Range(pending') <=> id \in Range(pending) /\ id[1] # c
      /\ CallInv'
  BY ReturnCalls
<1>3. pending = <<>> => pending' = <<>>
  <2>1. pending \in Seq(Caller \X Nat) /\ pending' \in Seq(Caller \X Nat)
    BY <1>2, Zenon DEF CallInv, CallTypes
  <2>2. /\ pending = <<>> <=> \A x : x \notin Range(pending)
        /\ pending' = <<>> <=> \A x : x \notin Range(pending')
    BY <2>1, EmptyRange
  <2> QED
    BY <1>2, <2>2, Zenon
<1>4. FlagTypes' /\ OwnerHolds'
  BY <1>1, <1>3, Zenon DEF LoopInv, FlagTypes, OwnerHolds
<1>5. BreakIsComing'
  <2> SUFFICES ASSUME owner \in {"waits", "served"}, pending' # <<>>, ~unbroken, ~sync
               PROVE  \E id \in Range(pending') : pc'[id[1]] = "wake"
    BY <1>1, Zenon DEF BreakIsComing
  <2>1. PICK id \in Range(pending) : pc[id[1]] = "wake"
    BY <1>3, Zenon DEF LoopInv, BreakIsComing
  <2>2. id[1] # c /\ id[1] \in Caller
    BY <1>1, <2>1, QueuedAre, Zenon DEF CallInv
  <2>3. pc'[id[1]] = "wake" /\ id \in Range(pending')
    BY <1>1, <1>2, <2>1, <2>2 DEF CallInv, CallTypes
  <2> QED
    BY <2>3
<1> QED
  BY <1>4, <1>5 DEF LoopInv

\* While the owner has a request it neither waits nor has gone.
LEMMA HeldLoop ==
  ASSUME CallInv, LoopInv, UNCHANGED <<state, quit, cleanupOnly, owner, sync, unbroken>>,
         owner \in {"serves", "paused", "leaves"}
  PROVE  LoopInv'
<1>1. FlagTypes' /\ OwnerHolds'
  BY Zenon DEF LoopInv, FlagTypes, OwnerHolds
<1>2. BreakIsComing'
  BY DEF BreakIsComing
<1> QED
  BY <1>1, <1>2 DEF LoopInv

\* An empty queue waits for nothing.
LEMMA EmptyLoop ==
  ASSUME FlagTypes', pending' = <<>>, cleanupOnly' <=> owner' = "gone",
         owner' \in {"waits", "serves", "served"} => state' = "Running"
  PROVE  LoopInv'
BY DEF LoopInv, OwnerHolds, BreakIsComing

\* The loop keeps what it promises.
LEMMA LoopSteps ==
  ASSUME TypeOK, CallInv, LoopInv, [Next]_vars
  PROVE  LoopInv'
<1>1. ASSUME NEW c \in Caller, Collect(c) \/ Deadline(c)
      PROVE  LoopInv'
  <2>1. UNCHANGED <<state, quit, cleanupOnly, owner, sync, unbroken, pc, pending>>
    BY <1>1, Zenon DEF Collect, Deadline, queue, loop
  <2> QED
    BY <2>1, Zenon DEF LoopInv, FlagTypes, OwnerHolds, BreakIsComing
<1>2. CASE Event
  <2>1. /\ owner = "waits" /\ owner' = "serves" /\ unbroken' = FALSE
        /\ sync' \in {sync, FALSE} /\ UNCHANGED <<state, quit, cleanupOnly, pending>>
    BY <1>2, Zenon DEF Event, queue
  <2> QED
    BY <2>1 DEF LoopInv, FlagTypes, OwnerHolds, BreakIsComing
<1>3. CASE Served \/ Command \/ Close
  <2>1. /\ owner \in {"serves", "paused", "leaves"} /\ pending = <<>>
        /\ owner' \in {"served", "leaves"} /\ (owner' = "served" => state' = "Running")
        /\ state' \in {state, "Running"}
        /\ UNCHANGED <<quit, cleanupOnly, pending, sync, unbroken>>
    <3>1. CASE Served
      BY <3>1 DEF Served, queue, LoopInv, OwnerHolds
    <3>2. CASE Command \/ Close
      BY <3>2 DEF Command, Close, queue
    <3> QED
      BY <1>3, <3>1, <3>2
  <2> QED
    BY <2>1 DEF LoopInv, FlagTypes, OwnerHolds, BreakIsComing
<1>4. CASE Pause
  BY <1>4 DEF Pause, queue, LoopInv, FlagTypes, OwnerHolds, BreakIsComing
<1>5. CASE Resume
  <2>1. /\ owner = "served" /\ owner' = "waits"
        /\ UNCHANGED <<state, quit, cleanupOnly, pc, pending, sync, unbroken>>
    BY <1>5, Zenon DEF Resume, calls, queue
  <2> QED
    BY <2>1 DEF LoopInv, FlagTypes, OwnerHolds, BreakIsComing
<1>6. CASE Drain
  BY <1>6 DEF Drain, queue, LoopInv, FlagTypes, OwnerHolds, BreakIsComing
<1>7. ASSUME NEW a \in Addr, Edit(a)
      PROVE  LoopInv'
  <2>1. /\ owner \in {"serves", "paused", "leaves"}
        /\ UNCHANGED <<state, quit, cleanupOnly, owner, sync, unbroken>>
    BY <1>7, Zenon DEF Edit, Serving, loop
  <2> QED
    BY <2>1, HeldLoop
<1>8. CASE Take
  <2>1. /\ owner \in {"serves", "paused", "leaves"}
        /\ UNCHANGED <<state, quit, cleanupOnly, owner, sync, unbroken>>
    BY <1>8, Zenon DEF Take, Serving, loop
  <2> QED
    BY <2>1, HeldLoop
<1>9. CASE Refuse \/ Prepare \/ PrepareFails \/ Write \/ Commit \/ RollBack \/ RollBackFails
  <2>1. active # None
    <3>1. active.at # "none"
      BY <1>9, Zenon DEF Refuse, Prepare, PrepareFails, Write, Commit, RollBack, RollBackFails,
           Undoing
    <3> QED
      BY <3>1 DEF None
  <2>2. UNCHANGED <<state, quit, cleanupOnly, owner, sync, unbroken>>
    BY <1>9, Zenon DEF Refuse, Prepare, PrepareFails, Write, Commit, RollBack, RollBackFails,
         Answer, loop
  <2>3. owner \in {"serves", "paused", "leaves"}
    BY <2>1, Zenon DEF CallInv, TakenHolds
  <2> QED
    BY <2>2, <2>3, HeldLoop
<1>10. CASE Detach
  <2>1. /\ pending' = <<>> /\ quit' = TRUE /\ (sync' \in BOOLEAN \/ sync' = sync)
        /\ UNCHANGED <<state, cleanupOnly, owner, unbroken>>
    BY <1>10, Zenon DEF Detach, CancelPending
  <2>2. FlagTypes'
    BY <2>1 DEF LoopInv, FlagTypes
  <2> QED
    BY <2>1, <2>2, EmptyLoop DEF LoopInv, OwnerHolds
<1>11. CASE CleanUp
  <2>1. /\ pending' = <<>> /\ owner' = "gone" /\ cleanupOnly' = TRUE /\ state' = "Paused"
        /\ UNCHANGED <<quit, sync, unbroken>>
    BY <1>11, Zenon DEF CleanUp, CancelPending
  <2> QED
    BY <2>1, EmptyLoop DEF LoopInv, FlagTypes
<1>12. CASE BeginSession
  <2>1. /\ owner = "gone" /\ state' = "Running" /\ quit' = FALSE /\ cleanupOnly' = FALSE
        /\ owner' = "waits" /\ sync' = FALSE /\ unbroken' = FALSE /\ UNCHANGED pending
    BY <1>12, Zenon DEF BeginSession, queue
  <2>2. pending' = <<>>
    BY <2>1, Zenon DEF LoopInv, OwnerHolds
  <2> QED
    BY <2>1, <2>2, EmptyLoop DEF FlagTypes
<1>13. CASE UNCHANGED vars
  <2>1. UNCHANGED <<state, quit, cleanupOnly, owner, sync, unbroken, pc, pending>>
    BY <1>13, Zenon DEF vars, loop, calls, queue
  <2> QED
    BY <2>1, Zenon DEF LoopInv, FlagTypes, OwnerHolds, BreakIsComing
<1> QED
  BY SubmitLoop, WakeLoop, ReturnLoop, <1>1, <1>2, <1>3, <1>4, <1>5, <1>6, <1>7, <1>8, <1>9,
     <1>10, <1>11, <1>12, <1>13, Zenon DEF Next, Perform

\* The calls keep what they promise.
LEMMA CallSteps ==
  ASSUME TypeOK, CallInv, LoopInv, [Next]_vars
  PROVE  CallInv'
<1>1. ASSUME UNCHANGED <<calls, queue, active>>, active = None \/ UNCHANGED owner
      PROVE  CallInv'
  BY <1>1, SameCalls
<1>2. CASE Event \/ Resume \/ Pause \/ Served \/ UNCHANGED vars
  <2>1. CASE owner \in {"waits", "served"}
    <3>1. active = None
      BY <2>1 DEF CallInv, TakenHolds
    <3>2. UNCHANGED <<calls, queue, active>>
      BY <1>2, Zenon DEF Event, Resume, Pause, Served, vars
    <3> QED
      BY <1>1, <3>1, <3>2
  <2>2. CASE owner \notin {"waits", "served"}
    <3>1. CASE Served
      BY <1>1, <3>1, Zenon DEF Served
    <3>2. CASE UNCHANGED vars
      BY <1>1, <3>2, Zenon DEF vars, loop
    <3> QED
      BY <1>2, <2>2, <3>1, <3>2, Zenon DEF Event, Resume, Pause
  <2> QED
    BY <2>1, <2>2
<1>3. CASE Command \/ Close \/ Drain
  BY <1>1, <1>3, Zenon DEF Command, Close, Drain
<1>4. ASSUME NEW a \in Addr, Edit(a)
      PROVE  CallInv'
  BY <1>1, <1>4, Zenon DEF Edit, Serving
<1>5. CASE Refuse \/ PrepareFails \/ Commit \/ RollBack \/ RollBackFails
  <2>1. active.at # "none" /\ (Answer(TRUE) \/ Answer(FALSE))
    BY <1>5, Zenon DEF Refuse, PrepareFails, Commit, RollBack, RollBackFails, Undoing
  <2>2. active # None
    BY <2>1 DEF None
  <2> QED
    BY <2>1, <2>2, AnswerCalls
<1>6. CASE Prepare \/ Write
  <2>1. /\ active.at \in {"taken", "prepared"} /\ UNCHANGED <<calls, queue, loop>>
        /\ \E at \in {"prepared", "wrote", "failed"} : active' = [active EXCEPT !.at = at]
    <3>1. CASE Prepare
      BY <3>1 DEF Prepare
    <3>2. CASE Write
      <4>1. PICK outcome \in {"wrote", "failed"} : active' = [active EXCEPT !.at = outcome]
        BY <3>2, Zenon DEF Write
      <4>2. active.at = "prepared" /\ UNCHANGED <<calls, queue, loop>>
        BY <3>2, Zenon DEF Write
      <4> QED
        BY <4>1, <4>2
    <3> QED
      BY <1>6, <3>1, <3>2
  <2>2. active # None
    BY <2>1 DEF None
  <2> QED
    BY <2>1, <2>2, StepCalls
<1>7. CASE Detach
  <2>1. CancelPending /\ UNCHANGED <<pc, results, active, owner>>
    BY <1>7, Zenon DEF Detach
  <2> QED
    BY <2>1, CancelCalls
<1>8. CASE CleanUp
  <2>1. CancelPending /\ UNCHANGED <<pc, results, active>> /\ active = None
    BY <1>8, Zenon DEF CleanUp
  <2> QED
    BY <2>1, CancelCalls
<1>9. CASE BeginSession
  <2>1. owner = "gone"
    BY <1>9, Zenon DEF BeginSession
  <2>2. pending = <<>>
    BY <2>1, Zenon DEF LoopInv, OwnerHolds
  <2> QED
    BY <1>9, <2>2, StaleCalls
<1> QED
  BY SubmitCalls, WakeCalls, CollectCalls, DeadlineCalls, ReturnCalls, TakeCalls,
     <1>2, <1>3, <1>4, <1>5, <1>6, <1>7, <1>8, <1>9, Zenon DEF Next, Perform

----------------------------------------------------------------------------
(* The target.                                                             *)

Breakpoints == {NoBp} \cup [kind : {"armed", "exposed", "temp"}, orig : Byte]

TargetTypes ==
  /\ bytes \in [Addr -> Byte] /\ open \subseteq Code /\ bp \in [Addr -> Breakpoints]
  /\ before \in [IF Idle THEN {} ELSE DOMAIN active.span.bytes -> Byte]
  /\ reported \in BOOLEAN

TargetInv == TargetTypes /\ WriteHolds /\ WillBeWhole

\* The types, part by part.
LEMMA TypesAre == TypeOK <=> CallTypes /\ ActiveType /\ FlagTypes /\ TargetTypes
BY Zenon DEF TypeOK, CallTypes, ActiveType, FlagTypes, TargetTypes, Breakpoints

\* The breakpoints that there are.
LEMMA BreakpointsAre ==
  ASSUME NEW b \in Breakpoints
  PROVE  /\ b.kind \in {"none", "armed", "exposed", "temp"} /\ (b.kind = "none" <=> b = NoBp)
         /\ b # NoBp => /\ b.orig \in Byte /\ b = Bp(b.kind, b.orig)
                        /\ b.kind \in {"armed", "exposed", "temp"}
BY DEF Breakpoints, NoBp, Bp

\* A breakpoint has the kind and the byte it was made with.
LEMMA BreakpointIs ==
  ASSUME NEW kind \in {"armed", "exposed", "temp"}, NEW byte \in Byte
  PROVE  /\ Bp(kind, byte) \in Breakpoints
         /\ Bp(kind, byte).kind = kind /\ Bp(kind, byte).orig = byte
BY DEF Breakpoints, Bp

\* What the owner has in hand lies in the target.
LEMMA CellsAre ==
  ASSUME ActiveType, active.at # "none"
  PROVE  /\ active # None /\ Cell \subseteq Addr
         /\ active.span.bytes \in [Cell -> Byte]
         /\ \A a \in Cell : active.span.bytes[a] \in Byte
<1>1. active # None /\ active.span \in Span
  BY DEF ActiveType, None
<1>2. Cell \subseteq Addr /\ active.span.bytes \in [Cell -> Byte]
  BY <1>1, WritesAssumption DEF Cell
<1> QED
  BY <1>1, <1>2

\* Nothing of the target, and nothing of a write to it, has changed.
LEMMA SameTarget ==
  ASSUME TargetInv, UNCHANGED <<bytes, bp, open, before, reported>>,
         UNCHANGED active \/ (Idle /\ Idle')
  PROVE  TargetInv'
<1>1. CASE UNCHANGED active
  <2>1. /\ Idle' = Idle /\ Cell' = Cell /\ (\A a : Physical(a)' = Physical(a))
        /\ \A a, b : WholeAt(a, b)' <=> WholeAt(a, b)
    BY <1>1 DEF Idle, Cell, Physical, WholeAt
  <2>2. TargetTypes'
    BY <1>1, <2>1, Zenon DEF TargetInv, TargetTypes
  <2>3. WriteHolds'
    BY <1>1 DEF TargetInv, WriteHolds, Idle, Cell, Physical
  <2>4. WillBeWhole'
    BY <1>1 DEF TargetInv, WillBeWhole, WholeAt, Idle, Cell
  <2> QED
    BY <2>2, <2>3, <2>4 DEF TargetInv
<1>2. CASE Idle /\ Idle'
  <2>1. TargetTypes'
    BY <1>2 DEF TargetInv, TargetTypes
  <2>2. WriteHolds'
    BY <1>2, Zenon DEF WriteHolds
  <2>3. WillBeWhole'
    BY <1>2 DEF TargetInv, WillBeWhole, WholeAt
  <2> QED
    BY <2>1, <2>2, <2>3 DEF TargetInv
<1> QED
  BY <1>1, <1>2

\* A target that is not being written, and is whole or reported.
LEMMA WholeTarget ==
  ASSUME bytes' \in [Addr -> Byte], open' \subseteq Code, bp' \in [Addr -> Breakpoints],
         before' = <<>>, active' = None, reported' \in BOOLEAN,
         ~reported' => open' = {} /\ \A a \in Addr : WholeAt(a, bytes[a])'
  PROVE  TargetInv'
<1>1. Idle'
  BY DEF Idle, None
<1>2. before' \in [{} -> Byte]
  BY EmptySeq
<1>3. TargetTypes'
  BY <1>1, <1>2 DEF TargetTypes
<1>4. WriteHolds'
  BY <1>1, Zenon DEF WriteHolds
<1>5. WillBeWhole'
  BY <1>1, Zenon DEF WillBeWhole
<1> QED
  BY <1>3, <1>4, <1>5 DEF TargetInv

\* A breakpoint is set or lifted where nothing is being written.
LEMMA EditTarget ==
  ASSUME TypeOK, TargetInv, NEW a \in Addr, Edit(a)
  PROVE  TargetInv'
<1> DEFINE b == bp[a]
<1>1. /\ active = None /\ a \in Code /\ UNCHANGED <<open, before, active, reported>>
      /\ \/ /\ b = NoBp
            /\ \E kind \in {"armed", "temp"} : bp' = [bp EXCEPT ![a] = Bp(kind, bytes[a])]
            /\ bytes' = [bytes EXCEPT ![a] = Int3]
         \/ /\ b.kind = "armed"
            /\ bp' \in {[bp EXCEPT ![a] = [b EXCEPT !.kind = "exposed"]], [bp EXCEPT ![a] = NoBp]}
            /\ bytes' = [bytes EXCEPT ![a] = IF bytes[a] = Int3 THEN b.orig ELSE bytes[a]]
         \/ /\ b.kind = "exposed"
            /\ bp' = [bp EXCEPT ![a] = [b EXCEPT !.kind = "armed"]]
            /\ bytes' = [bytes EXCEPT ![a] = Int3]
         \/ b.kind = "exposed" /\ bp' = [bp EXCEPT ![a] = NoBp] /\ UNCHANGED bytes
         \/ b.kind = "temp" /\ bp' = [bp EXCEPT ![a] = NoBp] /\ bytes' = [bytes EXCEPT ![a] = b.orig]
  BY Zenon DEF Edit, Serving
<1>2. /\ bytes \in [Addr -> Byte] /\ bp \in [Addr -> Breakpoints] /\ b \in Breakpoints
      /\ bytes[a] \in Byte /\ Int3 \in Byte /\ NoBp \in Breakpoints
  BY WritesAssumption DEF TargetInv, TargetTypes, Breakpoints
<1>3. /\ b.kind \in {"none", "armed", "exposed", "temp"} /\ (b.kind = "none" <=> b = NoBp)
      /\ b # NoBp => /\ b.orig \in Byte
                     /\ [b EXCEPT !.kind = "armed"] = Bp("armed", b.orig)
                     /\ [b EXCEPT !.kind = "exposed"] = Bp("exposed", b.orig)
      /\ \A kind \in {"armed", "exposed", "temp"}, byte \in Byte :
           /\ Bp(kind, byte) \in Breakpoints
           /\ Bp(kind, byte).kind = kind /\ Bp(kind, byte).orig = byte
  <2> HIDE DEF b
  <2>1. /\ b.kind \in {"none", "armed", "exposed", "temp"} /\ (b.kind = "none" <=> b = NoBp)
        /\ b # NoBp => b.orig \in Byte /\ b = Bp(b.kind, b.orig)
    BY <1>2, BreakpointsAre
  <2>2. b # NoBp => /\ [b EXCEPT !.kind = "armed"] = Bp("armed", b.orig)
                    /\ [b EXCEPT !.kind = "exposed"] = Bp("exposed", b.orig)
    BY <2>1 DEF Bp
  <2>3. \A kind \in {"armed", "exposed", "temp"}, byte \in Byte :
           /\ Bp(kind, byte) \in Breakpoints
           /\ Bp(kind, byte).kind = kind /\ Bp(kind, byte).orig = byte
    BY BreakpointIs
  <2> QED
    BY <2>1, <2>2, <2>3
<1>4. NoBp.kind = "none"
  BY DEF NoBp
<1>5. ~reported => WholeAt(a, bytes[a])
  BY <1>1 DEF TargetInv, WillBeWhole, Idle, None
<1> HIDE DEF b
<1>6. /\ bytes' \in [Addr -> Byte] /\ bp' \in [Addr -> Breakpoints]
      /\ \A x \in Addr : x # a => bytes'[x] = bytes[x] /\ bp'[x] = bp[x]
      /\ ~reported => WholeAt(a, bytes[a])'
  <2>1. CASE /\ b = NoBp
             /\ \E kind \in {"armed", "temp"} : bp' = [bp EXCEPT ![a] = Bp(kind, bytes[a])]
             /\ bytes' = [bytes EXCEPT ![a] = Int3]
    <3>1. PICK kind \in {"armed", "temp"} : bp' = [bp EXCEPT ![a] = Bp(kind, bytes[a])]
      BY <2>1
    <3>2. bp'[a] = Bp(kind, bytes[a]) /\ bytes'[a] = Int3
      BY <1>2, <2>1, <3>1
    <3> QED
      BY <1>2, <1>3, <2>1, <3>1, <3>2 DEF WholeAt
  <2>2. CASE /\ b.kind = "armed"
             /\ bp' \in {[bp EXCEPT ![a] = [b EXCEPT !.kind = "exposed"]], [bp EXCEPT ![a] = NoBp]}
             /\ bytes' = [bytes EXCEPT ![a] = IF bytes[a] = Int3 THEN b.orig ELSE bytes[a]]
    <3>1. b # NoBp
      BY <1>4, <2>2
    <3>2. bytes'[a] = IF bytes[a] = Int3 THEN b.orig ELSE bytes[a]
      BY <1>2, <2>2
    <3>3. bp' = [bp EXCEPT ![a] = Bp("exposed", b.orig)] \/ bp' = [bp EXCEPT ![a] = NoBp]
      BY <1>3, <2>2, <3>1
    <3>4. ~reported => bytes'[a] = b.orig
      BY <1>5, <2>2, <3>2 DEF WholeAt, b
    <3>5. CASE bp' = [bp EXCEPT ![a] = Bp("exposed", b.orig)]
      <4>1. bp'[a] = Bp("exposed", b.orig)
        BY <1>2, <3>5
      <4> QED
        BY <1>2, <1>3, <2>2, <3>1, <3>4, <3>5, <4>1 DEF WholeAt
    <3>6. CASE bp' = [bp EXCEPT ![a] = NoBp]
      BY <1>2, <1>3, <1>4, <2>2, <3>1, <3>6 DEF WholeAt
    <3> QED
      BY <3>3, <3>5, <3>6
  <2>3. CASE /\ b.kind = "exposed"
             /\ bp' = [bp EXCEPT ![a] = [b EXCEPT !.kind = "armed"]]
             /\ bytes' = [bytes EXCEPT ![a] = Int3]
    <3>1. b # NoBp
      BY <1>4, <2>3
    <3>2. [b EXCEPT !.kind = "armed"] = Bp("armed", b.orig)
      BY <1>3, <3>1
    <3>3. bp' = [bp EXCEPT ![a] = Bp("armed", b.orig)]
      BY <2>3, <3>2, Zenon
    <3>4. bp'[a] = Bp("armed", b.orig) /\ bytes'[a] = Int3
      BY <1>2, <2>3, <3>3
    <3> QED
      BY <1>2, <1>3, <2>3, <3>1, <3>3, <3>4 DEF WholeAt
  <2>4. CASE b.kind = "exposed" /\ bp' = [bp EXCEPT ![a] = NoBp] /\ UNCHANGED bytes
    BY <1>2, <1>4, <2>4 DEF WholeAt
  <2>5. CASE b.kind = "temp" /\ bp' = [bp EXCEPT ![a] = NoBp] /\ bytes' = [bytes EXCEPT ![a] = b.orig]
    <3>1. b # NoBp
      BY <1>4, <2>5
    <3> QED
      BY <1>2, <1>3, <1>4, <2>5, <3>1 DEF WholeAt
  <2> QED
    BY <1>1, <2>1, <2>2, <2>3, <2>4, <2>5
<1>7. Idle /\ Idle'
  BY <1>1 DEF Idle, None
<1>8. TargetTypes'
  BY <1>1, <1>6, <1>7 DEF TargetInv, TargetTypes
<1>9. WriteHolds'
  BY <1>7, Zenon DEF WriteHolds
<1>10. WillBeWhole'
  <2>1. ~reported => open = {} /\ \A x \in Addr : WholeAt(x, bytes[x])
    BY <1>7, Zenon DEF TargetInv, WillBeWhole
  <2>2. ASSUME NEW x \in Addr, ~reported
        PROVE  WholeAt(x, bytes[x])'
    BY <1>6, <2>1, <2>2 DEF WholeAt
  <2> QED
    BY <1>1, <1>7, <2>1, <2>2, Zenon DEF WillBeWhole
<1> QED
  BY <1>8, <1>9, <1>10 DEF TargetInv

\* What is to be written, and what is there, is looked at before anything is done.
LEMMA PrepareTarget ==
  ASSUME TypeOK, TargetInv, Prepare
  PROVE  TargetInv'
<1>1. /\ active.at = "taken" /\ ~Refusable /\ open' = Cell \cap Code
      /\ before' = [a \in Cell |-> bytes[a]] /\ active' = [active EXCEPT !.at = "prepared"]
      /\ UNCHANGED <<bytes, bp, reported>>
  BY Zenon DEF Prepare
<1>2. active # None /\ Cell \subseteq Addr
  BY <1>1, CellsAre, TypesAre
<1>3. ~Idle' /\ Cell' = Cell /\ active'.at = "prepared" /\ Idle
  BY <1>1, <1>2 DEF TypeOK, Idle, Cell
<1>4. TargetTypes'
  <2>1. before' \in [Cell -> Byte]
    BY <1>1, <1>2 DEF TargetInv, TargetTypes
  <2>2. [IF Idle THEN {} ELSE DOMAIN active.span.bytes -> Byte]' = [Cell -> Byte]
    BY <1>3, Zenon DEF Cell
  <2> QED
    BY <1>1, <2>1, <2>2 DEF TargetInv, TargetTypes
<1>5. WriteHolds'
  <2>1. \A a \in Cell : bp[a].kind # "temp"
    BY <1>1, Zenon DEF Refusable
  <2> QED
    BY <1>1, <1>3, <2>1 DEF WriteHolds
<1>6. WillBeWhole'
  <2> SUFFICES ASSUME ~reported
               PROVE  /\ \A a \in Addr : WholeAt(a, bytes[a])'
                      /\ \A a \in Cell : WholeAt(a, before[a])' /\ (bp[a].kind = "armed" => bytes[a] = Int3)
    BY <1>1, <1>3 DEF WillBeWhole
  <2>1. \A a \in Addr : WholeAt(a, bytes[a])
    BY <1>3, Zenon DEF TargetInv, WillBeWhole
  <2>2. \A a \in Addr : WholeAt(a, bytes[a])'
    BY <1>1, <2>1 DEF WholeAt
  <2>3. \A a \in Cell : before'[a] = bytes[a]
    BY <1>1
  <2> QED
    BY <1>1, <1>2, <2>1, <2>2, <2>3 DEF WholeAt
<1> QED
  BY <1>4, <1>5, <1>6 DEF TargetInv

\* Any part of the bytes is written, around the traps.
LEMMA WriteTarget ==
  ASSUME TypeOK, TargetInv, Write
  PROVE  TargetInv'
<1>1. active.at = "prepared" /\ UNCHANGED <<bp, open, before, reported>>
  BY Zenon DEF Write
<1>2. PICK done \in SUBSET Cell, outcome \in {"wrote", "failed"} :
        /\ outcome = "wrote" => done = Cell
        /\ bytes' = [a \in Addr |-> IF a \in done THEN Physical(a) ELSE bytes[a]]
        /\ active' = [active EXCEPT !.at = outcome]
  BY Zenon DEF Write
<1>3. active # None /\ Cell \subseteq Addr /\ \A a \in Cell : active.span.bytes[a] \in Byte
  BY <1>1, CellsAre, TypesAre
<1>4. /\ ~Idle' /\ ~Idle /\ Cell' = Cell /\ active'.at = outcome
      /\ \A a : Physical(a)' = Physical(a)
  BY <1>1, <1>2, <1>3 DEF TypeOK, Idle, Cell, Physical
<1>5. \A a \in Addr : /\ a \in done => bytes'[a] = Physical(a)
                      /\ a \notin done => bytes'[a] = bytes[a]
  BY <1>2
<1>6. \A a \in Cell : /\ Physical(a) \in Byte
                      /\ bp[a].kind = "armed" => Physical(a) = Int3
  BY <1>3, WritesAssumption DEF Physical
<1>7. TargetTypes'
  <2>1. bytes' \in [Addr -> Byte]
    BY <1>2, <1>6 DEF TargetInv, TargetTypes
  <2>2. [IF Idle THEN {} ELSE DOMAIN active.span.bytes -> Byte]'
          = [IF Idle THEN {} ELSE DOMAIN active.span.bytes -> Byte]
    BY <1>4, Zenon DEF Cell
  <2> QED
    BY <1>1, <2>1, <2>2 DEF TargetInv, TargetTypes
<1>8. WriteHolds'
  <2>1. outcome = "wrote" => \A a \in Cell : bytes'[a] = Physical(a)
    BY <1>2, <1>3, <1>5
  <2> QED
    BY <1>1, <1>4, <2>1 DEF TargetInv, WriteHolds
<1>9. WillBeWhole'
  <2> SUFFICES ASSUME ~reported
               PROVE  /\ \A a \in Addr : a \notin Cell => WholeAt(a, bytes[a])'
                      /\ \A a \in Cell : WholeAt(a, before[a])' /\ (bp[a].kind = "armed" => bytes'[a] = Int3)
    BY <1>1, <1>4 DEF WillBeWhole
  <2>1. /\ \A a \in Addr : a \notin Cell => WholeAt(a, bytes[a])
        /\ \A a \in Cell : WholeAt(a, before[a]) /\ (bp[a].kind = "armed" => bytes[a] = Int3)
    BY <1>4, Zenon DEF TargetInv, WillBeWhole
  <2>2. \A a \in Addr : a \notin Cell => bytes'[a] = bytes[a]
    BY <1>2, <1>5
  <2>3. \A a \in Cell : bp[a].kind = "armed" => bytes'[a] = Int3
    BY <1>3, <1>5, <1>6, <2>1
  <2> QED
    BY <1>1, <2>1, <2>2, <2>3 DEF WholeAt
<1> QED
  BY <1>7, <1>8, <1>9 DEF TargetInv

\* The bytes beneath the traps are those that were written.
LEMMA CommitTarget ==
  ASSUME TypeOK, TargetInv, Commit
  PROVE  TargetInv'
<1>1. /\ active.at = "wrote" /\ open' = {} /\ bp' = [a \in Addr |-> Beneath(a)]
      /\ active' = None /\ before' = <<>> /\ UNCHANGED <<bytes, reported>>
  BY Zenon DEF Commit, Answer
<1>2. active # None /\ Cell \subseteq Addr /\ \A a \in Cell : active.span.bytes[a] \in Byte
  BY <1>1, CellsAre, TypesAre
<1>3. ~Idle
  BY <1>1 DEF Idle
<1>4. ASSUME NEW a \in Addr
      PROVE  /\ bp'[a] \in Breakpoints /\ bp'[a].kind = bp[a].kind
             /\ a \in Cell /\ bp[a] # NoBp => bp'[a].orig = active.span.bytes[a]
             /\ a \notin Cell => bp'[a] = bp[a]
  <2>1. bp[a] \in Breakpoints /\ bp'[a] = Beneath(a)
    BY <1>1 DEF TargetInv, TargetTypes
  <2>2. CASE a \in Cell /\ bp[a] # NoBp
    <3> DEFINE byte == active.span.bytes[a]
    <3>1. byte \in Byte /\ bp'[a] = [bp[a] EXCEPT !.orig = byte]
      BY <1>2, <2>1, <2>2 DEF Beneath
    <3> HIDE DEF byte
    <3>2. /\ bp[a] = Bp(bp[a].kind, bp[a].orig)
          /\ bp[a].kind \in {"armed", "exposed", "temp"}
      BY <2>1, <2>2, BreakpointsAre
    <3>3. bp'[a] = Bp(bp[a].kind, byte)
      BY <3>1, <3>2 DEF Bp
    <3>4. /\ bp'[a] \in Breakpoints /\ bp'[a].kind = bp[a].kind /\ bp'[a].orig = byte
      BY <3>1, <3>2, <3>3, BreakpointIs
    <3> QED
      BY <2>2, <3>4 DEF byte
  <2>3. CASE a \notin Cell \/ bp[a] = NoBp
    BY <2>1, <2>3 DEF Beneath
  <2> QED
    BY <2>2, <2>3
<1>5. ASSUME ~reported, NEW a \in Addr
      PROVE  WholeAt(a, bytes[a])'
  <2>1. CASE a \in Cell
    <3>1. bytes[a] = Physical(a) /\ bp[a].kind # "temp"
      BY <1>1, <1>3, <2>1, Zenon DEF TargetInv, WriteHolds
    <3>2. bp[a].kind = "armed" => bytes[a] = Int3
      BY <3>1 DEF Physical
    <3>3. bp[a].kind = "exposed" => bytes[a] = active.span.bytes[a] /\ bp[a] # NoBp
      BY <3>1 DEF Physical, NoBp
    <3> QED
      BY <1>1, <1>4, <2>1, <3>1, <3>2, <3>3 DEF WholeAt
  <2>2. CASE a \notin Cell
    <3>1. WholeAt(a, bytes[a])
      BY <1>5, <2>2, Zenon DEF TargetInv, WillBeWhole
    <3> QED
      BY <1>1, <1>4, <2>2, <3>1 DEF WholeAt
  <2> QED
    BY <2>1, <2>2
<1>6. bp' \in [Addr -> Breakpoints]
  BY <1>1, <1>4
<1>7. open' \subseteq Code
  BY <1>1
<1> QED
  BY <1>1, <1>5, <1>6, <1>7, WholeTarget DEF TargetInv, TargetTypes

\* A rollback writes what was read before.
LEMMA RollBackTarget ==
  ASSUME TypeOK, TargetInv, RollBack \/ RollBackFails
  PROVE  TargetInv'
<1>1. PICK back \in SUBSET Cell :
        /\ active.at \in {"wrote", "failed"} /\ bytes' = Restored(back)
        /\ active' = None /\ before' = <<>> /\ UNCHANGED bp
        /\ \/ back = Cell /\ open' = {} /\ UNCHANGED reported
           \/ open' \in SUBSET open /\ reported' = TRUE
  <2>1. CASE RollBack
    BY <2>1 DEF RollBack, Undoing, Answer
  <2>2. CASE RollBackFails
    <3>1. PICK back \in SUBSET Cell : bytes' = Restored(back)
      BY <2>2, Zenon DEF RollBackFails
    <3> QED
      BY <2>2, <3>1 DEF RollBackFails, Undoing, Answer
  <2> QED
    BY <2>1, <2>2
<1>2. ~Idle /\ Cell \subseteq Addr
  BY <1>1, CellsAre, TypesAre DEF Idle
<1>3. before \in [Cell -> Byte]
  BY <1>2, Zenon DEF TargetInv, TargetTypes, Cell
<1>4. bytes' \in [Addr -> Byte]
  BY <1>1, <1>3 DEF Restored, TargetInv, TargetTypes
<1>5. ASSUME ~reported', NEW a \in Addr
      PROVE  WholeAt(a, bytes[a])'
  <2>1. ~reported /\ back = Cell
    BY <1>1, <1>5
  <2>2. CASE a \in Cell
    <3>1. bytes'[a] = before[a]
      BY <1>1, <2>1, <2>2 DEF Restored
    <3>2. WholeAt(a, before[a])
      BY <1>2, <2>1, <2>2, Zenon DEF TargetInv, WillBeWhole
    <3> QED
      BY <1>1, <3>1, <3>2 DEF WholeAt
  <2>3. CASE a \notin Cell
    <3>1. bytes'[a] = bytes[a]
      BY <1>1, <2>1, <2>3 DEF Restored
    <3>2. WholeAt(a, bytes[a])
      BY <1>2, <2>1, <2>3, Zenon DEF TargetInv, WillBeWhole
    <3> QED
      BY <1>1, <3>1, <3>2 DEF WholeAt
  <2> QED
    BY <2>2, <2>3
<1>6. /\ open' \subseteq Code /\ bp' \in [Addr -> Breakpoints] /\ reported' \in BOOLEAN
      /\ ~reported' => open' = {}
  BY <1>1 DEF TargetInv, TargetTypes
<1> QED
  BY <1>1, <1>4, <1>5, <1>6, WholeTarget

\* A request that is turned down leaves the target alone, or says so.
LEMMA RefuseTarget ==
  ASSUME TypeOK, TargetInv, Refuse \/ PrepareFails
  PROVE  TargetInv'
<1>1. /\ active.at = "taken" /\ active' = None /\ before' = <<>> /\ UNCHANGED <<bytes, bp>>
      /\ \/ UNCHANGED <<open, reported>>
         \/ open' \in SUBSET (Cell \cap Code) /\ reported' = TRUE
  <2>1. CASE Refuse
    BY <2>1, Zenon DEF Refuse, Answer, target
  <2>2. CASE PrepareFails
    BY <2>2, Zenon DEF PrepareFails, Answer
  <2> QED
    BY <2>1, <2>2
<1>2. Idle
  BY <1>1 DEF Idle
<1>3. /\ bytes' \in [Addr -> Byte] /\ open' \subseteq Code /\ bp' \in [Addr -> Breakpoints]
      /\ reported' \in BOOLEAN
  BY <1>1 DEF TargetInv, TargetTypes
<1>4. ~reported' => open' = {} /\ \A a \in Addr : WholeAt(a, bytes[a])'
  <2>1. ~reported => open = {} /\ \A a \in Addr : WholeAt(a, bytes[a])
    BY <1>2, Zenon DEF TargetInv, WillBeWhole
  <2> QED
    BY <1>1, <2>1 DEF WholeAt
<1> QED
  BY <1>1, <1>3, <1>4, WholeTarget

\* Another target is whole.
LEMMA NewTarget ==
  ASSUME TypeOK, TargetInv, CallInv, BeginSession
  PROVE  TargetInv'
<1>1. /\ owner = "gone" /\ bytes' = [a \in Addr |-> CHOOSE b \in Byte : b # Int3]
      /\ bp' = [a \in Addr |-> NoBp] /\ open' = {} /\ reported' = FALSE
      /\ UNCHANGED <<active, before>>
  BY Zenon DEF BeginSession
<1>2. active = None
  BY <1>1 DEF CallInv, TakenHolds
<1>3. Idle /\ Idle'
  BY <1>1, <1>2 DEF Idle, None
<1>4. bytes' \in [Addr -> Byte] /\ bp' \in [Addr -> Breakpoints]
      /\ \A a \in Addr : bp'[a].kind = "none"
  <2>1. (CHOOSE b \in Byte : b # Int3) \in Byte
    BY WritesAssumption
  <2> QED
    BY <1>1, <2>1 DEF Breakpoints, NoBp
<1>5. TargetTypes'
  BY <1>1, <1>3, <1>4 DEF TargetInv, TargetTypes
<1>6. WriteHolds'
  BY <1>3, Zenon DEF WriteHolds
<1>7. WillBeWhole'
  BY <1>1, <1>3, <1>4 DEF WillBeWhole, WholeAt
<1> QED
  BY <1>5, <1>6, <1>7 DEF TargetInv

\* The target is whole, or will be, after every step.
LEMMA TargetSteps ==
  ASSUME TypeOK, TargetInv, CallInv, [Next]_vars
  PROVE  TargetInv'
<1>1. ASSUME UNCHANGED <<target, before, reported, active>>
      PROVE  TargetInv'
  BY <1>1, SameTarget DEF target
<1>2. ASSUME NEW c \in Caller, Submit(c) \/ Wake(c) \/ Collect(c) \/ Deadline(c)
      PROVE  TargetInv'
  BY <1>1, <1>2, Zenon DEF Submit, Wake, Collect, Deadline
<1>3. ASSUME NEW c \in Caller, Return(c)
      PROVE  TargetInv'
  <2>1. /\ Idle /\ UNCHANGED <<bytes, bp, open, before, reported>>
        /\ active' = IF active.at # "none" /\ active.id[1] = c
                     THEN [active EXCEPT !.orphan = TRUE] ELSE active
    BY <1>3, Zenon DEF Return, target
  <2>2. active'.at = active.at
    <3>1. CASE active = None
      BY <2>1, <3>1 DEF None
    <3>2. CASE active # None
      BY <2>1, <3>2 DEF TypeOK
    <3> QED
      BY <3>1, <3>2
  <2>3. Idle'
    BY <2>1, <2>2 DEF Idle
  <2> QED
    BY <2>1, <2>3, SameTarget
<1>4. CASE Event \/ Served \/ Pause \/ Resume \/ Command \/ Close \/ Drain
  BY <1>1, <1>4, Zenon DEF Event, Served, Pause, Resume, Command, Close, Drain
<1>5. CASE Take
  <2>1. /\ active = None /\ UNCHANGED <<bytes, bp, open, before, reported>>
        /\ \E id, r : active' = [at |-> "taken", id |-> id, span |-> r.span, stale |-> r.stale,
                                 submitted |-> r.submitted, orphan |-> FALSE]
    BY <1>5, Zenon DEF Take, Serving, target
  <2>2. Idle /\ Idle'
    BY <2>1 DEF Idle, None
  <2> QED
    BY <2>1, <2>2, SameTarget
<1>6. CASE Detach \/ CleanUp \/ UNCHANGED vars
  BY <1>1, <1>6, Zenon DEF Detach, CleanUp, vars
<1> QED
  BY EditTarget, PrepareTarget, WriteTarget, CommitTarget, RollBackTarget, RefuseTarget,
     NewTarget, <1>2, <1>3, <1>4, <1>5, <1>6, Zenon DEF Next, Perform

----------------------------------------------------------------------------
(* The theorems.                                                           *)

\* The invariant: the calls, the loop and the target.
LEMMA Parts == IInv <=> CallInv /\ LoopInv /\ TargetInv
<1>1. TypeOK <=> CallTypes /\ ActiveType /\ FlagTypes /\ TargetTypes
  BY TypesAre
<1> QED
  BY <1>1, Zenon DEF IInv, CallInv, LoopInv, TargetInv

\* It holds at first.
LEMMA Initially == Init => IInv
<1> SUFFICES ASSUME Init
             PROVE  CallInv /\ LoopInv /\ TargetInv
  BY Parts
<1>1. /\ req = [c \in Caller |-> <<>>] /\ pc = [c \in Caller |-> "free"]
      /\ results = [c \in Caller |-> <<>>] /\ pending = <<>> /\ pendingBytes = 0
      /\ active = None /\ before = <<>>
  BY Zenon DEF Init
<1>2. Len(<<>>) = 0 /\ DOMAIN <<>> = {} /\ Range(<<>>) = {} /\ IsInjective(<<>>)
  BY EmptySeq DEF Range, IsInjective
<1>3. MaxPending \in Nat /\ MaxPendingBytes \in Nat
  BY WritesAssumption
<1>4. CallInv
  <2>1. CallTypes
    BY <1>1, <1>3, EmptySeq DEF CallTypes
  <2>2. CallsHold
    <3>1. \A c \in Caller : req[c] = <<>> /\ results[c] = <<>> /\ pc[c] = "free"
      BY <1>1
    <3>2. Len(<<>>) <= Len(<<>>)
      BY <1>2
    <3> QED
      BY <1>2, <3>1, <3>2 DEF CallsHold
  <2>3. QueueAccounted
    <3>1. Len(pending) <= MaxPending
      BY <1>1, <1>2, <1>3
    <3>2. UNION {{id} \X DOMAIN req[id[1]][id[2]].span.bytes : id \in Range(pending)} = {}
      BY <1>1, <1>2
    <3>3. Cardinality({}) = 0
      BY FS_EmptySet
    <3> QED
      BY <1>1, <1>2, <3>1, <3>2, <3>3 DEF QueueAccounted
  <2>4. QueueIsFresh /\ TakenHolds /\ ActiveType
    BY <1>1, <1>2, Zenon DEF QueueIsFresh, TakenHolds, ActiveType
  <2> QED
    BY <2>1, <2>2, <2>3, <2>4 DEF CallInv
<1>5. LoopInv
  BY DEF Init, LoopInv, FlagTypes, OwnerHolds, BreakIsComing
<1>6. TargetInv
  <2>1. Idle
    BY <1>1 DEF Idle, None
  <2>2. bytes \in [Addr -> Byte] /\ bp \in [Addr -> Breakpoints]
        /\ \A a \in Addr : bp[a].kind = "none"
    <3>1. (CHOOSE b \in Byte : b # Int3) \in Byte
      BY WritesAssumption
    <3> QED
      BY <3>1 DEF Init, Breakpoints, NoBp
  <2>3. TargetTypes
    <3>1. before \in [{} -> Byte]
      BY <1>1, EmptySeq
    <3> QED
      BY <2>1, <2>2, <3>1 DEF Init, TargetTypes
  <2>4. WriteHolds /\ WillBeWhole
    BY <2>1, <2>2 DEF Init, WriteHolds, WillBeWhole, WholeAt
  <2> QED
    BY <2>3, <2>4 DEF TargetInv
<1> QED
  BY <1>4, <1>5, <1>6

\* Every step keeps it.
LEMMA Steps == IInv /\ [Next]_vars => IInv'
<1> SUFFICES ASSUME IInv, [Next]_vars
             PROVE  IInv'
  OBVIOUS
<1>1. TypeOK /\ CallInv /\ LoopInv /\ TargetInv
  BY Parts, Zenon DEF IInv
<1>2. CallInv' /\ LoopInv' /\ TargetInv'
  BY <1>1, CallSteps, LoopSteps, TargetSteps
<1>3. TypeOK'
  <2>1. TypeOK' <=> CallTypes' /\ ActiveType' /\ FlagTypes' /\ TargetTypes'
    BY Zenon DEF TypeOK, CallTypes, ActiveType, FlagTypes, TargetTypes, Breakpoints, Idle
  <2> QED
    BY <1>2, <2>1, Zenon DEF CallInv, LoopInv, TargetInv
<1> QED
  BY <1>2, <1>3, Zenon DEF IInv, CallInv, LoopInv, TargetInv

\* It always holds.
LEMMA Inductive == Spec => []IInv
<1>1. Init => IInv
  BY Initially
<1>2. IInv /\ [Next]_vars => IInv'
  BY Steps
<1> QED
  BY <1>1, <1>2, PTL DEF Spec

\* Every variable has its type: the requests, the queue and its bytes, which never
\* exceed their limit, the request in hand and the target's memory.
THEOREM TypeCorrect == Spec => []TypeOK
<1>1. IInv => TypeOK
  BY DEF IInv
<1> QED
  BY <1>1, Inductive, PTL

\* Whatever is written, refused or undone, and whatever fails of it, the traps that
\* are set are in the target and its pages have their own protection between
\* writes, unless it was reported that they do not (performMemoryWrite).
THEOREM TargetStaysWhole == Spec => []TargetIsWhole
<1>1. IInv => TargetIsWhole
  <2> SUFFICES ASSUME WriteHolds, WillBeWhole, ~reported
               PROVE  /\ \A a \in Addr : bp[a].kind \in {"armed", "temp"} => bytes[a] = Int3
                      /\ \A a \in Addr : bp[a].kind = "exposed" /\ Idle => bytes[a] = bp[a].orig
                      /\ active.at \in {"none", "taken"} => open = {}
    BY Zenon DEF IInv, TargetIsWhole
  <2>1. ASSUME NEW a \in Addr, Idle \/ a \notin Cell
        PROVE  /\ bp[a].kind \in {"armed", "temp"} => bytes[a] = Int3
               /\ bp[a].kind = "exposed" => bytes[a] = bp[a].orig
    BY <2>1, Zenon DEF WillBeWhole, WholeAt
  <2>2. ASSUME NEW a \in Cell, ~Idle
        PROVE  bp[a].kind # "temp" /\ (bp[a].kind = "armed" => bytes[a] = Int3)
    BY <2>2, Zenon DEF WriteHolds, WillBeWhole
  <2>3. active.at \in {"none", "taken"} => open = {}
    BY Zenon DEF WillBeWhole, Idle
  <2> QED
    BY <2>1, <2>2, <2>3
<1> QED
  BY <1>1, Inductive, PTL

\* The queue holds unanswered requests, its count of bytes is theirs although it is
\* adjusted at four places, and none of them waits for an event that nobody has
\* asked for (the race that the loop before a resumption closes).
THEOREM QueueAlwaysServed == Spec => []QueueIsServed
<1>1. IInv => QueueIsServed
  <2> SUFFICES ASSUME IInv, owner = "waits", pending # <<>>, ~unbroken, ~sync
               PROVE  \E c \in Caller : pc[c] = "wake"
    BY Zenon DEF IInv, QueueIsServed, NobodyStranded
  <2>1. PICK id \in Range(pending) : pc[id[1]] = "wake"
    BY DEF IInv, BreakIsComing
  <2>2. id[1] \in Caller
    BY QueuedAre, Parts DEF CallInv
  <2> QED
    BY <2>1, <2>2
<1> QED
  BY <1>1, Inductive, PTL

----------------------------------------------------------------------------
(* The refinement: what the callers are told is what was written.          *)

Fates(c) == [i \in DOMAIN req[c] |-> Fate(c, i)]
FateMap == [c \in Caller |-> Fates(c)]
AskedMap == [c \in Caller |-> Spans(c)]
BoundSet == {c \in Caller : req[c] # <<>> /\ ~req[c][1].stale}
Memory == [a \in Addr |-> Native(a)]

\* What the promise is about.
LEMMA PromiseVars ==
  ASSUME UNCHANGED <<Memory, reported, AskedMap, BoundSet, FateMap>>
  PROVE  UNCHANGED Promise!vars
BY Zenon DEF Promise!vars, Memory, AskedMap, BoundSet, FateMap, Fates

\* A map over a sequence is as long as it.
LEMMA MapIsSeq ==
  ASSUME NEW S, NEW s \in Seq(S), NEW T, NEW f, f = [i \in DOMAIN s |-> f[i]],
         \A i \in DOMAIN s : f[i] \in T
  PROVE  /\ f \in Seq(T) /\ Len(f) = Len(s) /\ DOMAIN f = DOMAIN s
         /\ s = <<>> => f = <<>>
<1>1. Len(s) \in Nat /\ DOMAIN s = 1 .. Len(s)
  BY LenProperties
<1>2. f = [i \in 1 .. Len(s) |-> f[i]] /\ \A i \in 1 .. Len(s) : f[i] \in T
  BY <1>1
<1>3. f \in Seq(T) /\ DOMAIN f = 1 .. Len(s)
  BY <1>1, <1>2, IsASeq
<1>4. Len(f) = Len(s)
  BY <1>1, <1>3, LenProperties
<1>5. s = <<>> => f = <<>>
  BY <1>3, <1>4, EmptySeq
<1> QED
  BY <1>1, <1>3, <1>4, <1>5

\* A fate is told, or is seen on the request.
LEMMA FateIs ==
  ASSUME CallTypes, NEW c \in Caller, NEW i \in DOMAIN req[c]
  PROVE  /\ Fate(c, i) \in {"written", "refused", "open"}
         /\ i <= Len(results[c]) => Fate(c, i) = results[c][i] /\ Fate(c, i) # "open"
         /\ ~(i <= Len(results[c])) =>
              Fate(c, i) = IF req[c][i].written THEN "written"
                           ELSE IF req[c][i].done \/ req[c][i].cancel THEN "refused" ELSE "open"
<1>1. CASE i <= Len(results[c])
  <2>1. i \in 1 .. Len(results[c]) /\ results[c] \in Seq({"written", "refused"})
    BY <1>1, RequestsOf
  <2>2. results[c][i] \in {"written", "refused"}
    BY <2>1, ElementOfSeq
  <2> QED
    BY <1>1, <2>2 DEF Fate
<1>2. CASE ~(i <= Len(results[c]))
  BY <1>2 DEF Fate
<1> QED
  BY <1>1, <1>2

\* The calls as they were asked, and whom they are for, as long as none is added,
\* taken away or made stale.
LEMMA SameBinding ==
  ASSUME CallTypes, Renewed,
         \A d \in Caller : \A i \in DOMAIN req[d] : req'[d][i].stale <=> req[d][i].stale
  PROVE  UNCHANGED <<AskedMap, BoundSet>>
<1>1. ASSUME NEW d \in Caller
      PROVE  /\ DOMAIN req'[d] = DOMAIN req[d] /\ (req'[d] = <<>> <=> req[d] = <<>>)
             /\ req[d] # <<>> => 1 \in DOMAIN req[d]
  <2>1. DOMAIN req'[d] = DOMAIN req[d] /\ Len(req'[d]) = Len(req[d]) /\ req'[d] \in Seq(Requests)
    BY DEF Renewed
  <2>2. /\ req[d] \in Seq(Requests) /\ Len(req[d]) \in Nat /\ DOMAIN req[d] = 1 .. Len(req[d])
    BY RequestsOf
  <2>3. (req[d] = <<>> <=> Len(req[d]) = 0) /\ (req'[d] = <<>> <=> Len(req'[d]) = 0)
    BY <2>1, <2>2, EmptySeq
  <2>4. req[d] # <<>> => 1 \in DOMAIN req[d]
    BY <2>2, <2>3
  <2> QED
    BY <2>1, <2>3, <2>4
<1>2. ASSUME NEW d \in Caller
      PROVE  Spans(d)' = Spans(d)
  BY <1>1, Zenon DEF Spans, Renewed
<1>3. AskedMap' = AskedMap
  BY <1>2, Zenon DEF AskedMap
<1>4. \A d \in Caller : d \in BoundSet' <=> d \in BoundSet
  BY <1>1, Zenon DEF BoundSet
<1>5. \A d : (d \in BoundSet' => d \in Caller) /\ (d \in BoundSet => d \in Caller)
  BY Zenon DEF BoundSet
<1>6. \A d : d \in BoundSet' <=> d \in BoundSet
  BY <1>4, <1>5, Zenon
<1> QED
  BY <1>3, <1>6, Zenon

\* The fates of requests that are neither added nor taken away.
LEMMA SameFates ==
  ASSUME CallTypes, Renewed, \A d \in Caller : \A i \in DOMAIN req[d] : Fate(d, i)' = Fate(d, i)
  PROVE  UNCHANGED FateMap
<1>1. ASSUME NEW d \in Caller
      PROVE  Fates(d)' = Fates(d)
  <2>1. DOMAIN req'[d] = DOMAIN req[d]
    BY Zenon DEF Renewed
  <2> QED
    BY <2>1, Zenon DEF Fates
<1> QED
  BY <1>1, Zenon DEF FateMap

\* Of requests that are neither added nor taken away, some that were open are refused.
LEMMA SomeRefused ==
  ASSUME CallTypes, CallTypes', Renewed,
         \A d \in Caller : \A i \in DOMAIN req[d] :
           Fate(d, i)' = Fate(d, i) \/ (Fate(d, i) = "open" /\ Fate(d, i)' = "refused")
  PROVE  Promise!Refused(FateMap')
<1>1. ASSUME NEW d \in Caller
      PROVE  /\ FateMap[d] = Fates(d) /\ FateMap'[d] = Fates(d)'
             /\ DOMAIN FateMap[d] = DOMAIN req[d] /\ Len(FateMap'[d]) = Len(FateMap[d])
             /\ \A i \in DOMAIN req[d] : FateMap[d][i] = Fate(d, i) /\ FateMap'[d][i] = Fate(d, i)'
  <2>1. FateMap[d] = Fates(d) /\ FateMap'[d] = Fates(d)'
    BY Zenon DEF FateMap
  <2>2. DOMAIN req'[d] = DOMAIN req[d] /\ Len(req'[d]) = Len(req[d])
        /\ req[d] \in Seq(Requests) /\ req'[d] \in Seq(Requests)
    BY RequestsOf DEF Renewed
  <2>3. /\ Fates(d) = [i \in DOMAIN req[d] |-> Fate(d, i)]
        /\ Fates(d)' = [i \in DOMAIN req'[d] |-> Fate(d, i)']
    BY Zenon DEF Fates
  <2>4. /\ \A i \in DOMAIN req[d] : Fates(d)[i] = Fate(d, i) /\ Fates(d)'[i] = Fate(d, i)'
        /\ DOMAIN Fates(d) = DOMAIN req[d]
        /\ Fates(d) = [i \in DOMAIN req[d] |-> Fates(d)[i]]
        /\ Fates(d)' = [i \in DOMAIN req'[d] |-> Fates(d)'[i]]
    BY <2>2, <2>3
  <2>5. \A i \in DOMAIN req[d] : Fate(d, i) \in {"written", "refused", "open"}
                                 /\ Fate(d, i)' \in {"written", "refused", "open"}
    BY FateIs
  <2>6. Len(Fates(d)) = Len(req[d])
    BY <2>2, <2>4, <2>5, MapIsSeq
  <2>7. Len(Fates(d)') = Len(req'[d])
    BY <2>2, <2>4, <2>5, MapIsSeq
  <2> QED
    BY <2>1, <2>2, <2>4, <2>6, <2>7
<1>2. \A c \in Caller : Len(FateMap'[c]) = Len(FateMap[c])
  BY <1>1
<1>3. ASSUME NEW c \in Caller, NEW i \in DOMAIN FateMap[c], FateMap'[c][i] # FateMap[c][i]
      PROVE  FateMap[c][i] = "open" /\ FateMap'[c][i] = "refused"
  BY <1>1, <1>3
<1> QED
  BY <1>2, <1>3, Zenon DEF Promise!Refused, Promise!Open, FateMap, Fates

\* Nothing is refused.
LEMMA NoneRefused ==
  ASSUME CallTypes, UNCHANGED FateMap
  PROVE  Promise!Refused(FateMap')
BY Zenon DEF Promise!Refused, FateMap, Fates

\* Requests that are answered or given up were open, or were so already.
LEMMA MoreRefused ==
  ASSUME CallTypes, CallTypes', Renewed, UNCHANGED results,
         \A d \in Caller : \A i \in DOMAIN req[d] :
           /\ req'[d][i].written <=> req[d][i].written
           /\ req[d][i].done => req'[d][i].done
           /\ req[d][i].cancel => req'[d][i].cancel
  PROVE  Promise!Refused(FateMap')
<1>1. ASSUME NEW d \in Caller, NEW i \in DOMAIN req[d]
      PROVE  Fate(d, i)' = Fate(d, i) \/ (Fate(d, i) = "open" /\ Fate(d, i)' = "refused")
  BY <1>1, Zenon DEF Fate
<1> QED
  BY <1>1, SomeRefused

\* The target's bytes are bytes.
LEMMA NativeIs ==
  ASSUME TargetTypes, NEW a \in Addr
  PROVE  Native(a) \in Byte
<1>1. bp[a] \in Breakpoints /\ bytes[a] \in Byte
  BY DEF TargetTypes
<1>2. bp[a] # NoBp => bp[a].orig \in Byte
  BY <1>1, BreakpointsAre
<1>3. a \in DOMAIN before => before[a] \in Byte
  BY DEF TargetTypes
<1> QED
  BY <1>1, <1>2, <1>3 DEF Native

\* So is what the target would find.
LEMMA MemoryIs ==
  (TargetTypes => Memory \in [Addr -> Byte]) /\ (TargetTypes' => Memory' \in [Addr -> Byte])
<1>1. TargetTypes => Memory \in [Addr -> Byte]
  BY NativeIs DEF Memory
<1>2. (TargetTypes => Memory \in [Addr -> Byte])'
  BY <1>1, PTL
<1> QED
  BY <1>1, <1>2

\* A step that leaves the requests alone tells nobody anything.
LEMMA SameTold ==
  ASSUME UNCHANGED <<req, results>>
  PROVE  UNCHANGED <<AskedMap, BoundSet, FateMap>>
BY Zenon DEF AskedMap, Spans, BoundSet, FateMap, Fates, Fate

\* The target's own bytes are as they were.
LEMMA SameMemory ==
  ASSUME \A a \in Addr : Native(a)' = Native(a)
  PROVE  UNCHANGED Memory
BY Zenon DEF Memory

\* A call comes.
LEMMA SubmitAsks ==
  ASSUME TypeOK, CallInv, CallTypes', NEW c \in Caller, Submit(c)
  PROVE  Promise!Ask(c)
<1>1. PICK call \in Calls[c] : req' = [req EXCEPT ![c] = [i \in DOMAIN call |-> Request(call[i])]]
  BY Zenon DEF Submit
<1>2. pc[c] = "free" /\ UNCHANGED <<results, bytes, bp, before, reported>>
  BY Zenon DEF Submit, target
<1> DEFINE mine == [i \in DOMAIN call |-> Request(call[i])]
<1>3. /\ req[c] = <<>> /\ Len(results[c]) = 0 /\ req[c] \in Seq(Requests)
  <2>1. req[c] = <<>> /\ Len(results[c]) <= Len(req[c])
    BY <1>2, Zenon DEF CallInv, CallsHold
  <2>2. Len(results[c]) \in Nat /\ req[c] \in Seq(Requests)
    BY RequestsOf DEF CallInv
  <2>3. Len(<<>>) = 0
    BY EmptySeq
  <2> QED
    BY <2>1, <2>2, <2>3
<1>4. /\ call \in Seq(Span) /\ call # <<>> /\ Len(call) \in Nat /\ DOMAIN call = 1 .. Len(call)
      /\ 1 \in DOMAIN call /\ \A i \in DOMAIN call : call[i] \in Span
  <2>1. call \in Seq(Span) /\ call # <<>>
    BY WritesAssumption
  <2>2. Len(call) \in Nat /\ DOMAIN call = 1 .. Len(call) /\ Len(call) # 0
    BY <2>1, LenProperties, EmptySeq
  <2> QED
    BY <2>1, <2>2, ElementOfSeq
<1>5. /\ req'[c] = mine /\ DOMAIN req'[c] = DOMAIN call
      /\ \A i \in DOMAIN call : /\ mine[i].span = call[i] /\ ~mine[i].stale
                                /\ ~mine[i].cancel /\ ~mine[i].done /\ ~mine[i].written
      /\ \A d \in Caller : d # c => req'[d] = req[d]
  BY <1>1 DEF CallInv, CallTypes, Request
<1> HIDE DEF mine
<1>6. FateMap[c] = <<>>
  <2>1. FateMap[c] = [i \in DOMAIN req[c] |-> FateMap[c][i]] /\ \A i \in DOMAIN req[c] : FALSE
    <3>1. FateMap[c] = [i \in DOMAIN req[c] |-> Fate(c, i)]
      BY Zenon DEF FateMap, Fates
    <3>2. \A i \in DOMAIN req[c] : FALSE
      BY <1>3, EmptySeq
    <3> QED
      BY <3>1, <3>2
  <2>2. FateMap[c] = [i \in DOMAIN req[c] |-> FateMap[c][i]]
        /\ \A i \in DOMAIN req[c] : FateMap[c][i] \in {}
    BY <2>1
  <2> QED
    BY <1>3, <2>2, MapIsSeq
<1>7. /\ AskedMap'[c] = Spans(c)' /\ Spans(c)' \in Seq(Span)
      /\ DOMAIN Spans(c)' = DOMAIN call
      /\ AskedMap' = [AskedMap EXCEPT ![c] = AskedMap'[c]]
  <2>1. AskedMap' = [d \in Caller |-> Spans(d)'] /\ AskedMap = [d \in Caller |-> Spans(d)]
    BY Zenon DEF AskedMap
  <2>2. \A d \in Caller : d # c => Spans(d)' = Spans(d)
    BY <1>5, Zenon DEF Spans
  <2>3. Spans(c)' = [i \in DOMAIN call |-> call[i]]
    BY <1>5 DEF Spans
  <2>4. Spans(c)' \in Seq(Span) /\ DOMAIN Spans(c)' = DOMAIN call
    BY <1>4, <2>3
  <2> QED
    BY <2>1, <2>2, <2>4
<1>8. FateMap' = [FateMap EXCEPT ![c] = [i \in DOMAIN AskedMap'[c] |-> "open"]]
  <2>1. FateMap' = [d \in Caller |-> Fates(d)'] /\ FateMap = [d \in Caller |-> Fates(d)]
    BY Zenon DEF FateMap
  <2>2. \A d \in Caller : d # c => Fates(d)' = Fates(d)
    BY <1>2, <1>5, Zenon DEF Fates, Fate
  <2>3. ASSUME NEW i \in DOMAIN call
        PROVE  Fate(c, i)' = "open"
    <3>1. ~(i <= Len(results'[c]))
      BY <1>2, <1>3, <1>4
    <3> QED
      BY <1>5, <3>1 DEF Fate
  <2>4. Fates(c)' = [i \in DOMAIN call |-> "open"]
    BY <1>5, <2>3, Zenon DEF Fates
  <2> QED
    BY <1>7, <2>1, <2>2, <2>4
<1>9. BoundSet' = BoundSet \cup {c}
  <2>1. req'[c] # <<>> /\ ~req'[c][1].stale
    <3>1. Len(req'[c]) = Len(call) /\ Len(call) # 0
      <4>1. req'[c] \in Seq(Requests)
        BY DEF CallTypes
      <4>2. Len(req'[c]) \in Nat /\ DOMAIN req'[c] = 1 .. Len(req'[c])
        BY <4>1, LenProperties
      <4> QED
        BY <1>4, <1>5, <4>2
    <3> QED
      BY <1>4, <1>5, <3>1, EmptySeq
  <2>2. \A d \in Caller : d # c => req'[d] = req[d]
    BY <1>5
  <2> QED
    BY <2>1, <2>2 DEF BoundSet
<1>10. UNCHANGED <<Memory, reported>>
  BY <1>2, Zenon DEF Memory, Native
<1> QED
  BY <1>6, <1>7, <1>8, <1>9, <1>10, Zenon
     DEF Promise!Ask, Memory, AskedMap, BoundSet, FateMap, Fates

\* An answer is read as it was given.
LEMMA CollectTells ==
  ASSUME TypeOK, CallInv, NEW c \in Caller, Collect(c)
  PROVE  UNCHANGED Promise!vars
<1> DEFINE k == Current(c)
           v == IF req[c][k].written THEN "written" ELSE "refused"
<1>1. /\ UNCHANGED <<req, bytes, bp, before, reported>>
      /\ k \in DOMAIN req[c] /\ req[c][k].done
      /\ results' = [results EXCEPT ![c] = Append(results[c], v)]
  BY Zenon DEF Collect, target
<1>2. k = Len(results[c]) + 1 /\ v \in {"written", "refused"} /\ Len(results[c]) \in Nat
      /\ results[c] \in Seq({"written", "refused"})
  BY RequestsOf DEF CallInv, Current
<1>3. req[c][k].written <=> v = "written"
  OBVIOUS
<1> HIDE DEF k, v
<1>4. /\ \A d \in Caller : d # c => results'[d] = results[d]
      /\ results'[c] = Append(results[c], v)
  BY <1>1 DEF CallInv, CallTypes
<1>5. /\ Len(Append(results[c], v)) = k /\ Append(results[c], v)[k] = v
      /\ \A i \in 1 .. Len(results[c]) : Append(results[c], v)[i] = results[c][i]
  BY <1>2, AppendProperties
<1>6. ASSUME NEW d \in Caller, NEW i \in DOMAIN req[d]
      PROVE  Fate(d, i)' = Fate(d, i)
  <2>1. CASE d # c
    <3>1. req'[d] = req[d] /\ results'[d] = results[d]
      BY <1>1, <1>4, <2>1
    <3> QED
      BY <3>1, Zenon DEF Fate
  <2>2. CASE d = c /\ i # k
    <3>1. i \in Nat /\ i >= 1 /\ (i <= Len(results[c]) <=> i <= Len(results'[c]))
      BY <1>2, <1>4, <1>5, <2>2, RequestsOf DEF CallInv
    <3>2. i <= Len(results[c]) => results'[c][i] = results[c][i]
      BY <1>2, <1>4, <1>5, <3>1
    <3> QED
      BY <1>1, <2>2, <3>1, <3>2 DEF Fate
  <2>3. CASE d = c /\ i = k
    <3>1. i <= Len(results'[c]) /\ ~(i <= Len(results[c])) /\ results'[c][i] = v
      BY <1>2, <1>4, <1>5, <2>3
    <3>2. Fate(d, i)' = v
      BY <2>3, <3>1 DEF Fate
    <3>3. Fate(d, i) = IF req[d][i].written THEN "written"
                       ELSE IF req[d][i].done \/ req[d][i].cancel THEN "refused" ELSE "open"
      BY <2>3, <3>1, FateIs DEF CallInv
    <3> QED
      BY <1>1, <1>2, <1>3, <2>3, <3>2, <3>3
  <2> QED
    BY <2>1, <2>2, <2>3
<1>7. UNCHANGED <<AskedMap, BoundSet>>
  BY <1>1, Zenon DEF AskedMap, Spans, BoundSet
<1>8. Renewed
  BY <1>1, Zenon DEF Renewed, CallInv, CallTypes
<1>9. UNCHANGED FateMap
  BY <1>6, <1>8, SameFates DEF CallInv
<1>10. UNCHANGED <<Memory, reported>>
  BY <1>1, Zenon DEF Memory, Native
<1> QED
  BY <1>7, <1>9, <1>10, PromiseVars

\* A caller that gives a request up is told that it is refused, and so it will be.
LEMMA DeadlineRefuses ==
  ASSUME TypeOK, CallInv, CallTypes', NEW c \in Caller, Deadline(c)
  PROVE  Promise!Refuse
<1> DEFINE k == Current(c)
<1>1. /\ UNCHANGED <<bytes, bp, before, reported>>
      /\ results' = [results EXCEPT ![c] = Append(results[c], "refused")]
  BY Zenon DEF Deadline, target
<1>2. k = Len(results[c]) + 1 /\ Len(results[c]) \in Nat
      /\ results[c] \in Seq({"written", "refused"})
  BY RequestsOf DEF CallInv, Current
<1>3. /\ Renewed /\ k \in DOMAIN req[c] /\ ~req[c][k].done
      /\ \A d \in Caller : \A i \in DOMAIN req[d] :
           /\ (req'[d][i].done <=> req[d][i].done) /\ (req'[d][i].written <=> req[d][i].written)
           /\ (req'[d][i].stale <=> req[d][i].stale)
           /\ req'[d][i].cancel <=> req[d][i].cancel \/ <<d, i>> = <<c, k>>
  BY DeadlineMarks, Zenon
<1> HIDE DEF k
<1>4. /\ \A d \in Caller : d # c => results'[d] = results[d]
      /\ results'[c] = Append(results[c], "refused")
  BY <1>1 DEF CallInv, CallTypes
<1>5. /\ Len(Append(results[c], "refused")) = k /\ Append(results[c], "refused")[k] = "refused"
      /\ \A i \in 1 .. Len(results[c]) : Append(results[c], "refused")[i] = results[c][i]
  BY <1>2, AppendProperties
<1>6. ASSUME NEW d \in Caller, NEW i \in DOMAIN req[d]
      PROVE  Fate(d, i)' = Fate(d, i) \/ (Fate(d, i) = "open" /\ Fate(d, i)' = "refused")
  <2>1. CASE <<d, i>> # <<c, k>>
    <3>1. /\ (req'[d][i].done <=> req[d][i].done) /\ (req'[d][i].written <=> req[d][i].written)
          /\ (req'[d][i].cancel <=> req[d][i].cancel)
      BY <1>3, <2>1, Zenon
    <3>2. /\ i <= Len(results[d]) <=> i <= Len(results'[d])
          /\ i <= Len(results[d]) => results'[d][i] = results[d][i]
      <4>1. CASE d # c
        BY <1>4, <4>1
      <4>2. CASE d = c
        <5>1. i \in Nat /\ i >= 1 /\ i # k
          BY <2>1, <4>2, RequestsOf DEF CallInv
        <5>2. i <= Len(results[c]) <=> i <= Len(results'[c])
          BY <1>2, <1>4, <1>5, <5>1
        <5>3. i <= Len(results[c]) => results'[c][i] = results[c][i]
          BY <1>2, <1>4, <1>5, <5>1
        <5> QED
          BY <4>2, <5>2, <5>3
      <4> QED
        BY <4>1, <4>2
    <3> QED
      BY <3>1, <3>2, Zenon DEF Fate
  <2>2. CASE <<d, i>> = <<c, k>>
    <3>1. d = c /\ i = k
      BY <2>2
    <3>2. i <= Len(results'[c]) /\ ~(i <= Len(results[c])) /\ results'[c][i] = "refused"
      BY <1>2, <1>4, <1>5, <3>1
    <3>3. Fate(d, i)' = "refused"
      BY <3>1, <3>2 DEF Fate
    <3>4. ~req[c][k].written
      BY <1>3, Zenon DEF CallInv, CallsHold
    <3>5. Fate(d, i) = IF req[d][i].written THEN "written"
                       ELSE IF req[d][i].done \/ req[d][i].cancel THEN "refused" ELSE "open"
      BY <3>1, <3>2, FateIs DEF CallInv
    <3> QED
      BY <3>1, <3>3, <3>4, <3>5
  <2> QED
    BY <2>1, <2>2
<1>7. UNCHANGED <<AskedMap, BoundSet>>
  <2>1. \A d \in Caller : \A i \in DOMAIN req[d] : req'[d][i].stale <=> req[d][i].stale
    BY <1>3
  <2> QED
    BY <1>3, <2>1, SameBinding DEF CallInv
<1>8. Promise!Refused(FateMap')
  BY <1>3, <1>6, SomeRefused DEF CallInv
<1>9. UNCHANGED <<Memory, reported>>
  BY <1>1, Zenon DEF Memory, Native
<1> QED
  BY <1>7, <1>8, <1>9, Zenon DEF Promise!Refuse, Memory, AskedMap, BoundSet, FateMap, Fates

\* A call returns when nothing of it is open.
LEMMA ReturnTakes ==
  ASSUME TypeOK, CallInv, NEW c \in Caller, Return(c)
  PROVE  Promise!Take(c)
<1>1. /\ Len(results[c]) = Len(req[c]) /\ UNCHANGED <<bytes, bp, before, reported>>
      /\ req' = [req EXCEPT ![c] = <<>>] /\ results' = [results EXCEPT ![c] = <<>>]
  BY Zenon DEF Return, target
<1>2. /\ req'[c] = <<>> /\ \A i : i \notin DOMAIN req'[c]
      /\ \A d \in Caller : d # c => req'[d] = req[d] /\ results'[d] = results[d]
  BY <1>1, EmptySeq DEF CallInv, CallTypes
<1>3. ASSUME NEW i \in DOMAIN FateMap[c]
      PROVE  FateMap[c][i] # "open"
  <2>1. FateMap[c] = [j \in DOMAIN req[c] |-> Fate(c, j)]
    BY Zenon DEF FateMap, Fates
  <2>2. i \in DOMAIN req[c] /\ FateMap[c][i] = Fate(c, i)
    BY <2>1
  <2>3. i <= Len(results[c])
    BY <1>1, <2>2, RequestsOf DEF CallInv
  <2> QED
    BY <2>2, <2>3, FateIs DEF CallInv
<1>4. Fates(c)' = <<>> /\ Spans(c)' = <<>>
  <2>1. /\ Fates(c)' = [i \in DOMAIN req'[c] |-> Fate(c, i)']
        /\ Spans(c)' = [i \in DOMAIN req'[c] |-> req'[c][i].span]
    BY Zenon DEF Fates, Spans
  <2>2. /\ Fates(c)' = [i \in DOMAIN req'[c] |-> Fates(c)'[i]]
        /\ Spans(c)' = [i \in DOMAIN req'[c] |-> Spans(c)'[i]]
    BY <2>1
  <2>3. req'[c] \in Seq(Requests)
    BY <1>2, EmptySeq
  <2>4. Fates(c)' = <<>>
    BY <1>2, <2>2, <2>3, MapIsSeq
  <2>5. Spans(c)' = <<>>
    BY <1>2, <2>2, <2>3, MapIsSeq
  <2> QED
    BY <2>4, <2>5
<1>5. FateMap' = [FateMap EXCEPT ![c] = <<>>]
  <2>1. FateMap' = [d \in Caller |-> Fates(d)'] /\ FateMap = [d \in Caller |-> Fates(d)]
    BY Zenon DEF FateMap
  <2>2. \A d \in Caller : d # c => Fates(d)' = Fates(d)
    BY <1>2, Zenon DEF Fates, Fate
  <2> QED
    BY <1>4, <2>1, <2>2
<1>6. AskedMap' = [AskedMap EXCEPT ![c] = <<>>]
  <2>1. AskedMap' = [d \in Caller |-> Spans(d)'] /\ AskedMap = [d \in Caller |-> Spans(d)]
    BY Zenon DEF AskedMap
  <2>2. \A d \in Caller : d # c => Spans(d)' = Spans(d)
    BY <1>2, Zenon DEF Spans
  <2> QED
    BY <1>4, <2>1, <2>2
<1>7. BoundSet' = BoundSet \ {c}
  BY <1>2 DEF BoundSet
<1>8. UNCHANGED <<Memory, reported>>
  BY <1>1, Zenon DEF Memory, Native
<1> QED
  BY <1>3, <1>5, <1>6, <1>7, <1>8, Zenon
     DEF Promise!Take, Promise!Open, Memory, AskedMap, BoundSet, FateMap, Fates

\* Nothing is being written, and nothing has been read.
LEMMA NothingRead ==
  ASSUME TargetTypes, Idle
  PROVE  \A a : a \notin DOMAIN before
BY DEF TargetTypes

\* A breakpoint is set or lifted: the target would not know, unless it was reported
\* to be damaged.
LEMMA EditHides ==
  ASSUME TypeOK, TargetInv, TargetInv', CallInv, NEW a \in Addr, Edit(a)
  PROVE  Promise!Damage \/ UNCHANGED Promise!vars
<1> DEFINE b == bp[a]
<1>1. /\ active = None /\ UNCHANGED <<open, before, active, reported, req, results>>
      /\ \/ /\ b = NoBp
            /\ \E kind \in {"armed", "temp"} : bp' = [bp EXCEPT ![a] = Bp(kind, bytes[a])]
            /\ bytes' = [bytes EXCEPT ![a] = Int3]
         \/ /\ b.kind = "armed"
            /\ bp' \in {[bp EXCEPT ![a] = [b EXCEPT !.kind = "exposed"]], [bp EXCEPT ![a] = NoBp]}
            /\ bytes' = [bytes EXCEPT ![a] = IF bytes[a] = Int3 THEN b.orig ELSE bytes[a]]
         \/ /\ b.kind = "exposed"
            /\ bp' = [bp EXCEPT ![a] = [b EXCEPT !.kind = "armed"]]
            /\ bytes' = [bytes EXCEPT ![a] = Int3]
         \/ b.kind = "exposed" /\ bp' = [bp EXCEPT ![a] = NoBp] /\ UNCHANGED bytes
         \/ b.kind = "temp" /\ bp' = [bp EXCEPT ![a] = NoBp] /\ bytes' = [bytes EXCEPT ![a] = b.orig]
  BY Zenon DEF Edit, Serving, calls
<1>2. /\ bytes \in [Addr -> Byte] /\ bp \in [Addr -> Breakpoints] /\ b \in Breakpoints
  BY DEF TargetInv, TargetTypes
<1>3. /\ b.kind = "none" <=> b = NoBp
      /\ b # NoBp => b = Bp(b.kind, b.orig)
  BY <1>2, BreakpointsAre
<1>4. \A kind, byte : Bp(kind, byte).orig = byte
  BY DEF Bp
<1>5. \A kind \in {"armed", "exposed", "temp"} : \A byte : Bp(kind, byte) # NoBp
  BY DEF Bp, NoBp
<1>6. Idle /\ Idle'
  BY <1>1 DEF Idle, None
<1>7. \A x : x \notin DOMAIN before
  BY <1>6, NothingRead DEF TargetInv
<1>8. UNCHANGED <<AskedMap, BoundSet, FateMap>>
  BY <1>1, SameTold
<1>9. CASE reported
  <2>1. Promise!Refused(FateMap')
    BY <1>8, NoneRefused DEF CallInv
  <2>2. Memory' \in [Addr -> Byte]
    BY MemoryIs DEF TargetInv
  <2> QED
    BY <1>1, <1>8, <1>9, <2>1, <2>2, Zenon
       DEF Promise!Damage, Memory, AskedMap, BoundSet, FateMap, Fates
<1>10. CASE ~reported
  <2>1. WholeAt(a, bytes[a])
    BY <1>6, <1>10 DEF TargetInv, WillBeWhole
  <2>2. /\ b.kind \in {"armed", "temp"} => bytes[a] = Int3
        /\ b.kind = "exposed" => bytes[a] = b.orig
    BY <2>1, Zenon DEF WholeAt
  <2> HIDE DEF b
  <2>3. \A x \in Addr : x # a => bp'[x] = bp[x] /\ bytes'[x] = bytes[x]
    BY <1>1, <1>2
  <2>4. (IF bp'[a] # NoBp THEN bp'[a].orig ELSE bytes'[a]) = (IF b # NoBp THEN b.orig ELSE bytes[a])
    <3>1. CASE /\ b = NoBp
               /\ \E kind \in {"armed", "temp"} : bp' = [bp EXCEPT ![a] = Bp(kind, bytes[a])]
      <4>1. PICK kind \in {"armed", "temp"} : bp' = [bp EXCEPT ![a] = Bp(kind, bytes[a])]
        BY <3>1
      <4>2. bp'[a] = Bp(kind, bytes[a])
        BY <1>2, <4>1
      <4> QED
        BY <1>4, <1>5, <3>1, <4>1, <4>2
    <3>2. CASE /\ b.kind = "armed"
               /\ bp' \in {[bp EXCEPT ![a] = [b EXCEPT !.kind = "exposed"]], [bp EXCEPT ![a] = NoBp]}
               /\ bytes' = [bytes EXCEPT ![a] = IF bytes[a] = Int3 THEN b.orig ELSE bytes[a]]
      <4>1. b # NoBp /\ bytes'[a] = b.orig
        BY <1>2, <2>2, <3>2 DEF NoBp
      <4>2. [b EXCEPT !.kind = "exposed"] = Bp("exposed", b.orig)
        BY <1>3, <4>1 DEF Bp
      <4>3. bp'[a] = Bp("exposed", b.orig) \/ bp'[a] = NoBp
        BY <1>2, <3>2, <4>2
      <4> QED
        BY <1>4, <4>1, <4>3
    <3>3. CASE /\ b.kind = "exposed"
               /\ bp' = [bp EXCEPT ![a] = [b EXCEPT !.kind = "armed"]]
      <4>1. b # NoBp
        BY <3>3 DEF NoBp
      <4>2. [b EXCEPT !.kind = "armed"] = Bp("armed", b.orig)
        BY <1>3, <4>1 DEF Bp
      <4>3. bp'[a] = Bp("armed", b.orig)
        BY <1>2, <3>3, <4>2
      <4> QED
        BY <1>4, <1>5, <4>1, <4>3
    <3>4. CASE b.kind = "exposed" /\ bp' = [bp EXCEPT ![a] = NoBp] /\ UNCHANGED bytes
      <4>1. b # NoBp /\ bp'[a] = NoBp
        BY <1>2, <3>4 DEF NoBp
      <4> QED
        BY <2>2, <3>4, <4>1
    <3>5. CASE b.kind = "temp" /\ bp' = [bp EXCEPT ![a] = NoBp] /\ bytes' = [bytes EXCEPT ![a] = b.orig]
      <4>1. b # NoBp /\ bp'[a] = NoBp /\ bytes'[a] = b.orig
        BY <1>2, <3>5 DEF NoBp
      <4> QED
        BY <4>1
    <3> QED
      BY <1>1, <3>1, <3>2, <3>3, <3>4, <3>5
  <2>5. ASSUME NEW x \in Addr
        PROVE  Native(x)' = Native(x)
    <3>1. /\ Native(x) = IF bp[x] # NoBp THEN bp[x].orig ELSE bytes[x]
          /\ Native(x)' = IF bp'[x] # NoBp THEN bp'[x].orig ELSE bytes'[x]
      BY <1>1, <1>7 DEF Native
    <3>2. CASE x = a
      BY <2>4, <3>1, <3>2 DEF b
    <3>3. CASE x # a
      BY <2>3, <3>1, <3>3
    <3> QED
      BY <3>2, <3>3
  <2>6. UNCHANGED Memory
    BY <2>5, SameMemory
  <2> QED
    BY <1>1, <1>8, <2>6, PromiseVars
<1> QED
  BY <1>9, <1>10

\* The owner turns its request down: nobody was told otherwise.
LEMMA AnsweredNo ==
  ASSUME TypeOK, CallInv, CallTypes', active # None, Answer(FALSE)
  PROVE  Promise!Refused(FateMap') /\ UNCHANGED <<AskedMap, BoundSet>>
<1>1. UNCHANGED results
  BY Zenon DEF Answer
<1>2. /\ Renewed
      /\ \A d \in Caller : \A i \in DOMAIN req[d] :
           IF ~active.orphan /\ <<d, i>> = active.id
           THEN /\ req'[d][i].done /\ (req'[d][i].written <=> FALSE /\ ~req[d][i].cancel)
                /\ (req'[d][i].cancel <=> req[d][i].cancel) /\ (req'[d][i].stale <=> req[d][i].stale)
           ELSE req'[d][i] = req[d][i]
  BY AnswerMarks DEF CallInv
<1>3. ASSUME NEW d \in Caller, NEW i \in DOMAIN req[d]
      PROVE  /\ req'[d][i].written <=> req[d][i].written
             /\ req[d][i].done => req'[d][i].done
             /\ req[d][i].cancel => req'[d][i].cancel
             /\ req'[d][i].stale <=> req[d][i].stale
  <2>1. CASE ~active.orphan /\ <<d, i>> = active.id
    <3>1. ~req[d][i].done
      <4>1. active.id[1] = d /\ active.id[2] = i
        BY <2>1
      <4> QED
        BY <2>1, <4>1 DEF CallInv, TakenHolds, Of
    <3>2. ~req[d][i].written
      BY <3>1, Zenon DEF CallInv, CallsHold
    <3>3. /\ req'[d][i].done /\ ~req'[d][i].written
          /\ (req'[d][i].cancel <=> req[d][i].cancel) /\ (req'[d][i].stale <=> req[d][i].stale)
      BY <1>2, <2>1, Zenon
    <3> QED
      BY <3>1, <3>2, <3>3, Zenon
  <2>2. CASE ~(~active.orphan /\ <<d, i>> = active.id)
    <3>1. req'[d][i] = req[d][i]
      BY <1>2, <2>2, Zenon
    <3> QED
      BY <3>1, Zenon
  <2> QED
    BY <2>1, <2>2
<1>4. Promise!Refused(FateMap')
  BY <1>1, <1>2, <1>3, MoreRefused DEF CallInv
<1>5. UNCHANGED <<AskedMap, BoundSet>>
  BY <1>2, <1>3, SameBinding DEF CallInv
<1> QED
  BY <1>4, <1>5

\* A request is turned down before anything is written, or something of what was
\* changed remains and is reported.
LEMMA RefuseRefuses ==
  ASSUME TypeOK, TargetInv, TargetInv', CallInv, CallInv', Refuse \/ PrepareFails
  PROVE  Promise!Refuse \/ Promise!Damage
<1>1. /\ active.at = "taken" /\ Answer(FALSE) /\ before' = <<>> /\ UNCHANGED <<bytes, bp>>
      /\ UNCHANGED reported \/ reported' = TRUE
  BY Zenon DEF Refuse, PrepareFails, Answer, target
<1>2. active # None /\ Idle
  BY <1>1 DEF None, Idle
<1>3. Promise!Refused(FateMap') /\ UNCHANGED <<AskedMap, BoundSet>>
  BY <1>1, <1>2, AnsweredNo DEF CallInv
<1>4. UNCHANGED Memory
  <2>1. \A a : a \notin DOMAIN before /\ a \notin DOMAIN before'
    BY <1>1, <1>2, NothingRead, EmptySeq DEF TargetInv
  <2>2. \A a \in Addr : Native(a)' = Native(a)
    BY <1>1, <2>1 DEF Native
  <2> QED
    BY <2>2, SameMemory
<1>5. Memory' \in [Addr -> Byte]
  BY MemoryIs DEF TargetInv
<1>6. CASE UNCHANGED reported
  BY <1>3, <1>4, <1>6, Zenon DEF Promise!Refuse, Memory, AskedMap, BoundSet, FateMap, Fates
<1>7. CASE reported' = TRUE
  BY <1>3, <1>5, <1>7, Zenon DEF Promise!Damage, Memory, AskedMap, BoundSet, FateMap, Fates
<1> QED
  BY <1>1, <1>6, <1>7

\* Reading what is there, and writing while it counts as it was, are not seen.
LEMMA WriteHides ==
  ASSUME TypeOK, TargetInv, Prepare \/ Write
  PROVE  UNCHANGED Promise!vars
<1>1. UNCHANGED <<req, results, bp, reported>>
  BY Zenon DEF Prepare, Write, calls
<1>2. ASSUME NEW a \in Addr
      PROVE  Native(a)' = Native(a)
  <2>1. CASE Prepare
    <3>1. before' = [x \in Cell |-> bytes[x]] /\ UNCHANGED bytes /\ active.at = "taken"
      BY <2>1, Zenon DEF Prepare
    <3>2. \A x : x \notin DOMAIN before
      BY <3>1, NothingRead DEF TargetInv, Idle
    <3> QED
      BY <1>1, <3>1, <3>2 DEF Native
  <2>2. CASE Write
    <3>1. active.at = "prepared" /\ UNCHANGED before
      BY <2>2, Zenon DEF Write
    <3>2. PICK done \in SUBSET Cell :
            bytes' = [x \in Addr |-> IF x \in done THEN Physical(x) ELSE bytes[x]]
      BY <2>2, Zenon DEF Write
    <3>3. DOMAIN before = Cell
      BY <3>1 DEF TargetInv, TargetTypes, Idle, Cell
    <3>4. a \notin Cell => bytes'[a] = bytes[a]
      BY <3>2
    <3> QED
      BY <1>1, <3>1, <3>3, <3>4 DEF Native
  <2> QED
    BY <2>1, <2>2
<1>3. UNCHANGED Memory
  BY <1>2, SameMemory
<1> QED
  BY <1>1, <1>3, SameTold, PromiseVars

\* A commit writes one whole span, to the target it was asked for.
LEMMA CommitWrites ==
  ASSUME TypeOK, TargetInv, CallInv, CallTypes', Commit
  PROVE  \E c \in Caller : \E i \in DOMAIN FateMap[c] : Promise!Write(c, i)
<1>1. /\ active.at = "wrote" /\ ~Cancelled /\ bp' = [a \in Addr |-> Beneath(a)]
      /\ Answer(TRUE) /\ before' = <<>> /\ UNCHANGED <<bytes, reported, results>>
  BY Zenon DEF Commit, Answer
<1>2. /\ active # None /\ Cell \subseteq Addr /\ ~Idle /\ ~active.orphan
      /\ ~req[active.id[1]][active.id[2]].cancel
  BY <1>1, CellsAre, TypesAre, Zenon DEF Cancelled, Idle
<1>3. PICK c \in Caller, i \in Nat :
        /\ i \in DOMAIN req[c] /\ active.id = <<c, i>> /\ ~req[c][i].cancel
        /\ ~req[c][i].done /\ ~req[c][i].stale /\ req[c][i].span = active.span
  <2>1. /\ active.id[2] \in DOMAIN req[active.id[1]]
        /\ ~Of(active.id).done /\ ~Of(active.id).stale /\ Of(active.id).span = active.span
    BY <1>2, Zenon DEF CallInv, TakenHolds
  <2>2. /\ active.id[1] \in Caller /\ active.id[2] \in Nat
        /\ active.id = <<active.id[1], active.id[2]>>
    BY <1>2 DEF CallInv, ActiveType
  <2> QED
    BY <1>2, <2>1, <2>2, Zenon DEF Of
<1>4. /\ Renewed
      /\ \A d \in Caller : \A j \in DOMAIN req[d] :
           IF ~active.orphan /\ <<d, j>> = active.id
           THEN /\ req'[d][j].done /\ (req'[d][j].written <=> TRUE /\ ~req[d][j].cancel)
                /\ (req'[d][j].cancel <=> req[d][j].cancel) /\ (req'[d][j].stale <=> req[d][j].stale)
           ELSE req'[d][j] = req[d][j]
  BY <1>1, <1>2, AnswerMarks DEF CallInv
<1>5. /\ req'[c][i].written
      /\ \A d \in Caller : \A j \in DOMAIN req[d] : <<d, j>> # <<c, i>> => req'[d][j] = req[d][j]
  BY <1>2, <1>3, <1>4, Zenon
<1>6. ~(i <= Len(results[c])) /\ ~req[c][i].written
  BY <1>2, <1>3, Zenon DEF CallInv, CallsHold
<1>7. Fate(c, i) = "open" /\ Fate(c, i)' = "written"
  <2>1. Fate(c, i) = "open"
    BY <1>2, <1>3, <1>6, Zenon DEF Fate
  <2>2. Fate(c, i)' = "written"
    BY <1>1, <1>5, <1>6, Zenon DEF Fate
  <2> QED
    BY <2>1, <2>2
<1>8. \A d \in Caller : /\ FateMap[d] = [j \in DOMAIN req[d] |-> Fate(d, j)]
                        /\ FateMap'[d] = [j \in DOMAIN req[d] |-> Fate(d, j)']
  <2>1. \A d \in Caller : DOMAIN req'[d] = DOMAIN req[d]
    BY <1>4, Zenon DEF Renewed
  <2> QED
    BY <2>1, Zenon DEF FateMap, Fates
<1>9. i \in DOMAIN FateMap[c] /\ FateMap[c][i] = "open"
  BY <1>3, <1>7, <1>8
<1>10. c \in BoundSet
  <2>1. req[c] # <<>>
    BY <1>3, EmptySeq
  <2>2. ~req[c][1].stale
    BY <1>3, Zenon DEF CallInv, CallsHold
  <2> QED
    BY <1>3, <2>1, <2>2, Zenon DEF BoundSet
<1>11. FateMap' = [FateMap EXCEPT ![c][i] = "written"]
  <2>1. \A d \in Caller : \A j \in DOMAIN req[d] :
          Fate(d, j)' = IF d = c /\ j = i THEN "written" ELSE Fate(d, j)
    <3> SUFFICES ASSUME NEW d \in Caller, NEW j \in DOMAIN req[d]
                 PROVE  Fate(d, j)' = IF d = c /\ j = i THEN "written" ELSE Fate(d, j)
      OBVIOUS
    <3>1. CASE d = c /\ j = i
      BY <1>7, <3>1
    <3>2. CASE ~(d = c /\ j = i)
      <4>1. <<d, j>> # <<c, i>>
        BY <3>2
      <4>2. req'[d][j] = req[d][j]
        BY <1>5, <4>1
      <4>3. Fate(d, j)' = Fate(d, j)
        BY <1>1, <4>2, Zenon DEF Fate
      <4> QED
        BY <3>2, <4>3
    <3> QED
      BY <3>1, <3>2
  <2>2. FateMap' = [d \in Caller |-> FateMap'[d]] /\ FateMap = [d \in Caller |-> FateMap[d]]
    BY Zenon DEF FateMap
  <2>3. \A d \in Caller : d # c => FateMap'[d] = FateMap[d]
    BY <1>8, <2>1
  <2>4. FateMap'[c] = [FateMap[c] EXCEPT ![i] = "written"]
    <3>1. FateMap[c] = [j \in DOMAIN req[c] |-> FateMap[c][j]]
          /\ FateMap'[c] = [j \in DOMAIN req[c] |-> FateMap'[c][j]]
      BY <1>8
    <3>2. ASSUME NEW j \in DOMAIN req[c]
          PROVE  FateMap'[c][j] = IF j = i THEN "written" ELSE FateMap[c][j]
      <4>1. FateMap'[c][j] = Fate(c, j)' /\ FateMap[c][j] = Fate(c, j)
        BY <1>8
      <4>2. Fate(c, j)' = IF j = i THEN "written" ELSE Fate(c, j)
        BY <2>1, Zenon
      <4> QED
        BY <4>1, <4>2
    <3> QED
      BY <3>1, <3>2
  <2> QED
    BY <1>3, <2>2, <2>3, <2>4
<1>12. Memory' = [a \in Addr |-> IF a \in DOMAIN AskedMap[c][i].bytes
                                 THEN AskedMap[c][i].bytes[a] ELSE Memory[a]]
  <2>1. AskedMap[c][i] = active.span
    BY <1>3 DEF AskedMap, Spans
  <2>2. DOMAIN AskedMap[c][i].bytes = Cell
    BY <2>1, Zenon DEF Cell
  <2>3. DOMAIN before = Cell /\ DOMAIN before' = {}
    <3>1. DOMAIN before = Cell
      BY <1>2 DEF TargetInv, TargetTypes, Cell
    <3> QED
      BY <1>1, <3>1, EmptySeq
  <2>4. ASSUME NEW a \in Addr
        PROVE  Native(a)' = IF a \in Cell THEN active.span.bytes[a] ELSE Native(a)
    <3>1. bp'[a] = IF a \in Cell /\ bp[a] # NoBp
                   THEN [bp[a] EXCEPT !.orig = active.span.bytes[a]] ELSE bp[a]
      BY <1>1 DEF Beneath
    <3>2. bp[a] \in Breakpoints
      BY DEF TargetInv, TargetTypes
    <3>3. CASE a \in Cell /\ bp[a] # NoBp
      <4>1. bp[a] = Bp(bp[a].kind, bp[a].orig) /\ bp[a].kind \in {"armed", "exposed", "temp"}
        BY <3>2, <3>3, BreakpointsAre
      <4>2. bp'[a].orig = active.span.bytes[a] /\ bp'[a] # NoBp
        BY <3>1, <3>3, <4>1 DEF Bp, NoBp
      <4> QED
        BY <3>3, <4>2 DEF Native
    <3>4. CASE a \in Cell /\ bp[a] = NoBp
      <4>1. bytes[a] = Physical(a)
        BY <1>1, <1>2, <3>4, Zenon DEF TargetInv, WriteHolds
      <4>2. Physical(a) = active.span.bytes[a]
        BY <3>4 DEF Physical, NoBp
      <4>3. Native(a)' = bytes'[a]
        BY <2>3, <3>1, <3>4 DEF Native
      <4> QED
        BY <1>1, <3>4, <4>1, <4>2, <4>3
    <3>5. CASE a \notin Cell
      BY <1>1, <2>3, <3>1, <3>5 DEF Native
    <3> QED
      BY <3>3, <3>4, <3>5
  <2>5. Memory = [a \in Addr |-> Native(a)] /\ Memory' = [a \in Addr |-> Native(a)']
    BY Zenon DEF Memory
  <2> QED
    BY <2>1, <2>2, <2>4, <2>5
<1>13. UNCHANGED <<AskedMap, BoundSet>>
  <2>1. \A d \in Caller : \A j \in DOMAIN req[d] : req'[d][j].stale <=> req[d][j].stale
    BY <1>4, Zenon
  <2> QED
    BY <1>4, <2>1, SameBinding DEF CallInv
<1>14. Promise!Write(c, i)
  BY <1>1, <1>9, <1>10, <1>11, <1>12, <1>13, Zenon
     DEF Promise!Write, Promise!Open, Memory, AskedMap, BoundSet, FateMap, Fates
<1> QED
  BY <1>3, <1>9, <1>14

\* A rollback leaves nothing of the write, or it is reported that it could not.
LEMMA RollBackRefuses ==
  ASSUME TypeOK, TargetInv, TargetInv', CallInv, CallInv', RollBack \/ RollBackFails
  PROVE  Promise!Refuse \/ Promise!Damage
<1>1. /\ active.at \in {"wrote", "failed"} /\ Answer(FALSE) /\ before' = <<>> /\ UNCHANGED bp
      /\ \/ bytes' = Restored(Cell) /\ UNCHANGED reported
         \/ reported' = TRUE
  <2>1. CASE RollBack
    BY <2>1 DEF RollBack, Undoing, Answer
  <2>2. CASE RollBackFails
    BY <2>2 DEF RollBackFails, Undoing, Answer
  <2> QED
    BY <2>1, <2>2
<1>2. active # None /\ ~Idle
  BY <1>1 DEF None, Idle
<1>3. Promise!Refused(FateMap') /\ UNCHANGED <<AskedMap, BoundSet>>
  BY <1>1, <1>2, AnsweredNo DEF CallInv
<1>4. Memory' \in [Addr -> Byte]
  BY MemoryIs DEF TargetInv
<1>5. CASE reported' = TRUE
  BY <1>3, <1>4, <1>5, Zenon DEF Promise!Damage, Memory, AskedMap, BoundSet, FateMap, Fates
<1>6. CASE bytes' = Restored(Cell) /\ UNCHANGED reported
  <2>1. DOMAIN before = Cell /\ DOMAIN before' = {}
    <3>1. DOMAIN before = Cell
      BY <1>2 DEF TargetInv, TargetTypes, Cell
    <3> QED
      BY <1>1, <3>1, EmptySeq
  <2>2. \A a \in Addr : bytes'[a] = IF a \in Cell THEN before[a] ELSE bytes[a]
    BY <1>6 DEF Restored
  <2>3. \A a \in Addr : Native(a)' = Native(a)
    BY <1>1, <2>1, <2>2 DEF Native
  <2>4. UNCHANGED Memory
    BY <2>3, SameMemory
  <2> QED
    BY <1>3, <1>6, <2>4, Zenon DEF Promise!Refuse, Memory, AskedMap, BoundSet, FateMap, Fates
<1> QED
  BY <1>1, <1>5, <1>6

\* The end of a session refuses what is queued.
LEMMA CancelRefuses ==
  ASSUME TypeOK, CallInv, CallTypes', CancelPending, UNCHANGED <<results, target, before, reported>>
  PROVE  Promise!Refuse
<1>1. /\ Renewed
      /\ \A d \in Caller : \A i \in DOMAIN req[d] :
           /\ req'[d][i].done <=> req[d][i].done \/ Queued(<<d, i>>)
           /\ (req'[d][i].written <=> req[d][i].written) /\ (req'[d][i].stale <=> req[d][i].stale)
           /\ req[d][i].cancel => req'[d][i].cancel
           /\ Queued(<<d, i>>) => req'[d][i].cancel
  BY CancelMarks, Zenon
<1>2. \A d \in Caller : \A i \in DOMAIN req[d] :
        /\ req'[d][i].written <=> req[d][i].written
        /\ req[d][i].done => req'[d][i].done
        /\ req[d][i].cancel => req'[d][i].cancel
        /\ req'[d][i].stale <=> req[d][i].stale
  BY <1>1, Zenon
<1>3. Promise!Refused(FateMap')
  BY <1>1, <1>2, MoreRefused DEF CallInv
<1>4. UNCHANGED <<AskedMap, BoundSet>>
  BY <1>1, <1>2, SameBinding DEF CallInv
<1>5. UNCHANGED Memory
  BY Zenon DEF Memory, Native, target
<1> QED
  BY <1>3, <1>4, <1>5, Zenon DEF Promise!Refuse, Memory, AskedMap, BoundSet, FateMap, Fates

\* A new session binds nobody to its target.
LEMMA SessionReplaces ==
  ASSUME TypeOK, CallInv, CallInv', TargetInv', BeginSession
  PROVE  Promise!Replace
<1>1. UNCHANGED results /\ reported' = FALSE
  BY Zenon DEF BeginSession
<1>2. /\ Renewed
      /\ \A d \in Caller : \A i \in DOMAIN req[d] :
           /\ (req'[d][i].done <=> req[d][i].done) /\ (req'[d][i].written <=> req[d][i].written)
           /\ (req'[d][i].cancel <=> req[d][i].cancel) /\ req'[d][i].stale
  BY StaleMarks
<1>3. UNCHANGED FateMap
  <2>1. \A d \in Caller : \A i \in DOMAIN req[d] : Fate(d, i)' = Fate(d, i)
    BY <1>1, <1>2, Zenon DEF Fate
  <2> QED
    BY <1>2, <2>1, SameFates DEF CallInv
<1>4. UNCHANGED AskedMap
  BY <1>2, Zenon DEF AskedMap, Spans, Renewed
<1>5. BoundSet' = {}
  <2>1. ASSUME NEW d \in Caller, req'[d] # <<>>
        PROVE  req'[d][1].stale
    <3>1. req'[d] \in Seq(Requests) /\ DOMAIN req'[d] = DOMAIN req[d]
      BY <1>2 DEF Renewed
    <3>2. 1 \in DOMAIN req'[d]
      <4>1. Len(req'[d]) \in Nat /\ DOMAIN req'[d] = 1 .. Len(req'[d]) /\ Len(req'[d]) # 0
        BY <2>1, <3>1, LenProperties, EmptySeq
      <4> QED
        BY <4>1
    <3> QED
      BY <1>2, <3>1, <3>2
  <2>2. \A d : d \notin BoundSet'
    BY <2>1, Zenon DEF BoundSet
  <2> QED
    BY <2>2, Zenon
<1>6. Memory' \in [Addr -> Byte]
  BY MemoryIs DEF TargetInv
<1> QED
  BY <1>1, <1>3, <1>4, <1>5, <1>6, Zenon
     DEF Promise!Replace, Memory, AskedMap, BoundSet, FateMap, Fates

\* Every step is one of the promise, or none.
LEMMA PromiseStep ==
  ASSUME IInv, IInv', [Next]_vars
  PROVE  [Promise!Next]_(Promise!vars)
<1>1. /\ TypeOK /\ CallInv /\ TargetInv /\ CallInv' /\ TargetInv' /\ CallTypes'
  <2>1. TypeOK' <=> CallTypes' /\ ActiveType' /\ FlagTypes' /\ TargetTypes'
    BY Zenon DEF TypeOK, CallTypes, ActiveType, FlagTypes, TargetTypes, Breakpoints, Idle
  <2> QED
    BY <2>1, Parts, Zenon DEF IInv, CallInv, TargetInv
<1>2. ASSUME UNCHANGED <<req, results, bytes, bp, before, reported>>
      PROVE  UNCHANGED Promise!vars
  <2>1. UNCHANGED Memory
    BY <1>2, Zenon DEF Memory, Native
  <2>2. UNCHANGED <<AskedMap, BoundSet, FateMap>>
    BY <1>2, SameTold
  <2> QED
    BY <1>2, <2>1, <2>2, PromiseVars
<1>3. ASSUME NEW c \in Caller, Submit(c) \/ Return(c)
      PROVE  Promise!Next
  BY <1>1, <1>3, SubmitAsks, ReturnTakes, Zenon DEF Promise!Next
<1>4. ASSUME NEW c \in Caller, Wake(c) \/ Collect(c) \/ Deadline(c)
      PROVE  Promise!Next \/ UNCHANGED Promise!vars
  <2>1. CASE Wake(c)
    BY <1>2, <2>1, Zenon DEF Wake, target
  <2>2. CASE Collect(c)
    BY <1>1, <2>2, CollectTells
  <2>3. CASE Deadline(c)
    BY <1>1, <2>3, DeadlineRefuses, Zenon DEF Promise!Next
  <2> QED
    BY <1>4, <2>1, <2>2, <2>3
<1>5. CASE Event \/ Served \/ Pause \/ Resume \/ Command \/ Close \/ Drain \/ Take \/ UNCHANGED vars
  BY <1>2, <1>5, Zenon
     DEF Event, Served, Pause, Resume, Command, Close, Drain, Take, vars, calls, target
<1>6. ASSUME NEW a \in Addr, Edit(a)
      PROVE  Promise!Next \/ UNCHANGED Promise!vars
  BY <1>1, <1>6, EditHides, Zenon DEF Promise!Next
<1>7. CASE Refuse \/ PrepareFails \/ RollBack \/ RollBackFails
  BY <1>1, <1>7, RefuseRefuses, RollBackRefuses, Zenon DEF Promise!Next
<1>8. CASE Prepare \/ Write
  BY <1>1, <1>8, WriteHides
<1>9. CASE Commit
  <2>1. PICK c \in Caller : \E i \in DOMAIN FateMap[c] : Promise!Write(c, i)
    BY <1>1, <1>9, CommitWrites
  <2>2. Promise!Next
    BY <2>1, Zenon DEF Promise!Next, FateMap, Fates
  <2> QED
    BY <2>2
<1>10. CASE Detach \/ CleanUp
  <2>1. CancelPending /\ UNCHANGED <<results, target, before, reported>>
    BY <1>10, Zenon DEF Detach, CleanUp
  <2> QED
    BY <1>1, <2>1, CancelRefuses, Zenon DEF Promise!Next
<1>11. CASE BeginSession
  BY <1>1, <1>11, SessionReplaces, Zenon DEF Promise!Next
<1> QED
  BY <1>3, <1>4, <1>5, <1>6, <1>7, <1>8, <1>9, <1>10, <1>11, Zenon DEF Next, Perform

\* At first nothing is asked.
LEMMA PromiseInit == Init => Promise!Init
<1> SUFFICES ASSUME Init
             PROVE  Promise!Init
  OBVIOUS
<1>1. TargetTypes
  BY Initially, Parts DEF TargetInv
<1>2. Memory \in [Addr -> Byte] /\ reported = FALSE
  BY <1>1, MemoryIs, Zenon DEF Init
<1>3. ASSUME NEW c \in Caller
      PROVE  req[c] = <<>> /\ Spans(c) = <<>> /\ Fates(c) = <<>>
  <2>1. req[c] = <<>> /\ req[c] \in Seq(Requests) /\ DOMAIN req[c] = {}
    BY EmptySeq DEF Init
  <2>2. /\ Spans(c) = [i \in DOMAIN req[c] |-> Spans(c)[i]]
        /\ Fates(c) = [i \in DOMAIN req[c] |-> Fates(c)[i]]
    BY DEF Spans, Fates
  <2>3. Spans(c) = <<>>
    BY <2>1, <2>2, MapIsSeq
  <2>4. Fates(c) = <<>>
    BY <2>1, <2>2, MapIsSeq
  <2> QED
    BY <2>1, <2>3, <2>4
<1>4. /\ AskedMap = [c \in Caller |-> <<>>] /\ FateMap = [c \in Caller |-> <<>>] /\ BoundSet = {}
  <2>1. AskedMap = [c \in Caller |-> <<>>] /\ FateMap = [c \in Caller |-> <<>>]
    BY <1>3, Zenon DEF AskedMap, FateMap
  <2>2. \A c : c \notin BoundSet
    BY <1>3, Zenon DEF BoundSet
  <2> QED
    BY <2>1, <2>2, Zenon
<1> QED
  BY <1>2, <1>4, Zenon DEF Promise!Init, Memory, AskedMap, BoundSet, FateMap, Fates

\* A span is written entirely or not at all, to the target it was asked for and before
\* its caller is told so, and one that was refused is never written later: requests,
\* owner, timeouts and rollback implement TargetWrites.
THEOREM WritesKept == Spec => WritesAreKept
<1>1. IInv /\ IInv' /\ [Next]_vars => [Promise!Next]_(Promise!vars)
  BY PromiseStep
<1> QED
  BY <1>1, PromiseInit, Inductive, PTL DEF Spec, WritesAreKept, Promise!Spec
=============================================================================
