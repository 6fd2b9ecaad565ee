---------------------------- MODULE SymbolService ---------------------------
(***************************************************************************)
(* The owner of all DbgHelp work (Core/SymbolService.cpp).  The interface  *)
(* thread binds a session (a file, or a live process whose handle is       *)
(* duplicated), asks for addresses and names, and reads what is cached;    *)
(* one worker takes the requests in their order, binds the backend to the  *)
(* session of a request when it must, and publishes the answer.  Every new *)
(* session has a new generation: it empties the queue, the pending sets    *)
(* and the caches under the mutex, and the worker looks again after each   *)
(* call of the backend and before it publishes.                            *)
(*                                                                         *)
(* A lookup that finds the answer, or finds the mutex taken, changes       *)
(* nothing and is no action.  Left out: the texts and the statistics, the  *)
(* wrap of the 64-bit generation and exhausted memory other than in the    *)
(* failure path, where it ends the worker.                                 *)
(***************************************************************************)
EXTENDS Naturals, Sequences, FiniteSets, SequencesExt

CONSTANTS
  Addr, Name,
  Cost,             \* Cost[kind]: bytes a request of the kind stands for
  Weight,           \* Weight[kind]: bytes a cached answer retains
  MaxPending, MaxQueuedBytes,
  MaxAddressCache, MaxNameCache, MaxRetainedBytes,
  MaxGeneration     \* bound: sessions of a behaviour

Lookup == {"basic", "detailed", "name"}

\* A record that is too large loses its locals before it is cached.
ASSUME SymbolAssumption ==
  /\ Cost \in [Lookup -> Nat] /\ Weight \in [Lookup -> 0 .. MaxRetainedBytes]
  /\ {MaxPending, MaxQueuedBytes, MaxRetainedBytes, MaxGeneration} \subseteq Nat
  /\ {MaxAddressCache, MaxNameCache} \subseteq Nat \ {0}

Gen == 0 .. MaxGeneration

\* A session; handle is the generation that duplicated it, 0 for a file.
Session == [gen : Gen, handle : Gen]
NoSession == [gen |-> 0, handle |-> 0]
Request == [kind : Lookup \cup {"bind", "reset"}, of : Addr \cup Name \cup {"-"},
            session : Session, gen : Gen]
NoRequest == [kind |-> "reset", of |-> "-", session |-> NoSession, gen |-> 0]
Answer == [of : Addr \cup Name \cup {"-"}, kind : Lookup, found : BOOLEAN, by : Gen,
           cost : Nat]
NoAnswer == [of |-> "-", kind |-> "basic", found |-> FALSE, by |-> 0, cost |-> 0]

VARIABLES
  call,             \* what the interface thread waits for
  stopping,
  generation, failedGeneration, session,
  queue,
  pending, pendingBytes,   \* the three pending sets; pendingBytes
  addresses, names, \* the caches with their orders: sequences, oldest first
  pc, busy,         \* the worker
  backend,          \* it could be created
  request, answer,  \* what the worker has taken, and what it has resolved
  active,           \* activeSession, activeGeneration
  bound             \* the session the backend itself is bound to

store  == <<queue, pending, pendingBytes, addresses, names>>
work   == <<pc, request, answer, active, bound>>
vars   == <<call, stopping, generation, failedGeneration, session, store, work,
            busy, backend>>

----------------------------------------------------------------------------
Init ==
  /\ call = "ready" /\ stopping = FALSE
  /\ generation = 0 /\ failedGeneration = 0 /\ session = NoSession
  /\ queue = <<>> /\ pending = {} /\ pendingBytes = 0
  /\ addresses = <<>> /\ names = <<>>
  /\ pc = "wait" /\ busy = FALSE /\ backend \in BOOLEAN
  /\ request = NoRequest /\ answer = NoAnswer
  /\ active = NoSession /\ bound = NoSession

Key(r) == [kind |-> r.kind, of |-> r.of]
KeyOf(kind, of) == [kind |-> kind, of |-> of]

\* Bytes are counted as pairs of what has them and a number.
Bytes(cache) == Cardinality(UNION {{i} \X (1 .. cache[i].cost) : i \in DOMAIN cache})
CostOf(keys) == Cardinality(UNION {{k} \X (1 .. Cost[k.kind]) : k \in keys})

----------------------------------------------------------------------------
(* The interface thread *)

\* Plausible bug: the bytes of the dropped requests stay counted.
ClearLookupStateUncounted ==
  pending' = {} /\ addresses' = <<>> /\ names' = <<>> /\ UNCHANGED pendingBytes

ClearLookupState ==
  /\ pending' = {} /\ pendingBytes' = 0
  /\ addresses' = <<>> /\ names' = <<>>

\* handle is 0 for a file and the new generation for a process just opened.
ReplaceSession(some, handle) ==
  /\ generation' = generation + 1
  /\ session' = IF some THEN [gen |-> generation + 1, handle |-> handle] ELSE NoSession
  /\ ClearLookupState
  /\ failedGeneration' = 0
  /\ queue' = <<[kind |-> IF some THEN "bind" ELSE "reset", of |-> "-",
                 session |-> session', gen |-> generation + 1]>>

Ready == call = "ready" /\ ~stopping /\ generation < MaxGeneration

Rebind(some, handle) ==
  /\ Ready
  /\ ReplaceSession(some, handle)
  /\ UNCHANGED <<call, stopping, work, busy, backend>>

UseBinary == Rebind(TRUE, 0)
UseLive == Rebind(TRUE, generation + 1)
ResetSession == Rebind(FALSE, 0)

\* Other options: the same session again, with its handle.
Configure == Rebind(session # NoSession, session.handle)

Cached(kind, of) ==
  IF kind = "name" THEN \E i \in DOMAIN names : names[i].of = of
  ELSE \E i \in DOMAIN addresses :
         addresses[i].of = of /\ (kind = "detailed" => addresses[i].kind = "detailed")

\* Plausible bug: each kind of lookup looks into its own pending set only.
CoalescedByKind(kind, of) == KeyOf(kind, of) \in pending

\* A basic lookup is served by a detailed one on its way.
Coalesced(kind, of) ==
  \/ KeyOf(kind, of) \in pending
  \/ kind = "basic" /\ KeyOf("detailed", of) \in pending

\* A lookup that has to be asked of the worker.
Ask(kind, of) ==
  /\ call = "ready" /\ ~stopping
  /\ session # NoSession /\ failedGeneration # generation
  /\ ~Cached(kind, of) /\ ~Coalesced(kind, of)
  /\ Cardinality(pending) < MaxPending
  /\ pendingBytes + Cost[kind] <= MaxQueuedBytes
  /\ pending' = pending \cup {KeyOf(kind, of)}
  /\ pendingBytes' = pendingBytes + Cost[kind]
  /\ queue' = Append(queue, [kind |-> kind, of |-> of, session |-> session,
                             gen |-> generation])
  /\ UNCHANGED <<call, stopping, generation, failedGeneration, session, addresses,
                 names, work, busy, backend>>

LookupAddress == \E a \in Addr, kind \in {"basic", "detailed"} : Ask(kind, a)
LookupName == \E n \in Name : Ask("name", n)

\* The document is about to be closed or its file to be changed.
CancelAndWaitIdle ==
  /\ call = "ready"
  /\ \/ /\ Ready /\ ReplaceSession(FALSE, 0) /\ call' = "waiting"
     \/ /\ stopping
        /\ session' = NoSession /\ ClearLookupState /\ queue' = <<>>
        /\ call' = "ready"
        /\ UNCHANGED <<generation, failedGeneration>>
  /\ UNCHANGED <<stopping, work, busy, backend>>

\* Plausible bug: an empty queue is taken for an idle worker.
IdleByQueue == queue = <<>>
\* Plausible bug: a worker between two requests is taken for an idle one.
IdleByFlag == ~busy

IdleNow == ~busy /\ queue = <<>>

Idle ==
  /\ call = "waiting" /\ IdleNow
  /\ call' = "ready"
  /\ UNCHANGED <<stopping, generation, failedGeneration, session, store, work, busy,
                 backend>>

Destroy ==
  /\ call = "ready"
  /\ stopping' = TRUE /\ queue' = <<>> /\ call' = "joining"
  /\ UNCHANGED <<generation, failedGeneration, session, pending, pendingBytes,
                 addresses, names, work, busy, backend>>

Join ==
  /\ call = "joining" /\ pc = "ended"
  /\ call' = "gone"
  /\ UNCHANGED <<stopping, generation, failedGeneration, session, store, work, busy,
                 backend>>
----------------------------------------------------------------------------
(* The worker *)

Current(r) == ~stopping /\ generation = r.session.gen
CallerKept == UNCHANGED <<call, stopping, generation, session>>
Step(from, to) == pc = from /\ pc' = to

Take ==
  /\ pc = "wait" /\ queue # <<>>
  /\ request' = Head(queue) /\ queue' = Tail(queue)
  /\ busy' = TRUE
  /\ pc' = CASE ~backend -> "fail"
             [] backend /\ request'.kind = "reset" -> "reset"
             [] OTHER -> "check"
  /\ UNCHANGED <<failedGeneration, pending, pendingBytes, addresses, names, answer,
                 active, bound, backend>>
  /\ CallerKept

\* What the worker does on its own, without the mutex or only reading under it.
Alone == CallerKept /\ UNCHANGED <<failedGeneration, store, busy, backend, request>>

ResetBackend ==
  /\ Step("reset", "done")
  /\ bound' = NoSession /\ active' = NoSession
  /\ Alone /\ UNCHANGED answer

Serve == IF request.kind = "bind" THEN "done" ELSE "resolve"

Check ==
  /\ Step("check", CASE failedGeneration = request.session.gen -> "fail"
                     [] failedGeneration # request.session.gen /\ ~Current(request) -> "cancel"
                     [] OTHER -> IF active.gen = request.session.gen THEN Serve ELSE "unbind")
  /\ Alone /\ UNCHANGED <<answer, active, bound>>

\* A call of the backend, after which the generation is looked at again; it may throw.
Backend(from, to) ==
  /\ pc = from
  /\ pc' \in {IF Current(request) THEN to ELSE "cancel", "fail"}
  /\ Alone /\ UNCHANGED answer

Unbind ==
  /\ Backend("unbind", "bind")
  /\ bound' = NoSession /\ active' = NoSession

Activate(to) == active' = IF pc' = to THEN request.session ELSE active

BindBackend ==
  LET to == IF request.session.handle = 0 THEN Serve ELSE "modules" IN
  /\ Backend("bind", to)
  /\ bound' = IF pc' = "fail" THEN NoSession ELSE request.session
  /\ IF to = "modules" THEN UNCHANGED active ELSE Activate(to)

EnsureModules ==
  /\ Backend("modules", Serve)
  /\ Activate(Serve) /\ UNCHANGED bound

\* The first look of publishAddress at the generation follows the backend's answer.
Resolve ==
  /\ pc = "resolve"
  /\ \/ /\ \E found \in BOOLEAN :
             answer' = [of |-> request.of, kind |-> request.kind, found |-> found,
                        by |-> bound.gen,
                        cost |-> Weight[IF found THEN request.kind ELSE "basic"]]
        /\ pc' = IF request.kind # "name" /\ request.gen # generation
                 THEN "done" ELSE "publish"
     \/ pc' = "fail" /\ UNCHANGED answer
  /\ Alone /\ UNCHANGED <<active, bound>>

\* What publishing a request takes away with it.
Retire(r) ==
  IF Key(r) \in pending
  THEN /\ pending' = pending \ {Key(r)}
       /\ pendingBytes' = pendingBytes - Cost[r.kind]
  ELSE UNCHANGED <<pending, pendingBytes>>

\* The cache without what it has of an address or a name.
Without(cache, of) ==
  LET old == {i \in DOMAIN cache : cache[i].of = of}
  IN  IF old = {} THEN cache ELSE RemoveAt(cache, CHOOSE i \in old : TRUE)

\* The cache without its oldest entries, as few as leave most of them and fit
\* beside other bytes.
Evict(cache, most, others) ==
  LET rest(k) == SubSeq(cache, k + 1, Len(cache))
      fits(k) == Len(rest(k)) <= most /\ Bytes(rest(k)) + others <= MaxRetainedBytes
  IN  rest(CHOOSE k \in 0 .. Len(cache) :
             /\ fits(k) \/ k = Len(cache)
             /\ \A j \in 0 .. (k - 1) : ~fits(j))

\* Plausible bug: a failed rich lookup is published as it is.
UpgradeAlways(a) == a

\* A rich lookup that fails keeps the name that is already proven.
Upgrade(a) ==
  LET kept == {i \in DOMAIN addresses : addresses[i].of = a.of /\ addresses[i].found}
  IN  IF a.kind = "detailed" /\ ~a.found /\ kept # {}
      THEN [a EXCEPT !.found = TRUE, !.by = addresses[CHOOSE i \in kept : TRUE].by,
                     !.cost = Weight["basic"]]
      ELSE a

\* Plausible bug: the cache is bounded by its count alone.
InAddressesByCount(a) ==
  /\ addresses' = Append(Evict(Without(addresses, a.of), MaxAddressCache - 1, 0), a)
  /\ UNCHANGED names

InAddresses(a) ==
  LET as == Evict(Without(addresses, a.of), MaxAddressCache - 1, Bytes(names) + a.cost)
  IN  /\ addresses' = Append(as, a)
      /\ names' = Evict(names, Len(names), Bytes(as) + a.cost)

InNames(a) ==
  LET ns == Evict(Without(names, a.of), MaxNameCache - 1, Bytes(addresses) + a.cost)
  IN  /\ names' = Append(ns, a)
      /\ addresses' = Evict(addresses, Len(addresses), Bytes(ns) + a.cost)

\* Plausible bug: the generation is not looked at again under the mutex.
PublishUnchecked ==
  /\ Step("publish", "done")
  /\ Retire(request)
  /\ IF answer.kind = "name" THEN InNames(answer) ELSE InAddresses(Upgrade(answer))
  /\ CallerKept /\ UNCHANGED <<queue, failedGeneration, busy, backend, request, answer,
                               active, bound>>

Publish ==
  /\ Step("publish", "done")
  /\ IF request.gen # generation THEN UNCHANGED store
     ELSE /\ Retire(request)
          /\ IF answer.kind = "name" THEN InNames(answer) ELSE InAddresses(Upgrade(answer))
          /\ UNCHANGED queue
  /\ CallerKept /\ UNCHANGED <<failedGeneration, busy, backend, request, answer, active,
                               bound>>

Cancel ==
  /\ Step("cancel", "done")
  /\ IF request.gen = generation THEN Retire(request) ELSE UNCHANGED <<pending, pendingBytes>>
  /\ CallerKept /\ UNCHANGED <<failedGeneration, queue, addresses, names, busy, backend,
                               request, answer, active, bound>>

\* Plausible bug: only a failed binding is accounted for.
FailBinding ==
  /\ Step("fail", "done")
  /\ failedGeneration' = IF request.kind = "bind" /\ request.gen = generation
                         THEN generation ELSE failedGeneration
  /\ CallerKept /\ UNCHANGED <<store, busy, backend, request, answer, active, bound>>

Fail ==
  /\ Step("fail", "done")
  /\ IF request.gen = generation
     THEN /\ Retire(request)
          /\ failedGeneration' = IF request.kind = "bind" THEN generation
                                 ELSE failedGeneration
     ELSE UNCHANGED <<pending, pendingBytes, failedGeneration>>
  /\ CallerKept /\ UNCHANGED <<queue, addresses, names, busy, backend, request, answer,
                               active, bound>>

\* Plausible bug: the worker that ends leaves its flag behind.
WorkerFailsBusy ==
  /\ Step("fail", "ended")
  /\ stopping' = TRUE
  /\ queue' = <<>> /\ pending' = {} /\ pendingBytes' = 0
  /\ request' = NoRequest /\ active' = NoSession /\ bound' = NoSession
  /\ UNCHANGED <<call, generation, failedGeneration, session, addresses, names, answer,
                 backend, busy>>

\* The failure itself cannot be recorded: the worker unwinds and ends.
WorkerFails ==
  /\ Step("fail", "ended")
  /\ stopping' = TRUE /\ busy' = FALSE
  /\ queue' = <<>> /\ pending' = {} /\ pendingBytes' = 0
  /\ request' = NoRequest /\ active' = NoSession /\ bound' = NoSession
  /\ UNCHANGED <<call, generation, failedGeneration, session, addresses, names, answer,
                 backend>>

Done ==
  /\ Step("done", "wait")
  /\ busy' = FALSE /\ request' = NoRequest /\ answer' = NoAnswer
  /\ CallerKept /\ UNCHANGED <<failedGeneration, store, active, bound, backend>>

End ==
  /\ Step("wait", "ended")
  /\ stopping /\ queue = <<>>
  /\ bound' = NoSession /\ active' = NoSession
  /\ Alone /\ UNCHANGED answer

----------------------------------------------------------------------------
Interface ==
  \/ UseBinary \/ UseLive \/ ResetSession \/ Configure
  \/ LookupAddress \/ LookupName
  \/ CancelAndWaitIdle \/ Destroy

Returns == Idle \/ Join

Worker ==
  \/ Take \/ ResetBackend \/ Check \/ Unbind \/ BindBackend \/ EnsureModules \/ Resolve
  \/ Publish \/ Cancel \/ Fail \/ WorkerFails \/ Done \/ End

\* The service is gone with its worker.
Gone == call = "gone" /\ UNCHANGED vars

Next == Interface \/ Returns \/ Worker \/ Gone

Spec == Init /\ [][Next]_vars /\ WF_vars(Worker) /\ WF_vars(Returns)

----------------------------------------------------------------------------
TypeOK ==
  /\ call \in {"ready", "waiting", "joining", "gone"} /\ stopping \in BOOLEAN
  /\ generation \in Gen /\ failedGeneration \in Gen /\ session \in Session
  /\ queue \in Seq(Request) /\ request \in Request
  /\ pending \subseteq [kind : Lookup, of : Addr \cup Name]
  /\ pendingBytes \in 0 .. MaxQueuedBytes
  /\ addresses \in Seq(Answer) /\ names \in Seq(Answer)
  /\ Len(addresses) <= MaxAddressCache /\ Len(names) <= MaxNameCache
  /\ Bytes(addresses) + Bytes(names) <= MaxRetainedBytes
  /\ busy \in BOOLEAN /\ backend \in BOOLEAN
  /\ answer \in Answer
  /\ active \in Session /\ bound \in Session

\* The sessions somebody still refers to, and so the handles that are open.
Open == {s.handle : s \in {session, active, request.session}
                           \cup {queue[i].session : i \in DOMAIN queue}}

(* Whatever is in the caches was resolved by the backend while it was bound *)
(* to the session of today, whichever calls replaced it in between; and it  *)
(* resolves only for the session of the request, with its handle open.      *)
AnswersAreOfTheSession ==
  /\ \A cache \in {addresses, names} : \A i \in DOMAIN cache : cache[i].by = generation
  /\ pc = "resolve" => /\ bound = request.session /\ bound.gen # 0
                       /\ bound.handle \in Open

(* A lookup that is pending, and so answers Pending to every later one, is  *)
(* with the worker or in the queue exactly once and under the generation of *)
(* today, and the bytes it stands for are counted once; the queue holds     *)
(* nothing else but the binding of the session.                             *)
At(i) == IF i = 0 THEN request ELSE queue[i]
Underway == {i \in 0 .. Len(queue) :
               /\ At(i).kind \in Lookup /\ At(i).gen = generation
               /\ i = 0 => pc \notin {"done", "wait"}}
PendingIsUnderway ==
  ~stopping =>
    /\ Cardinality(Underway) = Cardinality(pending)
    /\ pending = {Key(At(i)) : i \in Underway}
    /\ pendingBytes = CostOf(pending)
    /\ \A i \in DOMAIN queue : queue[i].gen = generation

(* Within a session an answer that stays in the cache is never replaced by  *)
(* a poorer one: a name that was found is not lost, a rich record is not    *)
(* overwritten by a basic one that was asked for earlier or later.          *)
AnswersNeverRegress ==
  [][generation' = generation =>
       \A i \in DOMAIN addresses, j \in DOMAIN addresses' :
         addresses[i].of = addresses'[j].of =>
           /\ addresses[i].found => addresses'[j].found
           /\ addresses[i].kind = "detailed" => addresses'[j].kind = "detailed"]_vars

(* When cancelAndWaitIdle returns nothing of a session is left: the backend *)
(* is unbound, the worker holds no request and no handle is open, so that   *)
(* the file may be changed and the process let go.                          *)
QuietAfterCancel ==
  [][call = "waiting" /\ call' = "ready" =>
       bound = NoSession /\ Open = {0} /\ request = NoRequest /\ pending = {}]_vars

(* Every lookup leaves the pending set, and cancelAndWaitIdle and the       *)
(* destructor return, whichever call of the backend fails.                  *)
EveryCallIsAnswered ==
  /\ \A k \in [kind : {"basic", "detailed"}, of : Addr] \cup [kind : {"name"}, of : Name] :
       (k \in pending /\ ~stopping) ~> (k \notin pending \/ stopping)
  /\ (call = "waiting") ~> (call # "waiting")
  /\ (call = "joining") ~> (call = "gone")

(* Cached answers are of the session of today and the best it had.          *)
AnswersHold == []AnswersAreOfTheSession /\ AnswersNeverRegress

(* Sessions are kept apart: no answer of one is seen in another, and nothing *)
(* of one is left when the caller has waited for its end.                    *)
SessionsAreSeparate == AnswersHold /\ QuietAfterCancel

(* SymbolService.h: the handle is duplicated "so a concurrent debugger      *)
(* detach cannot invalidate a DbgHelp call already owned by the worker"     *)
(* (not kept by the code for the call that unbinds: README, section 5).     *)
HandleOutlivesBinding ==
  pc \in {"reset", "unbind"} => bound.handle \in Open

=============================================================================
