---------------------------- MODULE MemoryWrites ----------------------------
(***************************************************************************)
(* Writes to the memory of the debugged process (Core/Debugger.cpp:        *)
(* writeMemoryOwned, writeMemoryBatchForSession, servicePendingWrites,     *)
(* performMemoryWrite, cancelPendingWritesLocked).  A caller queues its    *)
(* spans under mtx_, wakes the thread that owns the debug events or breaks *)
(* into the running target, and waits ten seconds for each answer.  The    *)
(* owner performs one span after the other while it holds a debug event,   *)
(* under mtx_ from the first look to the answer: it changes protections,   *)
(* reads what is there, writes around the traps of the breakpoints, and    *)
(* commits the bytes beneath them under the lock that a timed-out caller   *)
(* takes to cancel.                                                        *)
(*                                                                         *)
(* A scalar call is a batch of one.  The calls that are turned away at     *)
(* once, for another session or beyond the limits, change nothing and are  *)
(* no actions here.  Breakpoints come and go as the target's events have   *)
(* it; BreakpointCommands has their queues.  The target's own stores, the  *)
(* breakpoints of traces and probes (handled as the user's are), a GML     *)
(* stop and exceptions in the owner are left out.                          *)
(***************************************************************************)
EXTENDS Naturals, Sequences, FiniteSets, SequencesExt

CONSTANTS
  Caller, Addr,
  Byte, Int3,       \* contents; Int3 is the trap instruction
  Code,             \* executable addresses, not writable
  Calls,            \* Calls[c]: what c may ask, sequences of spans
  MaxPending,       \* kMaxPendingMemoryWrites
  MaxPendingBytes   \* kMaxPendingMemoryWriteBytes

Span == UNION {Range(call) : call \in UNION Range(Calls)}
Size(span) == Cardinality(DOMAIN span.bytes)

ASSUME WritesAssumption ==
  /\ Code \subseteq Addr /\ Int3 \in Byte /\ \E b \in Byte : b # Int3
  /\ Calls \in [Caller -> SUBSET (Seq(Span) \ {<<>>})]
  /\ \A span \in Span : /\ IsFiniteSet(DOMAIN span.bytes) /\ DOMAIN span.bytes \subseteq Addr
                        /\ span.bytes \in [DOMAIN span.bytes -> Byte]
  /\ {MaxPending, MaxPendingBytes} \subseteq Nat

VARIABLES
  state,            \* state_
  quit, cleanupOnly,
  bytes, bp,        \* the target's memory; each address's breakpoint
  open,             \* addresses whose protection is changed
  req,              \* req[c]: the requests of c's call
  pc, results,      \* what c does; the answers it has
  pending, pendingBytes,   \* pendingWrites_, pendingWriteBytes_
  active, before,   \* the request the owner has taken, and what it read
  owner,            \* the owner's step
  sync,             \* traceSyncBreakRequested_; its break is under way
  unbroken,         \* an injection has failed since the last event (history)
  reported          \* lastEvent_ said that a restoration was incomplete

target == <<bytes, bp, open>>
calls  == <<req, pc, results>>
queue  == <<pending, pendingBytes>>
loop   == <<owner, sync, unbroken>>
vars   == <<state, quit, cleanupOnly, target, calls, queue, active, before,
            loop, reported>>

None == [at |-> "none"]
NoBp == [kind |-> "none"]
Bp(kind, byte) == [kind |-> kind, orig |-> byte]
Idle == active.at \in {"none", "taken"}    \* the owner does not hold mtx_

----------------------------------------------------------------------------
Init ==
  /\ state = "Running" /\ quit = FALSE /\ cleanupOnly = FALSE
  /\ bytes = [a \in Addr |-> CHOOSE b \in Byte : b # Int3]
  /\ bp = [a \in Addr |-> NoBp] /\ open = {}
  /\ req = [c \in Caller |-> <<>>] /\ pc = [c \in Caller |-> "free"]
  /\ results = [c \in Caller |-> <<>>]
  /\ pending = <<>> /\ pendingBytes = 0
  /\ active = None /\ before = <<>>
  /\ owner = "waits" /\ sync = FALSE /\ unbroken = FALSE
  /\ reported = FALSE

----------------------------------------------------------------------------
(* The callers.  A request is stale when its epoch is not controlEpoch_ any *)
(* more.                                                                    *)

Request(span) ==
  [span |-> span, stale |-> FALSE, submitted |-> state,
   cancel |-> FALSE, done |-> FALSE, written |-> FALSE]

\* The bytes of the spans I of a call: each is a pair of a span and an address.
Total(call, I) == Cardinality(UNION {{i} \X DOMAIN call[i].bytes : i \in I})

Submit(c) ==
  /\ pc[c] = "free" /\ Idle
  /\ ~cleanupOnly
  /\ \E call \in Calls[c] :
       /\ Len(pending) + Len(call) <= MaxPending
       /\ pendingBytes + Total(call, DOMAIN call) <= MaxPendingBytes
       /\ req' = [req EXCEPT ![c] = [i \in DOMAIN call |-> Request(call[i])]]
       /\ pending' = pending \o [i \in DOMAIN call |-> <<c, i>>]
       /\ pendingBytes' = pendingBytes + Total(call, DOMAIN call)
  /\ pc' = [pc EXCEPT ![c] = IF state = "Running" THEN "wake" ELSE "waits"]
  /\ UNCHANGED <<state, quit, cleanupOnly, target, results, active, before,
                 loop, reported>>

\* A call that found the target running asks for a break; one that found it
\* paused has notified cmdCv_, whose waiter looks at the queue.
Wake(c) ==
  /\ pc[c] = "wake" /\ Idle
  /\ pc' = [pc EXCEPT ![c] = "waits"]
  /\ IF ~req[c][1].stale /\ state = "Running" /\ ~cleanupOnly /\ ~sync
     THEN \/ sync' = TRUE /\ UNCHANGED unbroken
          \/ unbroken' = TRUE /\ UNCHANGED sync
     ELSE UNCHANGED <<sync, unbroken>>
  /\ UNCHANGED <<state, quit, cleanupOnly, target, req, results, queue, active,
                 before, owner, reported>>

Current(c) == Len(results[c]) + 1

Collect(c) ==
  /\ pc[c] = "waits" /\ Current(c) \in DOMAIN req[c]
  /\ req[c][Current(c)].done
  /\ results' = [results EXCEPT ![c] =
       Append(@, IF req[c][Current(c)].written THEN "written" ELSE "refused")]
  /\ UNCHANGED <<state, quit, cleanupOnly, target, req, pc, queue, active,
                 before, loop, reported>>

\* Plausible bug: a request that the owner has taken is not told.
DeadlineIfQueued(c) ==
  /\ pc[c] = "waits" /\ Current(c) \in DOMAIN req[c]
  /\ ~req[c][Current(c)].done
  /\ req' = [req EXCEPT ![c][Current(c)].cancel = <<c, Current(c)>> \in Range(pending)]
  /\ results' = [results EXCEPT ![c] = Append(@, "refused")]
  /\ UNCHANGED <<state, quit, cleanupOnly, target, pc, queue, active, before,
                 loop, reported>>

\* The wait for the current request ends unanswered.
Deadline(c) ==
  /\ pc[c] = "waits" /\ Current(c) \in DOMAIN req[c]
  /\ ~req[c][Current(c)].done
  /\ req' = [req EXCEPT ![c][Current(c)].cancel = TRUE]
  /\ results' = [results EXCEPT ![c] = Append(@, "refused")]
  /\ UNCHANGED <<state, quit, cleanupOnly, target, pc, queue, active, before,
                 loop, reported>>

Queued(id) == id \in Range(pending)

\* Plausible bug: a request that the owner has taken is subtracted again.
LeftTaken(c) == {i \in DOMAIN req[c] : req[c][i].cancel /\ ~req[c][i].done}

Left(c) == {i \in DOMAIN req[c] :
              req[c][i].cancel /\ ~req[c][i].done /\ Queued(<<c, i>>)}

Spans(c) == [i \in DOMAIN req[c] |-> req[c][i].span]

\* What is left of the queue at the places I, in its order.
Kept(I) ==
  [n \in 1 .. Cardinality(I) |->
     pending[CHOOSE i \in I : Cardinality({j \in I : j <= i}) = n]]

\* The call returns.  Its timed-out requests that the owner has not taken
\* leave the queue first; one that it has taken lives on without a caller.
Return(c) ==
  /\ pc[c] = "waits" /\ Idle /\ Len(results[c]) = Len(req[c])
  /\ pending' = Kept({n \in DOMAIN pending : pending[n] \notin {c} \X Left(c)})
  /\ pendingBytes' = pendingBytes - Total(Spans(c), Left(c))
  /\ active' = IF active.at # "none" /\ active.id[1] = c
               THEN [active EXCEPT !.orphan = TRUE] ELSE active
  /\ req' = [req EXCEPT ![c] = <<>>] /\ results' = [results EXCEPT ![c] = <<>>]
  /\ pc' = [pc EXCEPT ![c] = "free"]
  /\ UNCHANGED <<state, quit, cleanupOnly, target, before, loop, reported>>

----------------------------------------------------------------------------
(* The thread that owns the debug events.  It takes breakpoint edits and   *)
(* writes while it handles an event, while the target is paused, and       *)
(* before it lets the target go.                                           *)

Event ==
  /\ owner = "waits" /\ owner' = "serves" /\ unbroken' = FALSE
  /\ sync' \in {sync, FALSE}     \* the injected break, or another event
  /\ UNCHANGED <<state, quit, cleanupOnly, target, calls, queue, active, before,
                 reported>>

Serving == owner \in {"serves", "paused", "leaves"} /\ active = None

\* Plausible bug: a pause that begins with the queue still full.
ServedUnchecked ==
  /\ owner = "serves" /\ active = None
  /\ owner' = "served"
  /\ UNCHANGED <<state, quit, cleanupOnly, target, calls, queue, active, before,
                 sync, unbroken, reported>>

Served ==
  /\ owner = "serves" /\ active = None /\ pending = <<>>
  /\ owner' = "served"
  /\ UNCHANGED <<state, quit, cleanupOnly, target, calls, queue, active, before,
                 sync, unbroken, reported>>

\* The event stops the target for the user, or a step could not be begun.
Pause ==
  /\ owner = "served" /\ Idle
  /\ owner' = "paused" /\ state' = "Paused"
  /\ UNCHANGED <<quit, cleanupOnly, target, calls, queue, active, before,
                 sync, unbroken, reported>>

Resume ==
  /\ owner = "served" /\ (quit => sync)
  /\ owner' = "waits"
  /\ UNCHANGED <<state, quit, cleanupOnly, target, calls, queue, active, before,
                 sync, unbroken, reported>>

\* A command that resumes the target is taken when nothing else is queued.
Command ==
  /\ owner = "paused" /\ active = None /\ pending = <<>> /\ ~quit
  /\ owner' = "leaves"
  /\ UNCHANGED <<state, quit, cleanupOnly, target, calls, queue, active, before,
                 sync, unbroken, reported>>

\* Plausible bug: the queue is served, and then the state is set.
CloseUnchecked ==
  /\ owner = "leaves" /\ active = None
  /\ owner' = "served" /\ state' = "Running"
  /\ UNCHANGED <<quit, cleanupOnly, target, calls, queue, active, before,
                 sync, unbroken, reported>>

\* The queue is found empty and the state set under one lock.
Close ==
  /\ owner = "leaves" /\ active = None /\ pending = <<>>
  /\ owner' = "served" /\ state' = "Running"
  /\ UNCHANGED <<quit, cleanupOnly, target, calls, queue, active, before,
                 sync, unbroken, reported>>

\* A detach finds the target paused with a break under way, and drains it.
Drain ==
  /\ owner = "paused" /\ active = None /\ quit /\ sync
  /\ owner' = "waits" /\ state' = "Running"
  /\ UNCHANGED <<quit, cleanupOnly, target, calls, queue, active, before,
                 sync, unbroken, reported>>

\* Breakpoints are set, lifted by a hit, set again and removed; temporary
\* ones come and go with steps.
Edit(a) ==
  /\ Serving /\ a \in Code
  /\ \/ /\ bp[a] = NoBp /\ bytes[a] # Int3
        /\ \E kind \in {"armed", "temp"} : bp' = [bp EXCEPT ![a] = Bp(kind, bytes[a])]
        /\ bytes' = [bytes EXCEPT ![a] = Int3]
     \/ /\ bp[a].kind = "armed"
        /\ bp' \in {[bp EXCEPT ![a].kind = "exposed"], [bp EXCEPT ![a] = NoBp]}
        /\ bytes' = [bytes EXCEPT ![a] = IF @ = Int3 THEN bp[a].orig ELSE @]
     \/ /\ bp[a].kind = "exposed" /\ bytes[a] = bp[a].orig
        /\ bp' = [bp EXCEPT ![a].kind = "armed"] /\ bytes' = [bytes EXCEPT ![a] = Int3]
     \/ /\ bp[a].kind = "exposed"
        /\ bp' = [bp EXCEPT ![a] = NoBp] /\ UNCHANGED bytes
     \/ /\ bp[a].kind = "temp" /\ bytes[a] = Int3
        /\ bp' = [bp EXCEPT ![a] = NoBp] /\ bytes' = [bytes EXCEPT ![a] = bp[a].orig]
  /\ UNCHANGED <<state, quit, cleanupOnly, open, calls, queue, active, before, loop,
                 reported>>

----------------------------------------------------------------------------
(* One write. *)

\* Plausible bug: a popped request stays counted.
TakeCounted ==
  /\ Serving /\ pending # <<>>
  /\ LET id == Head(pending)  r == req[id[1]][id[2]] IN
       active' = [at |-> "taken", id |-> id, span |-> r.span, stale |-> r.stale,
                  submitted |-> r.submitted, orphan |-> FALSE]
  /\ pending' = Tail(pending)
  /\ UNCHANGED <<state, quit, cleanupOnly, target, calls, pendingBytes, before,
                 loop, reported>>

Take ==
  /\ Serving /\ pending # <<>>
  /\ LET id == Head(pending)  r == req[id[1]][id[2]] IN
       /\ active' = [at |-> "taken", id |-> id, span |-> r.span, stale |-> r.stale,
                     submitted |-> r.submitted, orphan |-> FALSE]
       /\ pendingBytes' = pendingBytes - Size(r.span)
  /\ pending' = Tail(pending)
  /\ UNCHANGED <<state, quit, cleanupOnly, target, calls, before, loop,
                 reported>>

Cell == DOMAIN active.span.bytes
Cancelled == ~active.orphan => req[active.id[1]][active.id[2]].cancel

\* Plausible bug: a write over a temporary breakpoint goes ahead.
RefusableTemp ==
  \/ active.stale \/ Cancelled
  \/ Cell \cap Code # {} /\ (~active.span.allow \/ active.submitted # "Paused")
  \/ \E a \in Cell : bp[a].kind \in {"armed", "exposed"} /\ active.span.bytes[a] = Int3

\* What performMemoryWrite turns down before it touches the target.
Refusable ==
  \/ active.stale \/ Cancelled
  \/ Cell \cap Code # {} /\ (~active.span.allow \/ active.submitted # "Paused")
  \/ \E a \in Cell : bp[a].kind = "temp"
  \/ \E a \in Cell : bp[a].kind \in {"armed", "exposed"} /\ active.span.bytes[a] = Int3

\* The answer, under the request's lock; the owner then forgets the request.
Answer(written) ==
  /\ req' = IF active.orphan THEN req
            ELSE [req EXCEPT ![active.id[1]][active.id[2]] =
                    [@ EXCEPT !.done = TRUE, !.written = written /\ ~Cancelled]]
  /\ active' = None /\ before' = <<>>
  /\ UNCHANGED <<state, quit, cleanupOnly, pc, results, queue, loop>>

Refuse ==
  /\ active.at = "taken" /\ Refusable
  /\ Answer(FALSE)
  /\ UNCHANGED <<target, reported>>

Prepare ==
  /\ active.at = "taken" /\ ~Refusable
  /\ open' = Cell \cap Code
  /\ before' = [a \in Cell |-> bytes[a]]
  /\ active' = [active EXCEPT !.at = "prepared"]
  /\ UNCHANGED <<state, quit, cleanupOnly, bytes, bp, calls, queue, loop, reported>>

\* A protection or the first read fails.  What was changed is given back, or
\* what remains of it is reported.
PrepareFails ==
  /\ active.at = "taken" /\ ~Refusable
  /\ \/ UNCHANGED <<open, reported>>
     \/ open' \in SUBSET (Cell \cap Code) /\ reported' = TRUE
  /\ Answer(FALSE)
  /\ UNCHANGED <<bytes, bp>>

\* Plausible bug: the bytes are written over the traps.
PhysicalPlain(a) == active.span.bytes[a]

Physical(a) == IF bp[a].kind = "armed" THEN Int3 ELSE active.span.bytes[a]

\* The write, the flush and the verification; or one of them fails, with any
\* part of the bytes written.
Write ==
  /\ active.at = "prepared"
  /\ \E done \in SUBSET Cell, outcome \in {"wrote", "failed"} :
       /\ outcome = "wrote" => done = Cell
       /\ bytes' = [a \in Addr |-> IF a \in done THEN Physical(a) ELSE bytes[a]]
       /\ active' = [active EXCEPT !.at = outcome]
  /\ UNCHANGED <<state, quit, cleanupOnly, bp, open, calls, queue, before, loop, reported>>

Beneath(a) == IF a \in Cell /\ bp[a] # NoBp
              THEN [bp[a] EXCEPT !.orig = active.span.bytes[a]] ELSE bp[a]

\* Plausible bug: the cancellation is not looked at again.
CommitAnyway ==
  /\ active.at = "wrote"
  /\ open' = {} /\ bp' = [a \in Addr |-> Beneath(a)]
  /\ Answer(TRUE)
  /\ UNCHANGED <<bytes, reported>>

\* Plausible bug: the bytes beneath the traps are not renewed.
CommitBytesOnly ==
  /\ active.at = "wrote" /\ ~Cancelled
  /\ open' = {}
  /\ Answer(TRUE)
  /\ UNCHANGED <<bytes, bp, reported>>

\* Under the request's lock: not cancelled, the protections given back, the
\* bytes beneath the traps renewed.
Commit ==
  /\ active.at = "wrote" /\ ~Cancelled
  /\ open' = {} /\ bp' = [a \in Addr |-> Beneath(a)]
  /\ Answer(TRUE)
  /\ UNCHANGED <<bytes, reported>>

\* A failed or cancelled write is undone; so is a good one whose protections
\* cannot be given back.
Undoing ==
  \/ active.at = "failed"
  \/ active.at = "wrote" /\ (Cancelled \/ open # {})

Restored(back) == [a \in Addr |-> IF a \in back THEN before[a] ELSE bytes[a]]

\* Plausible bug: a failed write leaves the protections as they are.
RollBackOnly ==
  /\ Undoing
  /\ bytes' = Restored(Cell)
  /\ Answer(FALSE)
  /\ UNCHANGED <<bp, open, reported>>

RollBack ==
  /\ Undoing
  /\ bytes' = Restored(Cell) /\ open' = {}
  /\ Answer(FALSE)
  /\ UNCHANGED <<bp, reported>>

\* What was done cannot be undone, and that is reported.
RollBackFails ==
  /\ Undoing
  /\ \E back \in SUBSET Cell : bytes' = Restored(back)
  /\ open' \in SUBSET open
  /\ reported' = TRUE
  /\ Answer(FALSE)
  /\ UNCHANGED bp

----------------------------------------------------------------------------
(* The end of a session. *)

CancelPending ==
  /\ req' = [c \in Caller |-> [i \in DOMAIN req[c] |->
       IF Queued(<<c, i>>)
       THEN [req[c][i] EXCEPT !.cancel = TRUE, !.done = TRUE]
       ELSE IF active.at # "none" /\ active.id = <<c, i>>
       THEN [req[c][i] EXCEPT !.cancel = TRUE]
       ELSE req[c][i]]]
  /\ pending' = <<>> /\ pendingBytes' = 0

\* detach: the queue is emptied, a running target is broken into, and the
\* owner is told to leave.
Detach ==
  /\ ~quit /\ Idle
  /\ CancelPending
  /\ quit' = TRUE
  /\ IF state = "Running" /\ ~sync THEN sync' \in BOOLEAN ELSE UNCHANGED sync
  /\ UNCHANGED <<state, cleanupOnly, target, pc, results, active, before, owner,
                 unbroken, reported>>

CleanUp ==
  /\ owner \in {"waits", "served", "paused"} /\ active = None /\ quit /\ ~sync
  /\ CancelPending
  /\ owner' = "gone" /\ cleanupOnly' = TRUE /\ state' = "Paused"
  /\ UNCHANGED <<quit, target, pc, results, active, before, sync,
                 unbroken, reported>>

\* The detach ends and another target is attached to.
BeginSession ==
  /\ owner = "gone"
  /\ req' = [c \in Caller |-> [i \in DOMAIN req[c] |-> [req[c][i] EXCEPT !.stale = TRUE]]]
  /\ state' = "Running" /\ quit' = FALSE /\ cleanupOnly' = FALSE
  /\ bytes' = [a \in Addr |-> CHOOSE b \in Byte : b # Int3]
  /\ bp' = [a \in Addr |-> NoBp] /\ open' = {}
  /\ owner' = "waits" /\ sync' = FALSE /\ unbroken' = FALSE
  /\ reported' = FALSE
  /\ UNCHANGED <<pc, results, queue, active, before>>

----------------------------------------------------------------------------
Perform == \/ Take \/ Refuse \/ Prepare \/ PrepareFails \/ Write
           \/ Commit \/ RollBack \/ RollBackFails

Next ==
  \/ \E c \in Caller : Submit(c) \/ Wake(c) \/ Collect(c) \/ Deadline(c) \/ Return(c)
  \/ Event \/ Served \/ Pause \/ Resume \/ Command \/ Close \/ Drain
  \/ \E a \in Addr : Edit(a)
  \/ Perform
  \/ Detach \/ CleanUp \/ BeginSession

Spec == Init /\ [][Next]_vars

----------------------------------------------------------------------------
Requests == [span : Span, stale : BOOLEAN, submitted : {"Running", "Paused"},
             cancel : BOOLEAN, done : BOOLEAN, written : BOOLEAN]

TypeOK ==
  /\ state \in {"Running", "Paused"}
  /\ quit \in BOOLEAN /\ cleanupOnly \in BOOLEAN
  /\ bytes \in [Addr -> Byte] /\ open \subseteq Code
  /\ bp \in [Addr -> {NoBp} \cup [kind : {"armed", "exposed", "temp"}, orig : Byte]]
  /\ req \in [Caller -> Seq(Requests)] /\ results \in [Caller -> Seq({"written", "refused"})]
  /\ pc \in [Caller -> {"free", "wake", "waits"}]
  /\ pending \in Seq(Caller \X Nat) /\ pendingBytes \in 0..MaxPendingBytes
  /\ active = None \/ active \in
       [at : {"taken", "prepared", "wrote", "failed"}, id : Caller \X Nat, span : Span,
        stale : BOOLEAN, submitted : {"Running", "Paused"}, orphan : BOOLEAN]
  /\ before \in [IF Idle THEN {} ELSE DOMAIN active.span.bytes -> Byte]
  /\ owner \in {"waits", "serves", "served", "paused", "leaves", "gone"}
  /\ sync \in BOOLEAN /\ unbroken \in BOOLEAN
  /\ reported \in BOOLEAN

\* Whatever was written, refused or undone, every trap that is set is in the
\* target and, between writes, every page has its own protection, unless it
\* was reported (keepTrap, restoreDebugWriteProtections).
TargetIsWhole ==
  ~reported =>
    /\ \A a \in Addr : bp[a].kind \in {"armed", "temp"} => bytes[a] = Int3
    /\ \A a \in Addr : bp[a].kind = "exposed" /\ Idle => bytes[a] = bp[a].orig
    /\ active.at \in {"none", "taken"} => open = {}

\* The bytes counted against the limit are those of the queue, which holds
\* unanswered requests of waiting callers (pendingWriteBytes_ is adjusted at
\* four places).
QueueAccounted ==
  /\ Len(pending) <= MaxPending /\ IsInjective(pending)
  /\ \A id \in Range(pending) : id[2] \in DOMAIN req[id[1]] /\ ~req[id[1]][id[2]].done
  /\ pendingBytes = Cardinality(UNION {{id} \X DOMAIN req[id[1]][id[2]].span.bytes :
                                       id \in Range(pending)})

\* The target never runs on with a request that nothing will make it stop
\* for: it was queued too late for the last event, and no break is coming
\* (the race that the loop before the resumption closes).
NobodyStranded ==
  owner = "waits" /\ pending # <<>> /\ ~unbroken =>
    sync \/ \E c \in Caller : pc[c] = "wake"

----------------------------------------------------------------------------
\* The fate of each request as its caller is or will be told.
Fate(c, i) ==
  IF i <= Len(results[c]) THEN results[c][i]
  ELSE IF req[c][i].written THEN "written"
  ELSE IF req[c][i].done \/ req[c][i].cancel THEN "refused" ELSE "open"

\* The target's bytes without the debugger's traps; in the middle of a write
\* they count as they were, for the target is held and mtx_ taken.
Native(a) ==
  IF bp[a] # NoBp THEN bp[a].orig
  ELSE IF a \in DOMAIN before THEN before[a] ELSE bytes[a]

Promise == INSTANCE TargetWrites WITH
  memory <- [a \in Addr |-> Native(a)],
  asked  <- [c \in Caller |-> Spans(c)],
  bound  <- {c \in Caller : req[c] # <<>> /\ ~req[c][1].stale},
  fate   <- [c \in Caller |-> [i \in DOMAIN req[c] |-> Fate(c, i)]]

\* Requests, owner, timeouts and rollback implement writes that happen
\* entirely or not at all and of which the callers are told the truth ("either
\* the caller receives a committed transaction, or the target is verified back
\* at its exact pre-write bytes", performMemoryWrite).
WritesAreKept == Promise!Spec

(* The queue holds the unanswered requests and their bytes, and none of them *)
(* waits for an event that nobody has asked for.                             *)
QueueIsServed == QueueAccounted /\ NobodyStranded

=============================================================================
