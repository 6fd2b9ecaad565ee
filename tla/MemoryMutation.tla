--------------------------- MODULE MemoryMutation ---------------------------
(***************************************************************************)
(* The checked write into a debugged process: open the page protections,   *)
(* write, read back, roll back what did not verify, restore protections    *)
(* and flush the instruction cache.  Every native call may fail, a failed  *)
(* one may still have had an effect, and whatever could not be undone is   *)
(* retained and reconciled before the next write.                          *)
(*                                                                         *)
(* The debug-event owner is the only caller and the target is stopped while*)
(* one operation runs, so the target's own changes come between operations.*)
(***************************************************************************)
EXTENDS Naturals

CONSTANTS
  Addr,         \* addresses of the target
  Byte,         \* contents of one address
  Region,       \* ranges of pages with one protection
  RegionOf,     \* the region of each address
  Protection,   \* page protections
  Writable      \* the protection under which the debugger writes

ASSUME MutationAssumption ==
  /\ RegionOf \in [Addr -> Region]
  /\ Writable \in Protection

VARIABLES
  mem, prot,            \* the target: contents and page protections
  alive,                \* FALSE once the process is signalled
  healthy,              \* TRUE once native calls stop failing
  retained,             \* retainedMutation # nullptr
  range,                \* the addresses of the mutation
  original, replacement, working,
  originalProtection, restorePending,      \* per region
  rollbackPending, flushPending, applied,
  failed,               \* some failure flag is set
  phase, op, todo, wrote,   \* the running operation: step, kind, loop, result of write
  verdict,              \* what the last operation returned
  \* The variables below only observe.
  ours,                 \* bytes that hold what this mutation wrote
  cold,                 \* bytes changed since the instruction cache was flushed
  home                  \* the protections the target chose itself

memory   == <<mem, prot, alive, healthy>>
plan     == <<range, original, replacement, originalProtection>>
duties   == <<restorePending, rollbackPending, flushPending, applied, failed>>
control  == <<op, todo, wrote>>
observed == <<ours, cold, home>>
mutationVars == <<memory, retained, plan, working, duties, phase, control, verdict, observed>>

----------------------------------------------------------------------------
\* A native call: it may always fail while calls still fail, and must once the
\* process is gone.
Outcomes == IF ~alive THEN {FALSE} ELSE IF healthy THEN {TRUE} ELSE BOOLEAN

\* failures |= flag unless the step succeeded; flags are never cleared.
Flag(ok) == failed \/ ~ok

\* Plausible bug: a protection that could not be changed is not owed back.
OweIfChanged(r, ok) == IF ok THEN restorePending \cup {r} ELSE restorePending

\* The obligation is recorded before the call: a failure is no permission to
\* forget it.
Owe(r, ok) == restorePending \cup {r}

\* Plausible bug: a restored protection stays on the list.
StillOwedAlways(r, restored, matches) == restorePending

StillOwed(r, restored, matches) ==
  IF restored \/ matches THEN restorePending \ {r} ELSE restorePending

\* Plausible bug: a write that claims success needs no rollback.
RollbackAfterByWrite(written, verified) == ~written

RollbackAfter(written, verified) == ~(written /\ verified)

\* Plausible bug: success is what the write call claims.
AppliedByWrite(written, verified) == written

Applied(written, verified) == written /\ verified

\* Plausible bug: only a write that succeeded leaves a cold cache.
FlushAfterWrite(written) == written

\* Set before even a partially failing write.
FlushAfter(written) == TRUE

\* Plausible bug: the rollback puts every original byte back.
RestoredRegardless(a) == original[a]

\* A byte is restored only while it still matches this write.
Restored(a) == IF a \in range /\ mem[a] = replacement[a] THEN original[a] ELSE mem[a]

\* MemoryMutationPending, given whether a flush is still owed.
Pending(flush) == rollbackPending \/ flush \/ restorePending # {}

RegionsOf(addresses) == {RegionOf[a] : a \in addresses}

MutationInit ==
  /\ mem \in [Addr -> Byte] /\ prot \in [Region -> Protection]
  /\ alive = TRUE /\ healthy = FALSE
  /\ retained = FALSE /\ range = {}
  /\ original = mem /\ replacement = mem /\ working = mem
  /\ originalProtection = prot /\ restorePending = {}
  /\ rollbackPending = FALSE /\ flushPending = FALSE /\ applied = FALSE /\ failed = FALSE
  /\ phase = "idle" /\ op = "none" /\ todo = {} /\ wrote = FALSE /\ verdict = TRUE
  /\ ours = {} /\ cold = {} /\ home = prot

----------------------------------------------------------------------------
(* checkedRemoteWrite: with nothing retained it plans the mutation and      *)
(* applies it; a preflight failure changes nothing.                         *)

Begin ==
  /\ phase = "idle" /\ ~retained
  /\ \E addresses \in SUBSET Addr \ {{}}, bytes \in [Addr -> Byte] :
       /\ range' = addresses /\ replacement' = bytes
       /\ todo' = RegionsOf(addresses)
  /\ original' = mem /\ working' = mem /\ originalProtection' = prot
  /\ restorePending' = {} /\ rollbackPending' = FALSE /\ flushPending' = FALSE
  /\ applied' = FALSE /\ failed' = FALSE
  /\ retained' = TRUE
  /\ TRUE \in Outcomes
  /\ phase' = "open" /\ op' = "apply" /\ wrote' = FALSE
  /\ ours' = {}
  /\ UNCHANGED <<memory, verdict, cold, home>>

\* The mutation cannot be prepared.  (One of the code's refusals is silent: a region
\* that VirtualQueryEx returns without the address it was asked for, which it does not.)
Refuse ==
  /\ phase = "idle" /\ ~retained
  /\ FALSE \in Outcomes
  /\ verdict' = FALSE /\ failed' = TRUE
  /\ UNCHANGED <<memory, retained, plan, working, restorePending, rollbackPending, flushPending,
                 applied, phase, control, observed>>

\* reconcileRetainedMutation, the first step of every later operation: a process
\* that has exited has nothing to restore.
Reconcile ==
  /\ phase = "idle" /\ retained
  /\ IF alive
     THEN /\ phase' = IF rollbackPending THEN "survey" ELSE "restore"
          /\ todo' = restorePending /\ op' = "reconcile"
          /\ UNCHANGED <<retained, verdict>>
     ELSE /\ retained' = FALSE /\ verdict' = TRUE
          /\ UNCHANGED <<phase, todo, op>>
  /\ UNCHANGED <<memory, plan, working, duties, wrote, observed>>

----------------------------------------------------------------------------
(* MakeMutationWritable, of an application ("open") or a rollback ("reopen"). *)

MakeWritable(at, next) ==
  /\ phase = at
  /\ IF todo = {}
     THEN /\ phase' = next
          /\ UNCHANGED <<prot, todo, duties>>
     ELSE \E r \in todo, ok \in Outcomes, changed \in BOOLEAN :
            /\ ok => changed
            /\ alive \/ ~changed
            /\ prot' = IF changed THEN [prot EXCEPT ![r] = Writable] ELSE prot
            /\ restorePending' = Owe(r, ok)
            /\ failed' = Flag(ok)
            /\ phase' = IF ok THEN at ELSE "restore"
            /\ todo' = IF ok THEN todo \ {r} ELSE restorePending'
            /\ UNCHANGED <<rollbackPending, flushPending, applied>>
  /\ UNCHANGED <<mem, alive, healthy, retained, plan, working, op, wrote, verdict, observed>>

\* WriteProcessMemory of content over the range.  A failed call may write a
\* part, and one that claims success may not have written everything.
WriteBytes(at, content, next) ==
  /\ phase = at
  /\ \E ok \in Outcomes, part \in SUBSET range :
       /\ healthy /\ alive => part = range
       /\ ~alive => part = {}
       /\ mem' = [a \in Addr |-> IF a \in part THEN content[a] ELSE mem[a]]
       /\ ours' = IF at = "write" THEN ours \cup part ELSE ours \ part
       /\ cold' = cold \cup part
       /\ wrote' = ok
       /\ flushPending' = FlushAfter(ok)
       /\ failed' = Flag(ok)
  /\ phase' = next
  /\ UNCHANGED <<prot, alive, healthy, retained, plan, working, restorePending,
                 rollbackPending, applied, op, todo, verdict, home>>

Write == WriteBytes("write", replacement, "verify")

\* ApplyMemoryMutation after its write: the readback decides.
Verify ==
  /\ phase = "verify"
  /\ \E ok \in Outcomes :
       LET verified == ok /\ \A a \in range : mem[a] = replacement[a]
       IN /\ applied' = Applied(wrote, verified)
          /\ rollbackPending' = RollbackAfter(wrote, verified)
          /\ failed' = Flag(verified)
          /\ phase' = IF RollbackAfter(wrote, verified) THEN "survey" ELSE "restore"
  /\ todo' = restorePending /\ wrote' = FALSE
  /\ UNCHANGED <<memory, retained, plan, working, restorePending, flushPending, op, verdict,
                 observed>>

\* ReconcileMemoryMutation reads what the target holds now.
Survey ==
  /\ phase = "survey"
  /\ \E ok \in Outcomes :
       LET needsWrite == \E a \in range : mem[a] = replacement[a] /\ mem[a] # original[a]
       IN /\ failed' = Flag(ok)
          /\ working' = IF ok THEN [a \in Addr |-> Restored(a)] ELSE working
          /\ rollbackPending' = (ok => needsWrite)
          /\ phase' = IF ok /\ needsWrite THEN "reopen" ELSE "restore"
          /\ todo' = IF ok /\ needsWrite THEN RegionsOf(range) ELSE restorePending
  /\ UNCHANGED <<memory, retained, plan, restorePending, flushPending, applied, op, wrote,
                 verdict, observed>>

Rewrite == WriteBytes("rewrite", working, "reverify")

Reverify ==
  /\ phase = "reverify"
  /\ \E ok \in Outcomes :
       LET verified == ok /\ \A a \in range : mem[a] = working[a]
       IN /\ rollbackPending' = ~verified
          /\ failed' = Flag(verified)
  /\ phase' = "restore" /\ todo' = restorePending /\ wrote' = FALSE
  /\ UNCHANGED <<memory, retained, plan, working, restorePending, flushPending, applied, op,
                 verdict, observed>>

\* RestoreMutationEnvironment, one owed region at a time.
RestoreProtection ==
  /\ phase = "restore" /\ todo # {}
  /\ \E r \in todo, restored \in Outcomes, changed \in BOOLEAN, query \in Outcomes :
       /\ restored => changed
       /\ alive \/ ~changed
       /\ prot' = IF changed THEN [prot EXCEPT ![r] = originalProtection[r]] ELSE prot
       /\ restorePending' = StillOwed(r, restored, query /\ prot'[r] = originalProtection[r])
       /\ failed' = Flag(restored)
       /\ todo' = todo \ {r}
  /\ UNCHANGED <<mem, alive, healthy, retained, plan, working, rollbackPending, flushPending,
                 applied, phase, op, wrote, verdict, observed>>

\* The flush, and the end of the operation: what is still pending is retained.
FlushCache ==
  /\ phase = "restore" /\ todo = {}
  /\ \E ok \in Outcomes :
       LET flushed == flushPending /\ ok
       IN /\ flushPending' = (flushPending /\ ~ok)
          /\ cold' = IF flushed THEN cold \ range ELSE cold
          /\ failed' = Flag(flushPending => ok)
  /\ retained' = Pending(flushPending')
  /\ verdict' = IF op = "apply" THEN applied ELSE ~Pending(flushPending')
  /\ working' = IF retained' THEN working ELSE original   \* freed with the mutation
  /\ phase' = "idle" /\ op' = "none"
  /\ UNCHANGED <<memory, plan, restorePending, rollbackPending, applied, todo, wrote,
                 ours, home>>

----------------------------------------------------------------------------
(* The target between operations.                                          *)

\* Memory changes while the target runs, or when a user's edit is written by
\* the separate memory-write transaction, even while a rollback is owed.
TargetWrites ==
  /\ phase = "idle" /\ alive
  /\ \E a \in Addr, b \in Byte :
       /\ mem' = [mem EXCEPT ![a] = b]
       /\ ours' = ours \ {a}
  /\ UNCHANGED <<prot, alive, healthy, retained, plan, working, duties, phase, control, verdict,
                 cold, home>>

\* The target changes a protection only while it runs: never while a mutation
\* is retained, because execution then stays paused.
TargetProtects ==
  /\ phase = "idle" /\ alive /\ ~retained
  /\ \E r \in Region, p \in Protection :
       prot' = [prot EXCEPT ![r] = p] /\ home' = [home EXCEPT ![r] = p]
  /\ UNCHANGED <<mem, alive, healthy, retained, plan, working, duties, phase, control, verdict,
                 ours, cold>>

\* The process can be terminated from outside at any moment.
TargetExits ==
  /\ alive /\ alive' = FALSE
  /\ UNCHANGED <<mem, prot, healthy, retained, plan, working, duties, phase, control, verdict,
                 observed>>

\* Between operations, so that one begun later runs with calls that all work.
Heal ==
  /\ phase = "idle" /\ ~healthy /\ healthy' = TRUE
  /\ UNCHANGED <<mem, prot, alive, retained, plan, working, duties, phase, control, verdict,
                 observed>>

----------------------------------------------------------------------------
Operation == \/ MakeWritable("open", "write") \/ Write \/ Verify
             \/ Survey \/ MakeWritable("reopen", "rewrite") \/ Rewrite \/ Reverify
             \/ RestoreProtection \/ FlushCache

MutationNext ==
  \/ Begin \/ Refuse \/ Reconcile \/ Operation
  \/ TargetWrites \/ TargetProtects \/ TargetExits \/ Heal

MutationSpec == MutationInit /\ [][MutationNext]_mutationVars

----------------------------------------------------------------------------
(* Properties.                                                             *)

Phases == {"idle", "open", "write", "verify", "survey", "reopen", "rewrite", "reverify", "restore"}

\* The type of every variable; a mutation that counts as applied is not also
\* waiting to be rolled back.
MutationTypeOK ==
  /\ applied => ~rollbackPending
  /\ mem \in [Addr -> Byte] /\ prot \in [Region -> Protection]
  /\ {alive, healthy, retained, rollbackPending, flushPending, applied, failed, wrote, verdict}
       \subseteq BOOLEAN
  /\ range \subseteq Addr
  /\ original \in [Addr -> Byte] /\ replacement \in [Addr -> Byte] /\ working \in [Addr -> Byte]
  /\ originalProtection \in [Region -> Protection] /\ home \in [Region -> Protection]
  /\ restorePending \subseteq Region /\ todo \subseteq Region
  /\ phase \in Phases /\ op \in {"none", "apply", "reconcile"}
  /\ ours \subseteq Addr /\ cold \subseteq Addr

Settled == phase = "idle" /\ ~retained /\ alive

\* A write that was not applied leaves no byte of its own behind once nothing is
\* retained, whichever of its calls failed, and however often the rollback did.
FailedWriteLeavesNothing ==
  Settled /\ ~applied => \A a \in ours : mem[a] = original[a]

\* Once nothing is retained, every page is under the protection the target chose.
ProtectionsGivenBack == Settled => prot = home

\* Once nothing is retained, the processor executes the bytes that can be read.
CacheFlushed == Settled => cold = {}

\* A failure is never silent: what is retained, or was refused, has a flag set.
FailureReported == phase = "idle" /\ (retained \/ ~verdict) => failed

\* A write that returns true has put its bytes there.
AppliedIsTrue ==
  [][phase = "restore" /\ phase' = "idle" /\ op = "apply" /\ verdict'
       => \A a \in range : mem[a] = replacement[a]]_mutationVars

\* A rollback touches only bytes that still hold what the failed write put
\* there, and only to put the original byte back: a change that superseded the
\* write is kept (DebuggerMemoryMutation.h:71-72).
SupersededKept ==
  [][phase = "rewrite" /\ phase' = "reverify" =>
       \A a \in Addr : mem'[a] # mem[a] => mem[a] = replacement[a] /\ mem'[a] = original[a]]_mutationVars

\* One retry recovers everything once native calls work, whatever was owed.
RetryRecovers ==
  [][phase = "restore" /\ phase' = "idle" /\ healthy /\ alive => ~retained']_mutationVars

(* When nothing is owed any more, nothing of a failed write is left: neither *)
(* its bytes nor a protection, nor an instruction cache that holds them.     *)
NothingOwed == FailedWriteLeavesNothing /\ ProtectionsGivenBack /\ CacheFlushed

(* A write that is called done is there, and taking one back never takes     *)
(* what the target has written since.                                        *)
HonestWrites == AppliedIsTrue /\ SupersededKept

=============================================================================
