----------------------------- MODULE AtomicFile -----------------------------
(***************************************************************************)
(* The crash-resistant file behind project sidecars, the recents index and *)
(* the preferences (Core/AtomicFile.cpp, the Windows build): a save writes *)
(* and flushes a temporary sibling, swaps it with the file and promotes    *)
(* the replaced file to `<path>.bak`; a validated read falls back from the *)
(* file to the backup.  Threads of one process exclude each other with a   *)
(* mutex; another instance of the program does not take part in it.        *)
(*                                                                         *)
(* A file is the number of the save that wrote it, whether its bytes have  *)
(* reached the disk.  Names of temporary siblings are never used again, so *)
(* what is left under them is not modelled.  Renames are ordered and       *)
(* survive a power loss, and an attribute query answers truthfully.        *)
(***************************************************************************)
EXTENDS Integers, Sequences, FiniteSets

CONSTANTS
  Process, Thread,
  ProcessOf,        \* the process of each thread
  MaxSaves,         \* bound: saves begun
  MaxTroubles       \* bound: native failures, killed processes, power losses

ASSUME FileAssumption ==
  /\ ProcessOf \in [Thread -> Process]
  /\ MaxSaves \in Nat
  /\ MaxTroubles \in Nat

Missing == -1       \* there is no such file
Torn    == 0        \* it holds bytes no validation accepts
Save    == 1 .. MaxSaves

File   == [save : {Missing, Torn} \cup Save, safe : BOOLEAN]
NoFile == [save |-> Missing, safe |-> TRUE]

VARIABLES
  target, bak,      \* <path> and <path>.bak
  temp, staged,     \* the temporary sibling and the staged backup of a thread
  owner,            \* gAtomicFileMutex of each process: the threads inside
  pc, saving,       \* each thread's step and the save it carries out
  answer,           \* what its last save returned
  saves, troubles,  \* saves begun, and what went wrong so far
  \* The variables below only observe.
  primaries,        \* the saves that became <path>, in order
  writers,          \* processes that have begun a save
  reading           \* each thread's read: the newest save at its start, its result

disk    == <<target, bak, temp, staged>>
threads == <<owner, pc, saving, answer>>
history == <<primaries, writers, reading>>
vars == <<disk, threads, saves, troubles, history>>

Exists(f) == f.save # Missing
Valid(f)  == f.save \in Save

\* Plausible bug: the transactions are not serialised.
MayAlwaysEnter(w) == TRUE

MayEnter(w) == owner[ProcessOf[w]] = {}

Enter(w)  == owner' = [owner EXCEPT ![ProcessOf[w]] = @ \cup {w}]
Leave(w)  == owner' = [owner EXCEPT ![ProcessOf[w]] = @ \ {w}]
Goto(w, step) == pc' = [pc EXCEPT ![w] = step]

\* A native call that fails, and one that works.
Trouble == troubles < MaxTroubles /\ troubles' = troubles + 1
Smooth  == UNCHANGED troubles

----------------------------------------------------------------------------
Init ==
  /\ target = NoFile /\ bak = NoFile
  /\ temp = [w \in Thread |-> NoFile] /\ staged = temp
  /\ owner = [p \in Process |-> {}]
  /\ pc = [w \in Thread |-> "idle"]
  /\ saving = [w \in Thread |-> 0]
  /\ answer = [w \in Thread |-> "none"]
  /\ saves = 0 /\ troubles = 0
  /\ primaries = <<>> /\ writers = {}
  /\ reading = [w \in Thread |-> [since |-> 0, got |-> Missing]]

\* Write: the transaction begins under the mutex.
BeginWrite(w) ==
  /\ pc[w] = "idle" /\ saves < MaxSaves
  /\ MayEnter(w) /\ Enter(w) /\ Goto(w, "create")
  /\ saves' = saves + 1
  /\ saving' = [saving EXCEPT ![w] = saves + 1]
  /\ answer' = [answer EXCEPT ![w] = "none"]
  /\ writers' = writers \cup {ProcessOf[w]}
  /\ UNCHANGED <<disk, troubles, primaries, reading>>

\* The transaction ends and Write returns.
Return(w, result) ==
  /\ Leave(w) /\ Goto(w, "idle")
  /\ answer' = [answer EXCEPT ![w] = result]
  /\ UNCHANGED <<saving, saves, writers, reading>>

\* A step inside the transaction.
Continue(w, step) ==
  /\ Goto(w, step)
  /\ UNCHANGED <<owner, saving, answer, saves, writers, reading>>

\* The parent directories and CreateFileW(CREATE_NEW).
Create(w) ==
  /\ pc[w] = "create"
  /\ \/ /\ Smooth /\ Continue(w, "fill")
        /\ temp' = [temp EXCEPT ![w] = [save |-> Torn, safe |-> FALSE]]
     \/ Trouble /\ Return(w, "failed") /\ UNCHANGED temp
  /\ UNCHANGED <<target, bak, staged, primaries>>

\* WriteFile, in chunks, until all bytes are written.
Fill(w) ==
  /\ pc[w] = "fill"
  /\ \/ /\ Smooth /\ Continue(w, "flush")
        /\ temp' = [temp EXCEPT ![w].save = saving[w]]
     \/ Trouble /\ Continue(w, "discard") /\ UNCHANGED temp
  /\ UNCHANGED <<target, bak, staged, primaries>>

\* Plausible bug: the bytes are left to the cache of the system.
NoFlush(w) ==
  /\ pc[w] = "flush"
  /\ Smooth /\ Continue(w, "query")
  /\ UNCHANGED <<disk, primaries>>

\* FlushFileBuffers and CloseHandle.
Flush(w) ==
  /\ pc[w] = "flush"
  /\ \/ /\ Smooth /\ Continue(w, "query")
        /\ temp' = [temp EXCEPT ![w].safe = TRUE]
     \/ Trouble /\ Continue(w, "discard") /\ UNCHANGED temp
  /\ UNCHANGED <<target, bak, staged, primaries>>

\* DeleteFileW of the temporary sibling; Write returns false.
Discard(w) ==
  /\ pc[w] = "discard"
  /\ Smooth /\ Return(w, "failed")
  /\ temp' = [temp EXCEPT ![w] = NoFile]
  /\ UNCHANGED <<target, bak, staged, primaries>>

\* GetFileAttributesW decides between a first save and a replacement.
Query(w) ==
  /\ pc[w] = "query"
  /\ Smooth /\ Continue(w, IF Exists(target) THEN "replace" ELSE "move")
  /\ UNCHANGED <<disk, primaries>>

\* Plausible bug: the file is moved away and its replacement moved in after.
ReplaceInTwoSteps(w) ==
  /\ pc[w] = "replace"
  /\ Smooth /\ Continue(w, "move")
  /\ staged' = [staged EXCEPT ![w] = target]
  /\ target' = NoFile
  /\ UNCHANGED <<bak, temp, primaries>>

\* ReplaceFileW: the swap; or a failure that changes nothing; or the one that
\* has already moved the file to the staged name (ERROR_UNABLE_TO_MOVE_REPLACEMENT_2).
Replace(w) ==
  /\ pc[w] = "replace"
  /\ \/ /\ Exists(target) /\ Smooth /\ Continue(w, "rotate")
        /\ target' = temp[w]
        /\ staged' = [staged EXCEPT ![w] = target]
        /\ temp' = [temp EXCEPT ![w] = NoFile]
        /\ primaries' = Append(primaries, saving[w])
     \/ /\ IF Exists(target) THEN Trouble ELSE Smooth
        /\ Continue(w, "recheck")
        /\ UNCHANGED <<target, temp, staged, primaries>>
     \/ /\ Exists(target) /\ Trouble /\ Continue(w, "recheck")
        /\ staged' = [staged EXCEPT ![w] = target]
        /\ target' = NoFile
        /\ UNCHANGED <<temp, primaries>>
  /\ UNCHANGED bak

\* MoveFileExW of the staged file to the stable backup name; when it fails the
\* staged file is deleted and Write returns false although the swap is done.
Rotate(w) ==
  /\ pc[w] = "rotate"
  /\ \/ Smooth /\ bak' = staged[w] /\ Return(w, "saved")
     \/ Trouble /\ UNCHANGED bak /\ Return(w, "failed")
  /\ staged' = [staged EXCEPT ![w] = NoFile]
  /\ UNCHANGED <<target, temp, primaries>>

\* Plausible bug: a failed replacement is given up without another look.
RecheckNothing(w) ==
  /\ pc[w] = "recheck"
  /\ Smooth /\ Continue(w, "discard")
  /\ UNCHANGED <<disk, primaries>>

\* After a failed ReplaceFileW: has the file disappeared?
Recheck(w) ==
  /\ pc[w] = "recheck"
  /\ Smooth /\ Continue(w, IF Exists(target) THEN "discard" ELSE "move")
  /\ UNCHANGED <<disk, primaries>>

\* MoveFileExW(MOVEFILE_REPLACE_EXISTING) of the temporary sibling to <path>.
MoveIn(w) ==
  /\ pc[w] = "move"
  /\ \/ /\ Smooth /\ Return(w, "saved")
        /\ target' = temp[w]
        /\ temp' = [temp EXCEPT ![w] = NoFile]
        /\ primaries' = Append(primaries, saving[w])
     \/ Trouble /\ Continue(w, "discard") /\ UNCHANGED <<target, temp, primaries>>
  /\ UNCHANGED <<bak, staged>>

----------------------------------------------------------------------------
\* ReadValidated: under the mutex, the file and then the backup.
BeginRead(w) ==
  /\ pc[w] = "idle"
  /\ MayEnter(w) /\ Enter(w) /\ Goto(w, "readPrimary")
  /\ reading' = [reading EXCEPT ![w] = [since |-> Len(primaries), got |-> Missing]]
  /\ UNCHANGED <<disk, saving, answer, saves, troubles, primaries, writers>>

EndRead(w, f) ==
  /\ Leave(w) /\ Goto(w, "idle")
  /\ reading' = [reading EXCEPT ![w].got = IF Valid(f) THEN f.save ELSE Missing]

ReadPrimary(w) ==
  /\ pc[w] = "readPrimary"
  /\ IF Valid(target)
     THEN EndRead(w, target)
     ELSE Goto(w, "readBackup") /\ UNCHANGED <<owner, reading>>
  /\ UNCHANGED <<disk, saving, answer, saves, troubles, primaries, writers>>

ReadBackup(w) ==
  /\ pc[w] = "readBackup"
  /\ EndRead(w, bak)
  /\ UNCHANGED <<disk, saving, answer, saves, troubles, primaries, writers>>

----------------------------------------------------------------------------
\* The threads in W are gone; a later run of the program starts with fresh ones.
Gone(W) ==
  /\ pc' = [w \in Thread |-> IF w \in W THEN "idle" ELSE pc[w]]
  /\ temp' = [w \in Thread |-> IF w \in W THEN NoFile ELSE temp[w]]
  /\ staged' = [w \in Thread |-> IF w \in W THEN NoFile ELSE staged[w]]
  /\ owner' = [p \in Process |-> owner[p] \ W]
  /\ answer' = [w \in Thread |-> IF w \in W THEN "none" ELSE answer[w]]
  /\ UNCHANGED <<saving, saves, history>>

\* A process is killed: what it wrote stays in the system's cache.
Killed(p) ==
  /\ \E w \in Thread : ProcessOf[w] = p /\ pc[w] # "idle"
  /\ Trouble
  /\ Gone({w \in Thread : ProcessOf[w] = p})
  /\ UNCHANGED <<target, bak>>

\* Bytes that had not reached the disk may be lost.
AfterPowerLoss(f) == IF f.safe THEN {f} ELSE {f, [save |-> Torn, safe |-> TRUE]}

PowerLoss ==
  /\ \E w \in Thread : pc[w] # "idle"
  /\ Trouble
  /\ Gone(Thread)
  /\ target' \in AfterPowerLoss(target)
  /\ bak' \in AfterPowerLoss(bak)

Step(w) ==
  \/ BeginWrite(w) \/ Create(w) \/ Fill(w) \/ Flush(w) \/ Discard(w)
  \/ Query(w) \/ Replace(w) \/ Rotate(w) \/ Recheck(w) \/ MoveIn(w)
  \/ BeginRead(w) \/ ReadPrimary(w) \/ ReadBackup(w)

Next ==
  \/ \E w \in Thread : Step(w)
  \/ \E p \in Process : Killed(p)
  \/ PowerLoss

Spec == Init /\ [][Next]_vars

----------------------------------------------------------------------------
Steps == {"idle", "create", "fill", "flush", "discard", "query", "replace",
          "rotate", "recheck", "move", "readPrimary", "readBackup"}

\* The types of the variables, and the mutual exclusion of the threads of one
\* process (gAtomicFileMutex).
TypeOK ==
  /\ target \in File /\ bak \in File
  /\ temp \in [Thread -> File] /\ staged \in [Thread -> File]
  /\ owner \in [Process -> SUBSET Thread]
  /\ \A p \in Process : \A v, w \in owner[p] : v = w
  /\ pc \in [Thread -> Steps]
  /\ saving \in [Thread -> 0 .. MaxSaves]
  /\ answer \in [Thread -> {"none", "saved", "failed"}]
  /\ saves \in 0 .. MaxSaves /\ troubles \in 0 .. MaxTroubles
  /\ primaries \in Seq(Save) /\ writers \subseteq Process
  /\ reading \in [Thread -> [since : Nat, got : {Missing} \cup Save]]

Quiet == \A w \in Thread : pc[w] = "idle"

\* What ReadValidated finds when nobody disturbs it.
Found == IF Valid(target) THEN target ELSE bak

\* Neither the file nor its backup ever holds bytes of an unfinished save,
\* whenever a process is killed or the power fails (AtomicFile.h:3 "a
\* successful write has been flushed").
NeverTorn == target.save # Torn /\ bak.save # Torn

\* Once the file has been saved, one failure of any call, one killed process
\* or one power loss leaves the newest save where a read finds it.
NewestSurvives ==
  Quiet /\ troubles <= 1 /\ primaries # <<>> =>
    Found.save = primaries[Len(primaries)]

\* As long as one process writes and nothing fails, the backup is the save
\* before the present one (AtomicFile.h:5-6), whichever threads saved them.
BackupIsPreceding ==
  Quiet /\ troubles = 0 /\ Cardinality(writers) = 1 /\ Len(primaries) > 1 =>
    bak.save = primaries[Len(primaries) - 1]

\* A read during the saves of other processes never finds the file missing
\* or older than it was when the read began (the swap is atomic).
ReadsFindTheSave ==
  \A w \in Thread :
    LET r == reading[w] IN
    troubles = 0 /\ pc[w] = "idle" /\ r.since > 0 =>
      \E i \in r.since .. Len(primaries) : primaries[i] = r.got

\* "Signature library save failed; the previous file/backup remains available"
\* (SignatureLibrary.cpp:191): after a save that failed, a read finds the file
\* (not kept by the code: README, section 5).
PreviousRemains ==
  \A w \in Thread :
    Quiet /\ answer[w] = "failed" /\ primaries # <<>> => Valid(Found)

(* The newest save stays where a read finds it whatever fails once, and a    *)
(* read beside the saves finds one of them.                                  *)
SavesSurvive == NewestSurvives /\ ReadsFindTheSave

(* What a save replaces is not lost: neither the newest save nor, as its     *)
(* backup, the one before it.                                                *)
SavesAreKept == SavesSurvive /\ BackupIsPreceding

=============================================================================
