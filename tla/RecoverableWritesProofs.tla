----------------------- MODULE RecoverableWritesProofs -----------------------
(***************************************************************************)
(* The two writes that go step by step and recover from a step that fails: *)
(* a file's (AtomicFile) and one into the target's memory (MemoryMutation).*)
(*                                                                         *)
(* For any processes, threads, saves and failures: the threads of a process*)
(* exclude each other, no torn bytes ever stand under <path> or            *)
(* <path>.bak, and the newest saves stay where a read finds them.          *)
(*                                                                         *)
(* For every address space, every page layout and every sequence of failing*)
(* native calls: what a write owes is recorded, and once nothing is owed   *)
(* nothing of a failed write is left.                                      *)
(***************************************************************************)
EXTENDS AtomicFile, MemoryMutation, FiniteSetTheorems, TLAPS

\* The bytes of a file (if it exists) are complete and on the disk.
Whole(f) == f.save # Torn /\ f.safe

\* What each step knows of the temporary sibling it works on.
Prepared(w) ==
  /\ pc[w] \in {"create", "fill", "flush", "query", "replace", "recheck", "move"} =>
       saving[w] \in Save
  /\ pc[w] = "flush" => temp[w].save = saving[w]
  /\ pc[w] \in {"query", "replace", "recheck", "move"} =>
       temp[w].save = saving[w] /\ temp[w].safe

\* The types of what one thread's step changes besides the files.
ThreadsOK ==
  /\ owner \in [Process -> SUBSET Thread]
  /\ \A p \in Process : \A v, w \in owner[p] : v = w
  /\ pc \in [Thread -> Steps]
  /\ saving \in [Thread -> 0 .. MaxSaves]
  /\ answer \in [Thread -> {"none", "saved", "failed"}]
  /\ saves \in 0 .. MaxSaves /\ writers \subseteq Process
  /\ reading \in [Thread -> [since : Nat, got : {Missing} \cup Save]]

FilesOK ==
  /\ target \in File /\ bak \in File
  /\ temp \in [Thread -> File] /\ staged \in [Thread -> File]
  /\ primaries \in Seq(Save)

WholeFiles ==
  /\ Whole(target) /\ Whole(bak)
  /\ \A w \in Thread : Whole(staged[w])

AllPrepared == \A w \in Thread : Prepared(w)

\* The inductive invariant: the file, its backup and every file on its way
\* there are whole.
IInv ==
  /\ FilesOK /\ ThreadsOK /\ troubles \in 0 .. MaxTroubles
  /\ WholeFiles /\ AllPrepared

LEMMA FileTypes ==
  /\ NoFile \in File /\ Whole(NoFile)
  /\ \A s \in {Missing, Torn} \cup Save, b \in BOOLEAN : [save |-> s, safe |-> b] \in File
  BY DEF NoFile, File, Whole, Missing, Torn

\* Initially there is no file.
LEMMA InitIInv == Init => IInv
  BY FileAssumption, FileTypes
  DEF Init, IInv, FilesOK, ThreadsOK, WholeFiles, AllPrepared, Whole, Prepared, NoFile, Missing, Torn, Steps, Save

LEMMA TroublesBounded ==
  ASSUME FileAssumption, troubles \in 0 .. MaxTroubles, Trouble \/ Smooth
  PROVE  troubles' \in 0 .. MaxTroubles
  BY DEF Trouble, Smooth, FileAssumption

LEMMA LeaveKeeps ==
  ASSUME FileAssumption, ThreadsOK, NEW w \in Thread, Leave(w)
  PROVE  /\ owner' \in [Process -> SUBSET Thread]
         /\ \A p \in Process : \A u, v \in owner'[p] : u = v
  BY DEF FileAssumption, ThreadsOK, Leave

LEMMA EnterKeeps ==
  ASSUME FileAssumption, ThreadsOK, NEW w \in Thread, MayEnter(w), Enter(w)
  PROVE  /\ owner' \in [Process -> SUBSET Thread]
         /\ \A p \in Process : \A u, v \in owner'[p] : u = v
  BY DEF FileAssumption, ThreadsOK, MayEnter, Enter

LEMMA GotoKeeps ==
  ASSUME ThreadsOK, NEW w \in Thread, NEW step \in Steps, Goto(w, step)
  PROVE  /\ pc' \in [Thread -> Steps]
         /\ pc'[w] = step
         /\ \A v \in Thread \ {w} : pc'[v] = pc[v]
  BY DEF ThreadsOK, Goto

LEMMA ReturnKeeps ==
  ASSUME FileAssumption, ThreadsOK, NEW w \in Thread, NEW result \in {"saved", "failed"},
         Return(w, result)
  PROVE  /\ ThreadsOK'
         /\ pc'[w] = "idle" /\ saving' = saving
         /\ \A v \in Thread \ {w} : pc'[v] = pc[v]
<1>1. Goto(w, "idle") /\ "idle" \in Steps /\ Leave(w)
  BY DEF Return, Steps
<1>2. answer' \in [Thread -> {"none", "saved", "failed"}]
  BY DEF Return, ThreadsOK
<1> QED
  BY <1>1, <1>2, GotoKeeps, LeaveKeeps DEF Return, ThreadsOK

LEMMA ContinueKeeps ==
  ASSUME ThreadsOK, NEW w \in Thread, NEW step \in Steps, Continue(w, step)
  PROVE  /\ ThreadsOK'
         /\ pc'[w] = step /\ saving' = saving
         /\ \A v \in Thread \ {w} : pc'[v] = pc[v]
  BY GotoKeeps DEF Continue, ThreadsOK

\* A step that leaves another thread's temporary sibling, save and program
\* counter alone leaves that thread prepared.
LEMMA OthersPrepared ==
  ASSUME AllPrepared, NEW w \in Thread,
         \A v \in Thread \ {w} :
           pc'[v] = pc[v] /\ saving'[v] = saving[v] /\ temp'[v] = temp[v],
         Prepared(w)'
  PROVE  AllPrepared'
  BY DEF AllPrepared, Prepared

\* Every step of a thread keeps the invariant: one step per action.
LEMMA StepIInv ==
  ASSUME IInv, NEW w \in Thread, Step(w)
  PROVE  IInv'
<1> USE FileAssumption
<1>0. /\ FilesOK /\ ThreadsOK /\ troubles \in 0 .. MaxTroubles
      /\ WholeFiles /\ AllPrepared /\ Prepared(w)
  BY DEF IInv, AllPrepared
<1>1. CASE BeginWrite(w)
  <2>1. Goto(w, "create") /\ "create" \in Steps /\ MayEnter(w) /\ Enter(w)
    BY <1>1 DEF BeginWrite, Steps
  <2>2. /\ saves + 1 \in Save /\ saves' = saves + 1
        /\ saving' \in [Thread -> 0 .. MaxSaves] /\ saving'[w] = saves + 1
        /\ \A v \in Thread \ {w} : saving'[v] = saving[v]
    BY <1>0, <1>1 DEF BeginWrite, ThreadsOK, Save, FileAssumption
  <2>3. answer' \in [Thread -> {"none", "saved", "failed"}] /\ writers' \subseteq Process
    BY <1>0, <1>1 DEF BeginWrite, ThreadsOK, FileAssumption
  <2>4. ThreadsOK'
    BY <1>0, <1>1, <2>1, <2>2, <2>3, GotoKeeps, EnterKeeps DEF BeginWrite, ThreadsOK, Save
  <2>5. FilesOK' /\ WholeFiles' /\ troubles' \in 0 .. MaxTroubles
    BY <1>0, <1>1 DEF BeginWrite, disk, FilesOK, WholeFiles, Whole
  <2>6. Prepared(w)'
    BY <1>0, <2>1, <2>2, GotoKeeps DEF Prepared
  <2>7. AllPrepared'
    BY <1>0, <1>1, <2>1, <2>2, <2>6, GotoKeeps, OthersPrepared DEF BeginWrite, disk
  <2> QED
    BY <2>4, <2>5, <2>7 DEF IInv
<1>2. CASE Create(w)
  <2>1. (Smooth \/ Trouble) /\ "fill" \in Steps
    BY <1>2 DEF Create, Steps
  <2>2. /\ ThreadsOK' /\ pc'[w] \in {"fill", "idle"} /\ saving' = saving
        /\ \A v \in Thread \ {w} : pc'[v] = pc[v]
    BY <1>0, <1>2, <2>1, ContinueKeeps, ReturnKeeps DEF Create
  <2>3. /\ temp' \in [Thread -> File]
        /\ \A v \in Thread \ {w} : temp'[v] = temp[v]
    <3>1. temp' = [temp EXCEPT ![w] = [save |-> Torn, safe |-> FALSE]] \/ temp' = temp
      BY <1>2, Zenon DEF Create
    <3>2. temp \in [Thread -> File] /\ [save |-> Torn, safe |-> FALSE] \in File
      BY <1>0, FileTypes DEF FilesOK
    <3> QED
      BY <3>1, <3>2
  <2>4. FilesOK' /\ WholeFiles'
    BY <1>0, <1>2, <2>3 DEF Create, FilesOK, WholeFiles, Whole
  <2>5. Prepared(w)'
    BY <1>0, <1>2, <2>2 DEF Create, Prepared
  <2> QED
    BY <1>0, <2>1, <2>2, <2>3, <2>4, <2>5, TroublesBounded, OthersPrepared DEF IInv
<1>3. CASE Fill(w)
  <2>1. (Smooth \/ Trouble) /\ {"flush", "discard"} \subseteq Steps /\ saving[w] \in Save
    BY <1>0, <1>3 DEF Fill, Steps, Prepared
  <2>2. /\ ThreadsOK' /\ saving' = saving
        /\ \A v \in Thread \ {w} : pc'[v] = pc[v]
        /\ \/ pc'[w] = "flush" /\ temp' = [temp EXCEPT ![w].save = saving[w]]
           \/ pc'[w] = "discard" /\ temp' = temp
    BY <1>0, <1>3, <2>1, ContinueKeeps DEF Fill
  <2>3. /\ temp' \in [Thread -> File]
        /\ \A v \in Thread \ {w} : temp'[v] = temp[v]
    <3>1. temp \in [Thread -> File] /\ [temp[w] EXCEPT !.save = saving[w]] \in File
      BY <1>0, <2>1 DEF FilesOK, File
    <3> QED
      BY <2>2, <3>1
  <2>4. FilesOK' /\ WholeFiles'
    BY <1>0, <1>3, <2>3 DEF Fill, FilesOK, WholeFiles, Whole
  <2>5. Prepared(w)'
    <3>1. CASE pc'[w] = "flush"
      BY <1>0, <2>1, <2>2, <3>1 DEF Prepared, FilesOK, File
    <3>2. CASE pc'[w] = "discard"
      BY <3>2 DEF Prepared
    <3> QED
      BY <2>2, <3>1, <3>2
  <2> QED
    BY <1>0, <2>1, <2>2, <2>3, <2>4, <2>5, TroublesBounded, OthersPrepared DEF IInv
<1>4. CASE Flush(w)
  <2>1. /\ Smooth \/ Trouble
        /\ {"query", "discard"} \subseteq Steps
        /\ saving[w] \in Save /\ temp[w].save = saving[w]
    BY <1>0, <1>4 DEF Flush, Steps, Prepared
  <2>2. /\ ThreadsOK' /\ saving' = saving
        /\ \A v \in Thread \ {w} : pc'[v] = pc[v]
        /\ \/ pc'[w] = "query" /\ temp' = [temp EXCEPT ![w].safe = TRUE]
           \/ pc'[w] = "discard" /\ temp' = temp
    BY <1>0, <1>4, <2>1, ContinueKeeps DEF Flush
  <2>3. /\ temp' \in [Thread -> File]
        /\ \A v \in Thread \ {w} : temp'[v] = temp[v]
    <3>1. temp \in [Thread -> File] /\ [temp[w] EXCEPT !.safe = TRUE] \in File
      BY <1>0, <2>1 DEF FilesOK, File
    <3> QED
      BY <2>2, <3>1
  <2>4. FilesOK' /\ WholeFiles'
    BY <1>0, <1>4, <2>3 DEF Flush, FilesOK, WholeFiles, Whole
  <2>5. Prepared(w)'
    <3>1. CASE pc'[w] = "query"
      BY <1>0, <2>1, <2>2, <3>1 DEF Prepared, FilesOK, File
    <3>2. CASE pc'[w] = "discard"
      BY <3>2 DEF Prepared
    <3> QED
      BY <2>2, <3>1, <3>2
  <2> QED
    BY <1>0, <2>1, <2>2, <2>3, <2>4, <2>5, TroublesBounded, OthersPrepared DEF IInv
<1>5. CASE Discard(w)
  <2>1. /\ ThreadsOK' /\ pc'[w] = "idle" /\ saving' = saving
        /\ \A v \in Thread \ {w} : pc'[v] = pc[v]
    BY <1>0, <1>5, ReturnKeeps DEF Discard
  <2>2. FilesOK' /\ WholeFiles' /\ \A v \in Thread \ {w} : temp'[v] = temp[v]
    BY <1>0, <1>5, FileTypes DEF Discard, FilesOK, WholeFiles, Whole
  <2>3. Prepared(w)'
    BY <2>1 DEF Prepared
  <2> QED
    BY <1>0, <1>5, <2>1, <2>2, <2>3, TroublesBounded, OthersPrepared DEF IInv, Discard
<1>6. CASE Query(w)
  <2>1. /\ ThreadsOK' /\ pc'[w] \in {"replace", "move"} /\ saving' = saving
        /\ \A v \in Thread \ {w} : pc'[v] = pc[v]
    <3>1. \A step \in {"replace", "move"} : step \in Steps
      BY DEF Steps
    <3> QED
      BY <1>0, <1>6, <3>1, ContinueKeeps DEF Query
  <2>2. FilesOK' /\ WholeFiles' /\ temp' = temp
    BY <1>0, <1>6 DEF Query, disk, FilesOK, WholeFiles, Whole
  <2>3. Prepared(w)'
    BY <1>0, <1>6, <2>1, <2>2 DEF Query, Prepared
  <2> QED
    BY <1>0, <1>6, <2>1, <2>2, <2>3, TroublesBounded, OthersPrepared DEF IInv, Query
<1>7. CASE Replace(w)
  <2>1. /\ Smooth \/ Trouble
        /\ {"rotate", "recheck"} \subseteq Steps
        /\ saving[w] \in Save /\ temp[w].save = saving[w] /\ temp[w].safe
    BY <1>0, <1>7 DEF Replace, Steps, Prepared
  <2>2. /\ ThreadsOK' /\ saving' = saving
        /\ \A v \in Thread \ {w} : pc'[v] = pc[v]
        /\ \/ pc'[w] = "rotate"
           \/ pc'[w] = "recheck" /\ temp' = temp
    BY <1>0, <1>7, <2>1, ContinueKeeps DEF Replace
  <2>3. Whole(temp[w]) /\ temp[w] \in File
    BY <1>0, <2>1 DEF Whole, FilesOK, Save, Torn
  <2>4. /\ FilesOK'
        /\ \A v \in Thread \ {w} : temp'[v] = temp[v]
    <3>1. Append(primaries, saving[w]) \in Seq(Save)
      BY <1>0, <2>1 DEF FilesOK
    <3> QED
      BY <1>0, <1>7, <2>3, <3>1, FileTypes DEF Replace, FilesOK
  <2>5. WholeFiles'
    BY <1>0, <1>7, <2>3, FileTypes DEF Replace, WholeFiles, Whole, FilesOK
  <2>6. Prepared(w)'
    BY <1>0, <2>1, <2>2 DEF Prepared
  <2> QED
    BY <1>0, <2>1, <2>2, <2>4, <2>5, <2>6, TroublesBounded, OthersPrepared DEF IInv
<1>8. CASE Rotate(w)
  <2>1. Smooth \/ Trouble
    BY <1>8 DEF Rotate
  <2>2. /\ ThreadsOK' /\ pc'[w] = "idle" /\ saving' = saving
        /\ \A v \in Thread \ {w} : pc'[v] = pc[v]
    BY <1>0, <1>8, ReturnKeeps DEF Rotate
  <2>3. FilesOK' /\ WholeFiles' /\ temp' = temp
    BY <1>0, <1>8, FileTypes DEF Rotate, FilesOK, WholeFiles, Whole
  <2>4. Prepared(w)'
    BY <2>2 DEF Prepared
  <2> QED
    BY <1>0, <2>1, <2>2, <2>3, <2>4, TroublesBounded, OthersPrepared DEF IInv
<1>9. CASE Recheck(w)
  <2>1. /\ ThreadsOK' /\ pc'[w] \in {"discard", "move"} /\ saving' = saving
        /\ \A v \in Thread \ {w} : pc'[v] = pc[v]
    <3>1. \A step \in {"discard", "move"} : step \in Steps
      BY DEF Steps
    <3> QED
      BY <1>0, <1>9, <3>1, ContinueKeeps DEF Recheck
  <2>2. FilesOK' /\ WholeFiles' /\ temp' = temp
    BY <1>0, <1>9 DEF Recheck, disk, FilesOK, WholeFiles, Whole
  <2>3. Prepared(w)'
    BY <1>0, <1>9, <2>1, <2>2 DEF Recheck, Prepared
  <2> QED
    BY <1>0, <1>9, <2>1, <2>2, <2>3, TroublesBounded, OthersPrepared DEF IInv, Recheck
<1>10. CASE MoveIn(w)
  <2>1. /\ Smooth \/ Trouble
        /\ "discard" \in Steps
        /\ saving[w] \in Save /\ temp[w].save = saving[w] /\ temp[w].safe
    BY <1>0, <1>10 DEF MoveIn, Steps, Prepared
  <2>2. /\ ThreadsOK' /\ pc'[w] \in {"idle", "discard"} /\ saving' = saving
        /\ \A v \in Thread \ {w} : pc'[v] = pc[v]
    BY <1>0, <1>10, <2>1, ContinueKeeps, ReturnKeeps DEF MoveIn
  <2>3. Whole(temp[w]) /\ temp[w] \in File
    BY <1>0, <2>1 DEF Whole, FilesOK, Save, Torn
  <2>4. /\ FilesOK' /\ WholeFiles'
        /\ \A v \in Thread \ {w} : temp'[v] = temp[v]
    <3>1. Append(primaries, saving[w]) \in Seq(Save)
      BY <1>0, <2>1 DEF FilesOK
    <3> QED
      BY <1>0, <1>10, <2>3, <3>1, FileTypes DEF MoveIn, FilesOK, WholeFiles, Whole
  <2>5. Prepared(w)'
    BY <2>2 DEF Prepared
  <2> QED
    BY <1>0, <2>1, <2>2, <2>4, <2>5, TroublesBounded, OthersPrepared DEF IInv
<1>11. CASE BeginRead(w)
  <2>1. Goto(w, "readPrimary") /\ "readPrimary" \in Steps /\ MayEnter(w) /\ Enter(w)
    BY <1>11 DEF BeginRead, Steps
  <2>2. reading' \in [Thread -> [since : Nat, got : {Missing} \cup Save]]
    BY <1>0, <1>11 DEF BeginRead, ThreadsOK, FilesOK
  <2>3. ThreadsOK'
    BY <1>0, <1>11, <2>1, <2>2, GotoKeeps, EnterKeeps DEF BeginRead, ThreadsOK
  <2>4. FilesOK' /\ WholeFiles' /\ troubles' \in 0 .. MaxTroubles
    BY <1>0, <1>11 DEF BeginRead, disk, FilesOK, WholeFiles, Whole
  <2>5. Prepared(w)'
    BY <1>0, <2>1, GotoKeeps DEF Prepared
  <2>6. AllPrepared'
    BY <1>0, <1>11, <2>1, <2>5, GotoKeeps, OthersPrepared DEF BeginRead, disk
  <2> QED
    BY <2>3, <2>4, <2>6 DEF IInv
<1>12. CASE ReadPrimary(w) \/ ReadBackup(w)
  <2>1. \A f \in File : EndRead(w, f) =>
          reading' \in [Thread -> [since : Nat, got : {Missing} \cup Save]]
    BY <1>0 DEF EndRead, ThreadsOK, Valid
  <2>2. {"idle", "readBackup"} \subseteq Steps
    BY DEF Steps
  <2>3. \A f \in File : EndRead(w, f) =>
          /\ pc' \in [Thread -> Steps] /\ pc'[w] = "idle"
          /\ \A v \in Thread \ {w} : pc'[v] = pc[v]
          /\ owner' \in [Process -> SUBSET Thread]
          /\ \A p \in Process : \A u, v \in owner'[p] : u = v
    BY <1>0, <2>2, GotoKeeps, LeaveKeeps DEF EndRead
  <2>4. /\ ThreadsOK' /\ pc'[w] \in {"idle", "readBackup"}
        /\ \A v \in Thread \ {w} : pc'[v] = pc[v]
    <3>1. CASE \E f \in File : EndRead(w, f)
      BY <1>0, <1>12, <2>1, <2>3, <3>1 DEF ReadPrimary, ReadBackup, ThreadsOK
    <3>2. CASE Goto(w, "readBackup") /\ UNCHANGED <<owner, reading>>
      BY <1>0, <1>12, <2>2, <3>2, GotoKeeps DEF ReadPrimary, ReadBackup, ThreadsOK
    <3> QED
      BY <1>0, <1>12, <3>1, <3>2 DEF ReadPrimary, ReadBackup, FilesOK
  <2>5. /\ FilesOK' /\ WholeFiles' /\ troubles' \in 0 .. MaxTroubles
        /\ temp' = temp /\ saving' = saving
    BY <1>0, <1>12 DEF ReadPrimary, ReadBackup, disk, FilesOK, WholeFiles, Whole
  <2>6. Prepared(w)'
    BY <2>4 DEF Prepared
  <2> QED
    BY <1>0, <2>4, <2>5, <2>6, OthersPrepared DEF IInv
<1> QED
  BY <1>1, <1>2, <1>3, <1>4, <1>5, <1>6, <1>7, <1>8, <1>9, <1>10, <1>11, <1>12 DEF Step

\* The end of some threads, and a power loss, leave only whole files.
LEMMA GoneKeeps ==
  ASSUME IInv, NEW W \in SUBSET Thread, Gone(W)
  PROVE  /\ ThreadsOK' /\ AllPrepared'
         /\ temp' \in [Thread -> File] /\ staged' \in [Thread -> File]
         /\ \A w \in Thread : Whole(staged[w])'
         /\ primaries' = primaries
<1>1. \A p \in Process : \A u, v \in owner'[p] : u = v
  BY DEF IInv, ThreadsOK, Gone
<1>2. ThreadsOK'
  BY <1>1 DEF IInv, ThreadsOK, Gone, history, Steps
<1>3. AllPrepared'
  BY DEF IInv, AllPrepared, Prepared, Gone
<1> QED
  BY <1>2, <1>3, FileTypes DEF IInv, FilesOK, WholeFiles, Whole, Gone, history

LEMMA KilledIInv ==
  ASSUME FileAssumption, IInv, NEW p \in Process, Killed(p)
  PROVE  IInv'
<1>1. {w \in Thread : ProcessOf[w] = p} \in SUBSET Thread
  OBVIOUS
<1> QED
  BY <1>1, GoneKeeps, TroublesBounded DEF IInv, Killed, FilesOK, WholeFiles, Whole

LEMMA PowerLossIInv ==
  ASSUME FileAssumption, IInv, PowerLoss
  PROVE  IInv'
<1>1. target' = target /\ bak' = bak
  BY DEF PowerLoss, AfterPowerLoss, IInv, WholeFiles, Whole
<1> QED
  BY <1>1, GoneKeeps, TroublesBounded DEF IInv, PowerLoss, FilesOK, WholeFiles, Whole

\* Every step keeps the invariant.
LEMMA NextIInv == IInv /\ [Next]_vars => IInv'
<1> SUFFICES ASSUME IInv, [Next]_vars PROVE IInv'
  OBVIOUS
<1>1. ASSUME NEW w \in Thread, Step(w) PROVE IInv'
  BY <1>1, StepIInv
<1>2. ASSUME NEW p \in Process, Killed(p) PROVE IInv'
  BY <1>2, FileAssumption, KilledIInv
<1>3. CASE PowerLoss
  BY <1>3, FileAssumption, PowerLossIInv
<1>4. CASE UNCHANGED vars
  BY <1>4 DEF vars, disk, threads, history, IInv, FilesOK, ThreadsOK, WholeFiles, Whole,
              AllPrepared, Prepared
<1> QED
  BY <1>1, <1>2, <1>3, <1>4 DEF Next

\* The inductive invariant holds of every reachable state: every file a save
\* prepared is whole when ReplaceFileW or the rename gives it a name that is
\* read (Write).
THEOREM WholeFilesInvariant == Spec => []IInv
  BY InitIInv, NextIInv, PTL DEF Spec

\* The variables keep their types, and the threads of a process exclude each
\* other (the lock_guard of Read, ReadValidated and Write).
THEOREM TypeCorrect == Spec => []TypeOK
<1>1. IInv => TypeOK
  BY DEF IInv, FilesOK, ThreadsOK, TypeOK
<1> QED
  BY <1>1, WholeFilesInvariant, PTL

\* No interleaving of savers and no failure, killed process or power loss puts
\* bytes of an unfinished save under <path> or <path>.bak.
THEOREM NoTornFile == Spec => []NeverTorn
<1>1. IInv => NeverTorn
  BY DEF IInv, WholeFiles, Whole, NeverTorn
<1> QED
  BY <1>1, WholeFilesInvariant, PTL

----------------------------------------------------------------------------
(* What is kept.  The invariant that SavesAreKept needs.                   *)

Reads     == {"readPrimary", "readBackup"}
Saving(w) == pc[w] \notin Reads \cup {"idle"}
Newest    == primaries[Len(primaries)]

\* Whoever is at work is inside its process's mutex.
Occupied == \A w \in Thread : pc[w] # "idle" => w \in owner[ProcessOf[w]]

\* <path>, if it exists, is the newest save.  The first trouble can only lose
\* it to a saver that is about to move its own file there.
NewestIsThere ==
  /\ Exists(target) => primaries # <<>> /\ target.save = Newest
  /\ ~Exists(target) /\ primaries # <<>> /\ troubles <= 1 =>
       troubles = 1 /\ \E w \in Thread : pc[w] \in {"recheck", "move"}

\* While nothing fails, a read that began after a save does not need the backup.
ReadsHold ==
  \A w \in Thread :
    /\ reading[w].since <= Len(primaries)
    /\ troubles = 0 /\ reading[w].since > 0 =>
         /\ pc[w] # "readBackup"
         /\ pc[w] # "readPrimary" =>
              \E i \in reading[w].since .. Len(primaries) : primaries[i] = reading[w].got

WritersKnown ==
  /\ IsFiniteSet(writers)
  /\ \A w \in Thread : Saving(w) => ProcessOf[w] \in writers

OneWriter == \A p, q \in writers : p = q

\* With one process saving and nothing failing, the file that was replaced is
\* the save before the newest, and on its way to the backup or there.
BackupHolds ==
  troubles = 0 /\ OneWriter =>
    /\ \A w \in Thread :
         /\ pc[w] = "replace" => primaries # <<>>
         /\ pc[w] \in {"recheck", "move"} => primaries = <<>>
         /\ pc[w] = "rotate" =>
              Len(primaries) > 1 /\ staged[w].save = primaries[Len(primaries) - 1]
    /\ Len(primaries) > 1 =>
         \/ bak.save = primaries[Len(primaries) - 1]
         \/ \E w \in Thread : pc[w] = "rotate"

KInv == IInv /\ Occupied /\ NewestIsThere /\ ReadsHold /\ WritersKnown /\ BackupHolds

----------------------------------------------------------------------------
(* What a thread's step does, seen from the files and the saves.           *)

\* A save takes its place.
Installs(w) ==
  /\ pc[w] \in {"replace", "move"} /\ troubles' = troubles /\ bak' = bak
  /\ target' = temp[w] /\ primaries' = Append(primaries, saving[w])
  /\ pc[w] = "replace" =>
       Exists(target) /\ pc'[w] = "rotate" /\ staged' = [staged EXCEPT ![w] = target]
  /\ pc[w] = "move" => pc'[w] = "idle" /\ staged' = staged
  /\ reading' = reading /\ writers' = writers

\* ReplaceFileW has moved the file away and fails.
Loses(w) ==
  /\ pc[w] = "replace" /\ pc'[w] = "recheck"
  /\ target' = NoFile /\ troubles' = troubles + 1
  /\ primaries' = primaries /\ reading' = reading /\ writers' = writers

\* The replaced file becomes the backup, or that fails.
Rotates(w) ==
  /\ pc[w] = "rotate" /\ pc'[w] = "idle"
  /\ (troubles' = troubles /\ bak' = staged[w]) \/ troubles' = troubles + 1
  /\ staged' = [staged EXCEPT ![w] = NoFile]
  /\ target' = target /\ primaries' = primaries /\ reading' = reading /\ writers' = writers

\* Any other step of a save.
Works(w) ==
  /\ Saving(w) /\ pc[w] # "rotate"
  /\ pc'[w] \notin Reads \cup {"rotate"}
  /\ pc'[w] = "replace" => Exists(target)
  /\ troubles' = troubles /\ pc'[w] \in {"recheck", "move"} => ~Exists(target)
  /\ troubles' = troubles /\ pc[w] \in {"recheck", "move"} /\ ~Exists(target) =>
       pc'[w] \in {"recheck", "move"}
  /\ troubles' \in {troubles, troubles + 1}
  /\ target' = target /\ bak' = bak /\ staged' = staged
  /\ primaries' = primaries /\ reading' = reading /\ writers' = writers

Begins(w) ==
  /\ pc[w] = "idle" /\ pc'[w] = "create"
  /\ writers' = writers \cup {ProcessOf[w]}
  /\ target' = target /\ bak' = bak /\ staged' = staged /\ troubles' = troubles
  /\ primaries' = primaries /\ reading' = reading

\* A step of a read.
Looks(w) ==
  /\ pc[w] \in Reads \cup {"idle"} /\ pc'[w] \in Reads \cup {"idle"}
  /\ \/ /\ pc[w] = "idle" /\ pc'[w] = "readPrimary"
        /\ reading' = [reading EXCEPT ![w] = [since |-> Len(primaries), got |-> Missing]]
     \/ /\ pc[w] = "readPrimary" /\ pc'[w] = "idle" /\ Valid(target)
        /\ reading' = [reading EXCEPT ![w].got = target.save]
     \/ /\ pc[w] = "readPrimary" /\ pc'[w] = "readBackup" /\ ~Valid(target)
        /\ reading' = reading
     \/ /\ pc[w] = "readBackup" /\ pc'[w] = "idle"
        /\ \E s : reading' = [reading EXCEPT ![w].got = s]
  /\ target' = target /\ bak' = bak /\ staged' = staged /\ troubles' = troubles
  /\ primaries' = primaries /\ writers' = writers

\* Every step of a thread is one of these, and leaves the other threads be.
LEMMA StepIs ==
  ASSUME IInv, NEW w \in Thread, Step(w)
  PROVE  /\ \A v \in Thread \ {w} : pc'[v] = pc[v]
         /\ \/ Installs(w) \/ Loses(w) \/ Rotates(w) \/ Works(w) \/ Begins(w) \/ Looks(w)
<1>1. ThreadsOK /\ FilesOK
  BY DEF IInv
<1>2. \A s : Goto(w, s) => pc'[w] = s /\ \A v \in Thread \ {w} : pc'[v] = pc[v]
  BY <1>1 DEF ThreadsOK, Goto
<1>3. CASE BeginWrite(w)
  BY <1>2, <1>3 DEF BeginWrite, Begins, disk
<1>4. CASE Create(w)
  BY <1>2, <1>4 DEF Create, Works, Saving, Reads, Continue, Return, Trouble, Smooth
<1>5. CASE Fill(w)
  BY <1>2, <1>5 DEF Fill, Works, Saving, Reads, Continue, Return, Trouble, Smooth
<1>6. CASE Flush(w)
  BY <1>2, <1>6 DEF Flush, Works, Saving, Reads, Continue, Return, Trouble, Smooth
<1>7. CASE Discard(w)
  BY <1>2, <1>7 DEF Discard, Works, Saving, Reads, Continue, Return, Trouble, Smooth
<1>8. CASE Query(w)
  BY <1>2, <1>8 DEF Query, Works, Saving, Reads, Continue, Smooth, disk
<1>9. CASE Replace(w)
  <2>1. /\ pc[w] = "replace" /\ bak' = bak /\ reading' = reading /\ writers' = writers
        /\ \A v \in Thread \ {w} : pc'[v] = pc[v]
    BY <1>2, <1>9 DEF Replace, Continue
  <2>2. \/ Installs(w)
        \/ /\ pc'[w] = "recheck" /\ troubles' = troubles + 1 /\ Exists(target)
           /\ target' = target /\ staged' = staged /\ primaries' = primaries
        \/ /\ pc'[w] = "recheck" /\ troubles' = troubles /\ ~Exists(target)
           /\ target' = target /\ staged' = staged /\ primaries' = primaries
        \/ Loses(w)
    BY <1>2, <1>9, <2>1 DEF Replace, Installs, Loses, Continue, Trouble, Smooth
  <2>3. troubles # troubles + 1
    BY DEF IInv
  <2> QED
    BY <2>1, <2>2, <2>3 DEF Works, Saving, Reads
<1>10. CASE Rotate(w)
  BY <1>2, <1>10 DEF Rotate, Rotates, Return, Trouble, Smooth
<1>11. CASE Recheck(w)
  BY <1>2, <1>11 DEF Recheck, Works, Saving, Reads, Continue, Smooth, disk
<1>12. CASE MoveIn(w)
  <2>1. troubles # troubles + 1
    BY DEF IInv
  <2> QED
    BY <1>2, <1>12, <2>1
    DEF MoveIn, Installs, Works, Saving, Reads, Continue, Return, Trouble, Smooth
<1>13. CASE BeginRead(w)
  BY <1>2, <1>13 DEF BeginRead, Looks, Reads, disk
<1>14. CASE ReadPrimary(w)
  BY <1>2, <1>14 DEF ReadPrimary, EndRead, Looks, Reads, disk
<1>15. CASE ReadBackup(w)
  BY <1>2, <1>15 DEF ReadBackup, EndRead, Looks, Reads, disk
<1> QED
  BY <1>3, <1>4, <1>5, <1>6, <1>7, <1>8, <1>9, <1>10, <1>11, <1>12, <1>13, <1>14, <1>15 DEF Step


\* A kill or a power loss stops threads and leaves the files as they are.
Stops ==
  /\ troubles' = troubles + 1 /\ target' = target /\ bak' = bak
  /\ primaries' = primaries /\ reading' = reading /\ writers' = writers
  /\ \A w \in Thread : pc'[w] \in {pc[w], "idle"}

LEMMA StopIs ==
  ASSUME IInv, PowerLoss \/ \E p \in Process : Killed(p)
  PROVE  Stops
<1>1. CASE PowerLoss
  <2>1. target' = target /\ bak' = bak
    BY <1>1 DEF PowerLoss, AfterPowerLoss, IInv, WholeFiles, Whole
  <2> QED
    BY <1>1, <2>1 DEF PowerLoss, Stops, Trouble, Gone, history
<1>2. CASE \E p \in Process : Killed(p)
  BY <1>2 DEF Killed, Stops, Trouble, Gone, history
<1> QED
  BY <1>1, <1>2

\* A thread enters the mutex of its process before it works, and leaves it last.
LEMMA StepOccupied ==
  ASSUME IInv, Occupied, NEW w \in Thread, Step(w)
  PROVE  Occupied'
<1> DEFINE P == ProcessOf[w]
<1>1. /\ ThreadsOK /\ owner \in [Process -> SUBSET Thread] /\ P \in Process
      /\ \A v \in Thread : ProcessOf[v] \in Process
  BY FileAssumption DEF IInv, ThreadsOK, FileAssumption
<1>2. \A v \in Thread \ {w} : pc'[v] = pc[v]
  BY StepIs
<1>3. \/ Enter(w) /\ pc[w] = "idle"
      \/ Leave(w) /\ pc'[w] = "idle"
      \/ owner' = owner /\ pc[w] # "idle"
  <2>1. Goto(w, "idle") => pc'[w] = "idle"
    BY <1>1 DEF ThreadsOK, Goto
  <2>2. CASE BeginWrite(w) \/ BeginRead(w)
    BY <2>2 DEF BeginWrite, BeginRead
  <2>3. CASE ReadPrimary(w) \/ ReadBackup(w)
    BY <2>1, <2>3 DEF ReadPrimary, ReadBackup, EndRead
  <2>4. CASE Create(w) \/ Fill(w) \/ Flush(w) \/ Discard(w) \/ Query(w)
    BY <2>1, <2>4 DEF Create, Fill, Flush, Discard, Query, Return, Continue
  <2>5. CASE Replace(w) \/ Rotate(w) \/ Recheck(w) \/ MoveIn(w)
    BY <2>1, <2>5 DEF Replace, Rotate, Recheck, MoveIn, Return, Continue
  <2> QED
    BY <2>2, <2>3, <2>4, <2>5 DEF Step
<1>4. ASSUME NEW v \in Thread, pc'[v] # "idle" PROVE v \in owner'[ProcessOf[v]]
  <2>1. CASE v = w
    <3>1. CASE Enter(w)
      BY <1>1, <2>1, <3>1 DEF Enter
    <3>2. CASE owner' = owner /\ pc[w] # "idle"
      BY <2>1, <3>2 DEF Occupied
    <3> QED
      BY <1>3, <1>4, <2>1, <3>1, <3>2
  <2>2. CASE v # w
    <3>1. v \in owner[ProcessOf[v]]
      BY <1>2, <1>4, <2>2 DEF Occupied
    <3>2. CASE Enter(w)
      BY <1>1, <3>1, <3>2 DEF Enter
    <3>3. CASE Leave(w)
      BY <1>1, <2>2, <3>1, <3>3 DEF Leave
    <3> QED
      BY <1>3, <3>1, <3>2, <3>3
  <2> QED
    BY <2>1, <2>2
<1> QED
  BY <1>4 DEF Occupied

LEMMA StopOccupied ==
  ASSUME IInv, Occupied, PowerLoss \/ \E p \in Process : Killed(p)
  PROVE  Occupied'
<1>1. PICK W \in SUBSET Thread : Gone(W)
  <2>1. \A p \in Process : {w \in Thread : ProcessOf[w] = p} \in SUBSET Thread
    OBVIOUS
  <2> QED
    BY <2>1 DEF PowerLoss, Killed
<1>2. owner \in [Process -> SUBSET Thread] /\ ProcessOf \in [Thread -> Process]
  BY FileAssumption DEF IInv, ThreadsOK, FileAssumption
<1> QED
  BY <1>1, <1>2 DEF Gone, Occupied

\* Two threads that save for one process are one.
LEMMA OneSaver ==
  ASSUME IInv, Occupied, WritersKnown, OneWriter,
         NEW v \in Thread, NEW w \in Thread, Saving(v), Saving(w)
  PROVE  v = w
<1>1. ProcessOf[v] = ProcessOf[w] /\ ProcessOf[v] \in Process
  BY FileAssumption DEF WritersKnown, OneWriter, FileAssumption
<1>2. v \in owner[ProcessOf[v]] /\ w \in owner[ProcessOf[v]]
  BY <1>1 DEF Occupied, Saving
<1> QED
  BY <1>1, <1>2 DEF IInv, ThreadsOK

----------------------------------------------------------------------------
(* The parts of the invariant.                                             *)

\* The last of the saves once another is appended.
LEMMA Appended ==
  ASSUME NEW s \in Save, FilesOK, primaries' = Append(primaries, s)
  PROVE  /\ Len(primaries) \in Nat /\ Len(primaries') = Len(primaries) + 1
         /\ primaries' # <<>> /\ primaries'[Len(primaries')] = s
         /\ \A i \in 1 .. Len(primaries) : primaries'[i] = primaries[i]
         /\ primaries # <<>> <=> Len(primaries) > 0
  BY DEF FilesOK

\* What a step of a save installs is that save, whole.
LEMMA Installed ==
  ASSUME IInv, NEW w \in Thread, Installs(w)
  PROVE  saving[w] \in Save /\ target'.save = saving[w] /\ Exists(target')
<1>1. saving[w] \in Save /\ temp[w].save = saving[w]
  BY DEF IInv, AllPrepared, Prepared, Installs
<1> QED
  BY <1>1 DEF Installs, Exists, Save, Missing

\* A file that exists holds a save.
LEMMA Standing ==
  ASSUME IInv, Exists(target)
  PROVE  Valid(target)
  BY DEF IInv, FilesOK, WholeFiles, Whole, Exists, Valid, File


LEMMA StepNewest ==
  ASSUME IInv, NewestIsThere, NEW w \in Thread, Step(w)
  PROVE  NewestIsThere'
<1>1. FilesOK /\ troubles \in Nat
  BY DEF IInv
<1>2. /\ \A v \in Thread \ {w} : pc'[v] = pc[v]
      /\ \/ Installs(w) \/ Loses(w) \/ Rotates(w) \/ Works(w) \/ Begins(w) \/ Looks(w)
  BY StepIs
<1>3. CASE Installs(w)
  <2>1. /\ saving[w] \in Save /\ target'.save = saving[w] /\ Exists(target')
        /\ primaries' = Append(primaries, saving[w])
    BY <1>3, Installed DEF Installs
  <2>2. primaries' # <<>> /\ primaries'[Len(primaries')] = saving[w]
    BY <1>1, <2>1, Appended
  <2> QED
    BY <2>1, <2>2 DEF NewestIsThere, Newest, Exists
<1>4. CASE Loses(w)
  <2>1. target'.save = Missing /\ troubles' = troubles + 1 /\ pc'[w] = "recheck"
    BY <1>4 DEF Loses, NoFile
  <2> QED
    BY <1>1, <2>1 DEF NewestIsThere, Exists
<1>5. CASE Rotates(w) \/ Works(w) \/ Begins(w) \/ Looks(w)
  <2>1. target' = target /\ primaries' = primaries /\ troubles' \in {troubles, troubles + 1}
    BY <1>5 DEF Rotates, Works, Begins, Looks
  <2>2. ASSUME ~Exists(target), primaries # <<>>, troubles' <= 1
        PROVE  troubles' = 1 /\ \E v \in Thread : pc'[v] \in {"recheck", "move"}
    <3>1. PICK u \in Thread : pc[u] \in {"recheck", "move"}
      BY <1>1, <2>1, <2>2 DEF NewestIsThere
    <3>2. troubles = 1 /\ troubles' = troubles
      BY <1>1, <2>1, <2>2 DEF NewestIsThere
    <3>3. CASE u = w
      BY <1>5, <2>2, <3>1, <3>2, <3>3 DEF Rotates, Works, Begins, Looks, Reads
    <3>4. CASE u # w
      BY <1>2, <3>1, <3>2, <3>4
    <3> QED
      BY <3>3, <3>4
  <2> QED
    BY <2>1, <2>2 DEF NewestIsThere, Newest, Exists
<1> QED
  BY <1>2, <1>3, <1>4, <1>5

LEMMA StepReads ==
  ASSUME IInv, NewestIsThere, ReadsHold, NEW w \in Thread, Step(w)
  PROVE  ReadsHold'
<1> DEFINE Held(r, saves_) == \E i \in r.since .. Len(saves_) : saves_[i] = r.got
<1>1. /\ FilesOK /\ troubles \in Nat /\ Len(primaries) \in Nat
      /\ reading \in [Thread -> [since : Nat, got : {Missing} \cup Save]]
  BY DEF IInv, FilesOK, ThreadsOK
<1>2. /\ \A v \in Thread \ {w} : pc'[v] = pc[v]
      /\ \/ Installs(w) \/ Loses(w) \/ Rotates(w) \/ Works(w) \/ Begins(w) \/ Looks(w)
  BY StepIs
<1>3. CASE Installs(w) \/ Rotates(w) \/ Works(w) \/ Begins(w) \/ Loses(w)
  <2>1. /\ reading' = reading /\ troubles' \in {troubles, troubles + 1}
        /\ pc[w] \notin Reads /\ pc'[w] \notin Reads
    BY <1>3 DEF Installs, Loses, Rotates, Works, Begins, Saving, Reads
  <2>2. /\ Len(primaries') \in Nat /\ Len(primaries) <= Len(primaries')
        /\ \A i \in 1 .. Len(primaries) : primaries'[i] = primaries[i]
    <3>1. CASE Installs(w)
      <4>1. saving[w] \in Save /\ primaries' = Append(primaries, saving[w])
        BY <3>1, Installed DEF Installs
      <4> QED
        BY <1>1, <4>1, Appended
    <3>2. CASE primaries' = primaries
      BY <1>1, <3>2
    <3> QED
      BY <1>3, <3>1, <3>2 DEF Loses, Rotates, Works, Begins
  <2>3. ASSUME NEW v \in Thread
        PROVE  /\ reading'[v].since <= Len(primaries')
               /\ troubles' = 0 /\ reading'[v].since > 0 =>
                    /\ pc'[v] # "readBackup"
                    /\ pc'[v] # "readPrimary" => Held(reading'[v], primaries')
    <3>1. reading'[v] = reading[v] /\ reading[v].since \in Nat
      BY <1>1, <2>1
    <3>2. troubles' = 0 => troubles = 0
      BY <1>1, <2>1
    <3>3. pc'[v] = pc[v] \/ (pc[v] \notin Reads /\ pc'[v] \notin Reads)
      <4>1. CASE v = w
        BY <2>1, <4>1
      <4>2. CASE v # w
        BY <1>2, <4>2
      <4> QED
        BY <4>1, <4>2
    <3>4. reading[v].since <= Len(primaries)
      BY DEF ReadsHold
    <3>5. reading[v].since > 0 /\ Held(reading[v], primaries) => Held(reading[v], primaries')
      BY <1>1, <2>2, <3>1
    <3> QED
      BY <1>1, <2>2, <3>1, <3>2, <3>3, <3>4, <3>5 DEF ReadsHold, Reads
  <2> QED
    BY <2>3 DEF ReadsHold
<1>4. CASE Looks(w)
  <2>1. primaries' = primaries /\ troubles' = troubles
    BY <1>4 DEF Looks
  <2>2. ASSUME NEW v \in Thread \ {w} PROVE reading'[v] = reading[v] /\ pc'[v] = pc[v]
    BY <1>1, <1>2, <1>4 DEF Looks
  <2>3. /\ reading'[w].since <= Len(primaries)
        /\ troubles = 0 /\ reading'[w].since > 0 =>
             /\ pc'[w] # "readBackup"
             /\ pc'[w] # "readPrimary" => Held(reading'[w], primaries)
    <3>1. /\ reading[w].since \in Nat /\ reading[w].since <= Len(primaries)
          /\ troubles = 0 /\ reading[w].since > 0 => pc[w] # "readBackup"
      BY <1>1 DEF ReadsHold
    <3>2. troubles = 0 /\ reading[w].since > 0 => Valid(target) /\ target.save = Newest
      <4>1. reading[w].since > 0 => primaries # <<>>
        BY <1>1, <3>1 DEF FilesOK
      <4> QED
        BY <1>1, <4>1, Standing DEF NewestIsThere
    <3>3. CASE pc[w] = "idle" /\ pc'[w] = "readPrimary"
               /\ reading' = [reading EXCEPT ![w] = [since |-> Len(primaries), got |-> Missing]]
      BY <1>1, <3>3
    <3>4. CASE pc[w] = "readPrimary" /\ pc'[w] = "idle" /\ Valid(target)
               /\ reading' = [reading EXCEPT ![w].got = target.save]
      <4>1. reading'[w].since = reading[w].since /\ reading'[w].got = target.save
        BY <1>1, <3>4
      <4>2. troubles = 0 /\ reading[w].since > 0 => Held(reading'[w], primaries)
        BY <1>1, <3>1, <3>2, <4>1 DEF Newest
      <4> QED
        BY <3>1, <3>4, <4>1, <4>2
    <3>5. CASE pc[w] = "readPrimary" /\ pc'[w] = "readBackup" /\ ~Valid(target)
               /\ reading' = reading
      BY <1>1, <3>1, <3>2, <3>5
    <3>6. CASE pc[w] = "readBackup" /\ pc'[w] = "idle"
               /\ \E s : reading' = [reading EXCEPT ![w].got = s]
      <4>1. reading'[w].since = reading[w].since
        BY <1>1, <3>6
      <4> QED
        BY <3>1, <3>6, <4>1
    <3> QED
      BY <1>4, <3>3, <3>4, <3>5, <3>6 DEF Looks
  <2> QED
    BY <2>1, <2>2, <2>3 DEF ReadsHold
<1> QED
  BY <1>2, <1>3, <1>4

LEMMA StepWriters ==
  ASSUME IInv, WritersKnown, NEW w \in Thread, Step(w)
  PROVE  WritersKnown' /\ writers \subseteq writers'
<1>1. /\ \A v \in Thread \ {w} : pc'[v] = pc[v]
      /\ \/ Installs(w) \/ Loses(w) \/ Rotates(w) \/ Works(w) \/ Begins(w) \/ Looks(w)
  BY StepIs
<1>2. IsFiniteSet(writers \cup {ProcessOf[w]})
  BY FS_AddElement DEF WritersKnown
<1>3. CASE Begins(w)
  BY <1>1, <1>2, <1>3 DEF Begins, WritersKnown, Saving
<1>4. CASE Looks(w)
  BY <1>1, <1>4 DEF Looks, WritersKnown, Saving
<1>5. CASE Installs(w) \/ Loses(w) \/ Rotates(w) \/ Works(w)
  <2>1. writers' = writers /\ Saving(w)
    BY <1>5 DEF Installs, Loses, Rotates, Works, Saving, Reads
  <2> QED
    BY <1>1, <2>1 DEF WritersKnown, Saving
<1> QED
  BY <1>1, <1>3, <1>4, <1>5


LEMMA StepBackup ==
  ASSUME IInv, Occupied, NewestIsThere, WritersKnown, BackupHolds, NEW w \in Thread, Step(w)
  PROVE  BackupHolds'
<1> SUFFICES ASSUME troubles' = 0, OneWriter'
             PROVE  /\ \A v \in Thread :
                         /\ pc'[v] = "replace" => primaries' # <<>>
                         /\ pc'[v] \in {"recheck", "move"} => primaries' = <<>>
                         /\ pc'[v] = "rotate" =>
                              /\ Len(primaries') > 1
                              /\ staged'[v].save = primaries'[Len(primaries') - 1]
                    /\ Len(primaries') > 1 =>
                         \/ bak'.save = primaries'[Len(primaries') - 1]
                         \/ \E v \in Thread : pc'[v] = "rotate"
  BY DEF BackupHolds
<1>1. /\ FilesOK /\ Len(primaries) \in Nat /\ staged \in [Thread -> File]
      /\ troubles \in Nat
  BY DEF IInv, FilesOK
<1>2. /\ \A v \in Thread \ {w} : pc'[v] = pc[v]
      /\ \/ Installs(w) \/ Loses(w) \/ Rotates(w) \/ Works(w) \/ Begins(w) \/ Looks(w)
  BY StepIs
<1>3. troubles = 0 /\ troubles' = troubles /\ OneWriter
  <2>1. troubles' \in {troubles, troubles + 1}
    BY <1>2 DEF Installs, Loses, Rotates, Works, Begins, Looks
  <2> QED
    BY <1>1, <2>1, StepWriters DEF OneWriter
<1>4. /\ \A v \in Thread :
           /\ pc[v] = "replace" => primaries # <<>>
           /\ pc[v] \in {"recheck", "move"} => primaries = <<>>
           /\ pc[v] = "rotate" =>
                Len(primaries) > 1 /\ staged[v].save = primaries[Len(primaries) - 1]
      /\ Len(primaries) > 1 =>
           \/ bak.save = primaries[Len(primaries) - 1]
           \/ \E v \in Thread : pc[v] = "rotate"
  BY <1>3 DEF BackupHolds
<1>5. Exists(target) <=> primaries # <<>>
  BY <1>3 DEF NewestIsThere
<1>6. Saving(w) => \A v \in Thread \ {w} : pc'[v] \in Reads \cup {"idle"}
  BY <1>2, <1>3, OneSaver DEF Saving
<1>7. CASE Installs(w)
  <2>1. saving[w] \in Save /\ primaries' = Append(primaries, saving[w]) /\ Saving(w)
    BY <1>7, Installed DEF Installs, Saving, Reads
  <2>2. /\ Len(primaries') = Len(primaries) + 1 /\ primaries' # <<>>
        /\ \A i \in 1 .. Len(primaries) : primaries'[i] = primaries[i]
        /\ primaries # <<>> <=> Len(primaries) > 0
    BY <1>1, <2>1, Appended
  <2>3. \A v \in Thread \ {w} : pc'[v] \notin {"replace", "recheck", "move", "rotate"}
    BY <1>6, <2>1 DEF Reads
  <2>4. CASE pc[w] = "replace"
    <3>1. Exists(target) /\ pc'[w] = "rotate" /\ staged'[w] = target
      BY <1>1, <1>7, <2>4 DEF Installs
    <3>2. Len(primaries) > 0 /\ target.save = primaries[Len(primaries)]
      BY <1>5, <2>2, <3>1 DEF NewestIsThere, Newest
    <3>3. Len(primaries') > 1 /\ staged'[w].save = primaries'[Len(primaries') - 1]
      BY <1>1, <2>2, <3>1, <3>2
    <3> QED
      BY <2>3, <3>1, <3>3
  <2>5. CASE pc[w] = "move"
    <3>1. primaries = <<>> /\ pc'[w] = "idle"
      BY <1>4, <1>7, <2>5 DEF Installs
    <3>2. ~(Len(primaries') > 1)
      BY <1>1, <2>2, <3>1
    <3> QED
      BY <2>3, <3>1, <3>2
  <2> QED
    BY <1>7, <2>4, <2>5 DEF Installs
<1>8. CASE Loses(w)
  BY <1>1, <1>3, <1>8 DEF Loses
<1>9. CASE Rotates(w)
  <2>1. /\ pc[w] = "rotate" /\ pc'[w] = "idle" /\ bak' = staged[w] /\ primaries' = primaries
        /\ Saving(w)
    BY <1>1, <1>3, <1>9 DEF Rotates, Saving, Reads
  <2>2. \A v \in Thread : pc'[v] \notin {"replace", "recheck", "move", "rotate"}
    BY <1>6, <2>1 DEF Reads
  <2> QED
    BY <1>4, <2>1, <2>2
<1>10. CASE Works(w) \/ Begins(w) \/ Looks(w)
  <2>1. /\ bak' = bak /\ staged' = staged /\ primaries' = primaries
        /\ pc[w] # "rotate" /\ pc'[w] # "rotate"
    BY <1>10 DEF Works, Begins, Looks, Reads
  <2>2. /\ pc'[w] = "replace" => primaries # <<>>
        /\ pc'[w] \in {"recheck", "move"} => primaries = <<>>
    BY <1>3, <1>5, <1>10 DEF Works, Begins, Looks, Reads
  <2>3. ASSUME NEW v \in Thread
        PROVE  /\ pc'[v] = "replace" => primaries' # <<>>
               /\ pc'[v] \in {"recheck", "move"} => primaries' = <<>>
               /\ pc'[v] = "rotate" =>
                    /\ Len(primaries') > 1
                    /\ staged'[v].save = primaries'[Len(primaries') - 1]
    <3>1. CASE v = w
      BY <2>1, <2>2, <3>1
    <3>2. CASE v # w
      BY <1>2, <1>4, <2>1, <3>2
    <3> QED
      BY <3>1, <3>2
  <2>4. ASSUME NEW v \in Thread, pc[v] = "rotate" PROVE pc'[v] = "rotate"
    BY <1>2, <2>1, <2>4
  <2> QED
    BY <1>4, <2>1, <2>3, <2>4
<1> QED
  BY <1>2, <1>7, <1>8, <1>9, <1>10

\* The end of threads takes nothing away, and is a trouble.
LEMMA StopKeeps ==
  ASSUME IInv, NewestIsThere, ReadsHold, WritersKnown, Stops
  PROVE  NewestIsThere' /\ ReadsHold' /\ WritersKnown' /\ BackupHolds'
<1>1. troubles \in Nat /\ troubles' = troubles + 1
  BY DEF IInv, Stops
<1>2. NewestIsThere'
  BY <1>1 DEF NewestIsThere, Newest, Exists, Stops
<1>3. ReadsHold'
  BY <1>1 DEF ReadsHold, Stops
<1>4. WritersKnown'
  BY DEF WritersKnown, Saving, Stops
<1>5. BackupHolds'
  BY <1>1 DEF BackupHolds
<1> QED
  BY <1>2, <1>3, <1>4, <1>5

LEMMA InitKInv == Init => KInv
<1> SUFFICES ASSUME Init PROVE KInv
  OBVIOUS
<1>1. IInv
  BY InitIInv
<1>2. /\ \A w \in Thread : pc[w] = "idle" /\ reading[w].since = 0
      /\ primaries = <<>> /\ writers = {} /\ ~Exists(target)
  BY DEF Init, Exists, NoFile
<1>3. Occupied /\ NewestIsThere
  BY <1>2 DEF Occupied, NewestIsThere
<1>4. ReadsHold
  BY <1>2 DEF ReadsHold
<1>5. WritersKnown
  BY <1>2, FS_EmptySet DEF WritersKnown, Saving
<1>6. BackupHolds
  BY <1>2 DEF BackupHolds
<1> QED
  BY <1>1, <1>3, <1>4, <1>5, <1>6 DEF KInv

LEMMA NextKInv == KInv /\ [Next]_vars => KInv'
<1> SUFFICES ASSUME KInv, [Next]_vars PROVE KInv'
  OBVIOUS
<1>1. /\ IInv /\ Occupied /\ NewestIsThere /\ ReadsHold /\ WritersKnown /\ BackupHolds
      /\ IInv'
  BY NextIInv DEF KInv
<1>2. ASSUME NEW w \in Thread, Step(w) PROVE KInv'
  BY <1>1, <1>2, StepOccupied, StepNewest, StepReads, StepWriters, StepBackup DEF KInv
<1>3. CASE PowerLoss \/ \E p \in Process : Killed(p)
  BY <1>1, <1>3, StopIs, StopOccupied, StopKeeps DEF KInv
<1>4. CASE UNCHANGED vars
  <2>1. Occupied' /\ NewestIsThere'
    BY <1>1, <1>4 DEF vars, disk, threads, history, Occupied, NewestIsThere, Newest, Exists
  <2>2. ReadsHold' /\ WritersKnown'
    BY <1>1, <1>4 DEF vars, threads, history, ReadsHold, WritersKnown, Saving
  <2>3. BackupHolds'
    BY <1>1, <1>4 DEF vars, disk, threads, history, BackupHolds, OneWriter
  <2> QED
    BY <1>1, <2>1, <2>2, <2>3 DEF KInv
<1> QED
  BY <1>2, <1>3, <1>4 DEF Next

\* Whatever the interleaving of savers, readers and instances: one failure of
\* any call, one killed process or one power loss leaves the newest save where
\* ReadValidated finds it; while nothing fails a read finds a save at least as
\* new as the newest at its start; and the backup is the save before the newest,
\* as long as one instance saves (Write, ReadValidated).
THEOREM SavesAlwaysKept == Spec => []SavesAreKept
<1>1. ASSUME KInv PROVE SavesAreKept
  <2>1. NewestSurvives
    <3> SUFFICES ASSUME Quiet, troubles <= 1, primaries # <<>>
                 PROVE  Found.save = Newest
      BY DEF NewestSurvives, Newest
    <3>1. Exists(target)
      BY <1>1 DEF KInv, NewestIsThere, Quiet
    <3>2. Valid(target) /\ target.save = Newest
      BY <1>1, <3>1, Standing DEF KInv, NewestIsThere
    <3> QED
      BY <3>2 DEF Found
  <2>2. ReadsFindTheSave
    BY <1>1 DEF KInv, ReadsHold, ReadsFindTheSave
  <2>3. BackupIsPreceding
    <3> SUFFICES ASSUME Quiet, troubles = 0, Cardinality(writers) = 1, Len(primaries) > 1
                 PROVE  bak.save = primaries[Len(primaries) - 1]
      BY DEF BackupIsPreceding
    <3>1. OneWriter
      BY <1>1, FS_Singleton DEF KInv, WritersKnown, OneWriter
    <3> QED
      BY <1>1, <3>1 DEF KInv, BackupHolds, Quiet
  <2> QED
    BY <2>1, <2>2, <2>3 DEF SavesAreKept, SavesSurvive
<1> QED
  BY <1>1, InitKInv, NextKInv, PTL DEF Spec

----------------------------------------------------------------------------
(* The write into memory.                                                  *)

----------------------------------------------------------------------------
(* The inductive invariant, one conjunct per duty.                         *)

\* The program counter and the obligations agree.
Sequencing ==
  /\ phase # "idle" => retained /\ op # "none"
  /\ phase = "idle" /\ ~retained /\ alive =>
       ~rollbackPending /\ ~flushPending /\ restorePending = {}
  /\ phase \in {"open", "write", "verify"} => op = "apply" /\ ~rollbackPending /\ ~applied
  /\ phase \in {"open", "write"} => ours = {}
  /\ phase \in {"survey", "reopen", "rewrite", "reverify"} => rollbackPending
  /\ phase = "restore" => todo \subseteq restorePending

\* Every protection that differs from the target's own is owed back.
Protections ==
  alive => /\ \A r \in Region : prot[r] # home[r] => r \in restorePending
           /\ retained => originalProtection = home

\* What the write left in the target, and what a rollback makes of it.
Ownership ==
  /\ ours \subseteq range
  /\ \A a \in ours : mem[a] = replacement[a] \/ mem[a] = original[a]
  /\ phase # "verify" /\ ~applied /\ ~rollbackPending => \A a \in ours : mem[a] = original[a]
  /\ phase \in {"reopen", "rewrite"} => \A a \in Addr : working[a] = Restored(a)
  /\ phase \in {"reopen", "rewrite", "reverify"} => \A a \in ours : working[a] = original[a]
  /\ applied /\ phase = "restore" /\ op = "apply" => \A a \in range : mem[a] = replacement[a]

Cache == cold \subseteq range /\ (~flushPending => cold = {})

Reports ==
  /\ rollbackPending => failed
  /\ phase = "verify" /\ ~wrote => failed
  /\ phase = "restore" /\ op = "apply" /\ ~applied => failed
  /\ phase = "restore" /\ restorePending # todo => failed
  /\ phase = "idle" /\ (retained \/ ~verdict) => failed

MutationIInv == MutationTypeOK /\ Sequencing /\ Protections /\ Ownership /\ Cache /\ Reports


\* A Win32 call may fail or not: the faults TLC explores are Booleans.
LEMMA OutcomesAreBoolean == Outcomes \subseteq BOOLEAN
  BY DEF Outcomes

\* Every step keeps the inductive invariant.
LEMMA MutationInductive == MutationIInv /\ [MutationNext]_mutationVars => MutationIInv'
<1> SUFFICES ASSUME MutationIInv, [MutationNext]_mutationVars PROVE MutationIInv'
  OBVIOUS
<1> USE DEF MutationIInv, Phases, memory, plan, duties, control, observed
<1>1. CASE Begin
  <2>1. MutationTypeOK'
    <3>1. range' \subseteq Addr /\ replacement' \in [Addr -> Byte]
      BY <1>1 DEF Begin
    <3>2. todo' \subseteq Region
      BY <1>1, MutationAssumption DEF Begin, RegionsOf
    <3>3. QED
      BY <1>1, <3>1, <3>2 DEF Begin, MutationTypeOK
  <2>2. Sequencing'
    BY <1>1 DEF Begin, Sequencing
  <2>3. Protections'
    BY <1>1 DEF Begin, MutationTypeOK, Sequencing, Protections
  <2>4. Ownership'
    BY <1>1 DEF Begin, Ownership
  <2>5. Cache'
    BY <1>1 DEF Begin, Sequencing, Cache, Outcomes
  <2>6. Reports'
    BY <1>1 DEF Begin, Reports
  <2>7. QED
    BY <2>1, <2>2, <2>3, <2>4, <2>5, <2>6
<1>2. CASE Refuse
  <2>1. MutationTypeOK'
    BY <1>2 DEF Refuse, MutationTypeOK
  <2>2. Sequencing'
    BY <1>2 DEF Refuse, Sequencing
  <2>3. Protections'
    BY <1>2 DEF Refuse, Protections
  <2>4. Ownership'
    BY <1>2 DEF Refuse, Ownership
  <2>5. Cache'
    BY <1>2 DEF Refuse, Cache
  <2>6. Reports'
    BY <1>2 DEF Refuse, Reports
  <2>7. QED
    BY <2>1, <2>2, <2>3, <2>4, <2>5, <2>6
<1>3. CASE Reconcile
  <2>1. MutationTypeOK'
    BY <1>3 DEF Reconcile, MutationTypeOK
  <2>2. Sequencing'
    BY <1>3 DEF Reconcile, Sequencing
  <2>3. Protections'
    BY <1>3 DEF Reconcile, Protections
  <2>4. Ownership'
    BY <1>3 DEF Reconcile, Ownership
  <2>5. Cache'
    BY <1>3 DEF Reconcile, Cache
  <2>6. Reports'
    BY <1>3 DEF Reconcile, Reports
  <2>7. QED
    BY <2>1, <2>2, <2>3, <2>4, <2>5, <2>6
<1>4. CASE MakeWritable("open", "write")
  <2>1. MutationTypeOK'
    BY <1>4, MutationAssumption DEF MakeWritable, MutationTypeOK, Flag, Owe
  <2>2. Sequencing'
    BY <1>4 DEF MakeWritable, Sequencing
  <2>3. Protections'
    BY <1>4 DEF MakeWritable, MutationTypeOK, Protections, Owe
  <2>4. Ownership'
    BY <1>4 DEF MakeWritable, Sequencing, Ownership
  <2>5. Cache'
    BY <1>4 DEF MakeWritable, Cache
  <2>6. Reports'
    BY <1>4 DEF MakeWritable, Reports, Flag
  <2>7. QED
    BY <2>1, <2>2, <2>3, <2>4, <2>5, <2>6
<1>5. CASE Write
  <2>1. MutationTypeOK'
    <3>1. PICK ok \in Outcomes, part \in SUBSET range :
            /\ mem' = [a \in Addr |-> IF a \in part THEN replacement[a] ELSE mem[a]]
            /\ ours' = IF phase = "write" THEN ours \cup part ELSE ours \ part
            /\ cold' = cold \cup part
            /\ wrote' = ok /\ flushPending' = FlushAfter(ok) /\ failed' = Flag(ok)
      BY <1>5 DEF Write, WriteBytes
    <3>2. ok \in BOOLEAN
      BY OutcomesAreBoolean
    <3>3. QED
      BY <1>5, <3>1, <3>2 DEF Write, WriteBytes, Flag, FlushAfter, MutationTypeOK, Sequencing
  <2>2. Sequencing'
    BY <1>5 DEF Write, WriteBytes, Sequencing
  <2>3. Protections'
    BY <1>5 DEF Write, WriteBytes, Protections
  <2>4. Ownership'
    BY <1>5 DEF Write, WriteBytes, MutationTypeOK, Ownership
  <2>5. Cache'
    BY <1>5 DEF Write, WriteBytes, Cache, FlushAfter
  <2>6. Reports'
    <3>1. PICK ok \in Outcomes : wrote' = ok /\ failed' = Flag(ok)
      BY <1>5 DEF Write, WriteBytes
    <3>2. ok \in BOOLEAN
      BY OutcomesAreBoolean
    <3>3. QED
      BY <1>5, <3>1, <3>2 DEF Write, WriteBytes, Flag, MutationTypeOK, Sequencing, Reports
  <2>7. QED
    BY <2>1, <2>2, <2>3, <2>4, <2>5, <2>6
<1>6. CASE Verify
  <2>1. MutationTypeOK'
    BY <1>6 DEF Verify, MutationTypeOK, Flag, RollbackAfter, Applied
  <2>2. Sequencing'
    BY <1>6 DEF Verify, Sequencing
  <2>3. Protections'
    BY <1>6 DEF Verify, Protections
  <2>4. Ownership'
    BY <1>6 DEF Verify, Ownership, RollbackAfter, Applied
  <2>5. Cache'
    BY <1>6 DEF Verify, Cache
  <2>6. Reports'
    BY <1>6 DEF Verify, Reports, Flag, RollbackAfter, Applied
  <2>7. QED
    BY <2>1, <2>2, <2>3, <2>4, <2>5, <2>6
<1>7. CASE Survey
  <2>1. MutationTypeOK'
    BY <1>7, MutationAssumption DEF Survey, MutationTypeOK, Sequencing, Flag, Restored, RegionsOf
  <2>2. Sequencing'
    BY <1>7 DEF Survey, Sequencing
  <2>3. Protections'
    BY <1>7 DEF Survey, Protections
  <2>4. Ownership'
    <3>1. /\ phase = "survey" /\ phase' \in {"reopen", "restore"}
          /\ rollbackPending /\ ~applied /\ applied' = applied
          /\ mem' = mem /\ ours' = ours /\ range' = range
          /\ original' = original /\ replacement' = replacement
      BY <1>7 DEF Survey, Sequencing, MutationTypeOK, memory, plan, observed
    <3>2. /\ ours \subseteq range
          /\ \A a \in ours : mem[a] = replacement[a] \/ mem[a] = original[a]
      BY Zenon DEF Ownership
    <3>3. ~rollbackPending' => \A a \in range : mem[a] = replacement[a] => mem[a] = original[a]
      BY <1>7, Zenon DEF Survey
    <3>4. phase' = "reopen" => working' = [a \in Addr |-> Restored(a)]
      BY <1>7, <3>1 DEF Survey
    <3>5. ~rollbackPending' => \A a \in ours : mem[a] = original[a]
      BY <3>2, <3>3, Zenon
    <3>6. phase' = "reopen" => \A a \in Addr : working'[a] = Restored(a)
      BY <3>4
    <3>7. phase' = "reopen" => \A a \in ours : working'[a] = original[a]
      <4>1. \A a \in ours : Restored(a) = original[a]
        BY <3>2, Zenon DEF Restored
      <4>2. ours \subseteq Addr
        BY Zenon DEF MutationTypeOK
      <4> QED
        BY <3>6, <4>1, <4>2, Zenon
    <3> QED
      BY <3>1, <3>2, <3>5, <3>6, <3>7 DEF Ownership, Restored
  <2>5. Cache'
    BY <1>7 DEF Survey, Cache
  <2>6. Reports'
    BY <1>7 DEF Survey, Sequencing, Reports, Flag
  <2>7. QED
    BY <2>1, <2>2, <2>3, <2>4, <2>5, <2>6
<1>8. CASE MakeWritable("reopen", "rewrite")
  <2>1. MutationTypeOK'
    BY <1>8, MutationAssumption DEF MakeWritable, MutationTypeOK, Flag, Owe
  <2>2. Sequencing'
    BY <1>8 DEF MakeWritable, Sequencing
  <2>3. Protections'
    BY <1>8 DEF MakeWritable, MutationTypeOK, Protections, Owe
  <2>4. Ownership'
    BY <1>8 DEF MakeWritable, MutationTypeOK, Sequencing, Ownership, Restored
  <2>5. Cache'
    BY <1>8 DEF MakeWritable, Cache
  <2>6. Reports'
    BY <1>8 DEF MakeWritable, Reports, Flag
  <2>7. QED
    BY <2>1, <2>2, <2>3, <2>4, <2>5, <2>6
<1>9. CASE Rewrite
  <2>1. MutationTypeOK'
    <3>1. PICK ok \in Outcomes, part \in SUBSET range :
            /\ mem' = [a \in Addr |-> IF a \in part THEN working[a] ELSE mem[a]]
            /\ ours' = IF phase = "write" THEN ours \cup part ELSE ours \ part
            /\ cold' = cold \cup part
            /\ wrote' = ok /\ flushPending' = FlushAfter(ok) /\ failed' = Flag(ok)
      BY <1>9 DEF Rewrite, WriteBytes
    <3>2. ok \in BOOLEAN
      BY OutcomesAreBoolean
    <3>3. QED
      BY <1>9, <3>1, <3>2 DEF Rewrite, WriteBytes, Flag, FlushAfter, MutationTypeOK, Sequencing
  <2>2. Sequencing'
    BY <1>9 DEF Rewrite, WriteBytes, Sequencing
  <2>3. Protections'
    BY <1>9 DEF Rewrite, WriteBytes, Protections
  <2>4. Ownership'
    BY <1>9 DEF Rewrite, WriteBytes, MutationTypeOK, Ownership
  <2>5. Cache'
    BY <1>9 DEF Rewrite, WriteBytes, Cache, FlushAfter
  <2>6. Reports'
    BY <1>9 DEF Rewrite, WriteBytes, Reports, Flag
  <2>7. QED
    BY <2>1, <2>2, <2>3, <2>4, <2>5, <2>6
<1>10. CASE Reverify
  <2>1. MutationTypeOK'
    BY <1>10 DEF Reverify, MutationTypeOK, Sequencing, Flag
  <2>2. Sequencing'
    BY <1>10 DEF Reverify, Sequencing
  <2>3. Protections'
    BY <1>10 DEF Reverify, Protections
  <2>4. Ownership'
    BY <1>10 DEF Reverify, MutationTypeOK, Sequencing, Ownership
  <2>5. Cache'
    BY <1>10 DEF Reverify, Cache
  <2>6. Reports'
    BY <1>10 DEF Reverify, Sequencing, Reports, Flag
  <2>7. QED
    BY <2>1, <2>2, <2>3, <2>4, <2>5, <2>6
<1>11. CASE RestoreProtection
  <2>1. MutationTypeOK'
    BY <1>11 DEF RestoreProtection, MutationTypeOK, Flag, StillOwed
  <2>2. Sequencing'
    BY <1>11 DEF RestoreProtection, Sequencing, StillOwed
  <2>3. Protections'
    BY <1>11 DEF RestoreProtection, MutationTypeOK, Sequencing, Protections, StillOwed
  <2>4. Ownership'
    BY <1>11 DEF RestoreProtection, Ownership
  <2>5. Cache'
    BY <1>11 DEF RestoreProtection, Cache
  <2>6. Reports'
    BY <1>11 DEF RestoreProtection, Reports, Flag, StillOwed
  <2>7. QED
    BY <2>1, <2>2, <2>3, <2>4, <2>5, <2>6
<1>12. CASE FlushCache
  <2>1. MutationTypeOK'
    <3>1. /\ rollbackPending \in BOOLEAN /\ flushPending \in BOOLEAN /\ failed \in BOOLEAN
          /\ applied \in BOOLEAN /\ alive \in BOOLEAN /\ healthy \in BOOLEAN
          /\ wrote \in BOOLEAN
          /\ applied => ~rollbackPending
      BY DEF MutationTypeOK
    <3>2. PICK ok \in Outcomes :
            /\ flushPending' = (flushPending /\ ~ok) /\ failed' = Flag(flushPending => ok)
            /\ cold' = IF flushPending /\ ok THEN cold \ range ELSE cold
      BY <1>12, Zenon DEF FlushCache
    <3>3. /\ retained' = Pending(flushPending')
          /\ verdict' = IF op = "apply" THEN applied ELSE ~Pending(flushPending')
          /\ working' = IF retained' THEN working ELSE original
          /\ phase' = "idle" /\ op' = "none"
          /\ UNCHANGED <<mem, prot, alive, healthy, range, original, replacement,
                         originalProtection, restorePending, rollbackPending, applied, todo,
                         wrote, ours, home>>
      BY <1>12, Zenon DEF FlushCache, memory, plan
    <3>4. flushPending' \in BOOLEAN /\ failed' \in BOOLEAN /\ retained' \in BOOLEAN
      BY <3>2, <3>3, Zenon DEF Flag, Pending
    <3>5. verdict' \in BOOLEAN
      BY <3>1, <3>3, Zenon
    <3>6. {alive', healthy', retained', rollbackPending', flushPending', applied', failed', wrote',
           verdict'} \subseteq BOOLEAN
      <4>1. /\ alive' \in BOOLEAN /\ healthy' \in BOOLEAN /\ rollbackPending' \in BOOLEAN
            /\ applied' \in BOOLEAN /\ wrote' \in BOOLEAN
        BY <3>1, <3>3, Zenon
      <4> QED
        BY <3>4, <3>5, <4>1
    <3>7. /\ applied' => ~rollbackPending'
          /\ mem' \in [Addr -> Byte] /\ prot' \in [Region -> Protection]
          /\ range' \subseteq Addr /\ cold' \subseteq Addr /\ ours' \subseteq Addr
          /\ original' \in [Addr -> Byte] /\ replacement' \in [Addr -> Byte]
          /\ working' \in [Addr -> Byte]
          /\ originalProtection' \in [Region -> Protection] /\ home' \in [Region -> Protection]
          /\ restorePending' \subseteq Region /\ todo' \subseteq Region
      BY <3>1, <3>2, <3>3, Zenon DEF MutationTypeOK
    <3>8. phase' \in Phases /\ op' \in {"none", "apply", "reconcile"}
      BY <3>3 DEF Phases
    <3> QED
      BY <3>6, <3>7, <3>8, Zenon DEF MutationTypeOK
  <2>2. Sequencing'
    BY <1>12 DEF FlushCache, Sequencing, Pending
  <2>3. Protections'
    BY <1>12 DEF FlushCache, Sequencing, Protections
  <2>4. Ownership'
    BY <1>12 DEF FlushCache, Ownership
  <2>5. Cache'
    BY <1>12 DEF FlushCache, Cache
  <2>6. Reports'
    BY <1>12 DEF FlushCache, Reports, Flag, Pending
  <2>7. QED
    BY <2>1, <2>2, <2>3, <2>4, <2>5, <2>6
<1>13. CASE TargetWrites
  <2>1. MutationTypeOK'
    BY <1>13 DEF TargetWrites, MutationTypeOK
  <2>2. Sequencing'
    BY <1>13 DEF TargetWrites, Sequencing
  <2>3. Protections'
    BY <1>13 DEF TargetWrites, Protections
  <2>4. Ownership'
    BY <1>13 DEF TargetWrites, Ownership
  <2>5. Cache'
    BY <1>13 DEF TargetWrites, Cache
  <2>6. Reports'
    BY <1>13 DEF TargetWrites, Reports
  <2>7. QED
    BY <2>1, <2>2, <2>3, <2>4, <2>5, <2>6
<1>14. CASE TargetProtects
  <2>1. MutationTypeOK'
    BY <1>14 DEF TargetProtects, MutationTypeOK
  <2>2. Sequencing'
    BY <1>14 DEF TargetProtects, Sequencing
  <2>3. Protections'
    BY <1>14 DEF TargetProtects, MutationTypeOK, Protections
  <2>4. Ownership'
    BY <1>14 DEF TargetProtects, Ownership
  <2>5. Cache'
    BY <1>14 DEF TargetProtects, Cache
  <2>6. Reports'
    BY <1>14 DEF TargetProtects, Reports
  <2>7. QED
    BY <2>1, <2>2, <2>3, <2>4, <2>5, <2>6
<1>15. CASE TargetExits
  <2>1. MutationTypeOK'
    BY <1>15 DEF TargetExits, MutationTypeOK
  <2>2. Sequencing'
    BY <1>15 DEF TargetExits, Sequencing
  <2>3. Protections'
    BY <1>15 DEF TargetExits, Protections
  <2>4. Ownership'
    BY <1>15 DEF TargetExits, Ownership, Restored
  <2>5. Cache'
    BY <1>15 DEF TargetExits, Cache
  <2>6. Reports'
    BY <1>15 DEF TargetExits, Reports
  <2>7. QED
    BY <2>1, <2>2, <2>3, <2>4, <2>5, <2>6
<1>16. CASE Heal
  <2>1. MutationTypeOK'
    BY <1>16 DEF Heal, MutationTypeOK
  <2>2. Sequencing'
    BY <1>16 DEF Heal, Sequencing
  <2>3. Protections'
    BY <1>16 DEF Heal, Protections
  <2>4. Ownership'
    BY <1>16 DEF Heal, Ownership, Restored
  <2>5. Cache'
    BY <1>16 DEF Heal, Cache
  <2>6. Reports'
    BY <1>16 DEF Heal, Reports
  <2>7. QED
    BY <2>1, <2>2, <2>3, <2>4, <2>5, <2>6
<1>17. CASE UNCHANGED mutationVars
  BY <1>17 DEF mutationVars, MutationTypeOK, Sequencing, Protections, Ownership, Cache, Reports, Restored
<1>18. QED
  BY <1>1, <1>2, <1>3, <1>4, <1>5, <1>6, <1>7, <1>8, <1>9, <1>10, <1>11, <1>12, <1>13, <1>14, <1>15, <1>16, <1>17 DEF MutationNext, Operation

\* The invariant holds at the start: nothing is owed.
LEMMA Initially == MutationInit => MutationIInv
<1> SUFFICES ASSUME MutationInit PROVE MutationIInv
  OBVIOUS
<1> USE DEF MutationInit, MutationIInv
<1>1. MutationTypeOK
  BY MutationAssumption DEF MutationTypeOK, Phases
<1>2. Sequencing /\ Protections /\ Ownership /\ Cache /\ Reports
  BY DEF Sequencing, Protections, Ownership, Cache, Reports
<1>3. QED
  BY <1>1, <1>2

\* In every reachable state every duty of the retained mutation is recorded.
THEOREM MutationInvariance == MutationSpec => []MutationIInv
  BY Initially, MutationInductive, PTL DEF MutationSpec

----------------------------------------------------------------------------
(* The properties of the model, from the inductive invariant.              *)

\* The types, and that an applied write is never also owed a rollback.
THEOREM MutationTypeCorrect == MutationSpec => []MutationTypeOK
<1>1. MutationIInv => MutationTypeOK
  BY DEF MutationIInv
<1>2. QED
  BY <1>1, MutationInvariance, PTL

\* Once nothing is retained, a write that was not applied has left no byte of its
\* own in the target (ApplyMemoryMutation, ReconcileMemoryMutation).
THEOREM NothingLeftBehind == MutationSpec => []FailedWriteLeavesNothing
<1>1. MutationIInv => FailedWriteLeavesNothing
  BY DEF MutationIInv, Sequencing, Ownership, FailedWriteLeavesNothing, Settled
<1>2. QED
  BY <1>1, MutationInvariance, PTL

\* Once nothing is retained, every page has the protection the target gave it
\* (MakeMutationWritable, RestoreMutationEnvironment).
THEOREM ProtectionsReturned == MutationSpec => []ProtectionsGivenBack
<1>1. MutationIInv => ProtectionsGivenBack
  <2> SUFFICES ASSUME MutationIInv, Settled PROVE prot = home
    BY DEF ProtectionsGivenBack
  <2>1. \A r \in Region : prot[r] = home[r]
    BY DEF MutationIInv, Settled, Sequencing, Protections
  <2>2. prot \in [Region -> Protection] /\ home \in [Region -> Protection]
    BY DEF MutationIInv, MutationTypeOK
  <2>3. QED
    BY <2>1, <2>2
<1>2. QED
  BY <1>1, MutationInvariance, PTL

\* Once nothing is retained, no changed byte is still hidden by the instruction
\* cache (the flush of RestoreMutationEnvironment).
THEOREM CacheIsFlushed == MutationSpec => []CacheFlushed
<1>1. MutationIInv => CacheFlushed
  BY DEF MutationIInv, Sequencing, Cache, CacheFlushed, Settled
<1>2. QED
  BY <1>1, MutationInvariance, PTL

\* What is retained, or was refused, has a failure flag set (rememberFailure).
THEOREM FailuresReported == MutationSpec => []FailureReported
<1>1. MutationIInv => FailureReported
  BY DEF MutationIInv, Reports, FailureReported
<1>2. QED
  BY <1>1, MutationInvariance, PTL

\* A write that answers true has put its bytes there (checkedRemoteWrite).
THEOREM AppliedMeansWritten == MutationSpec => AppliedIsTrue
<1> DEFINE Honest == phase = "restore" /\ phase' = "idle" /\ op = "apply" /\ verdict'
                       => \A a \in range : mem[a] = replacement[a]
<1>1. MutationIInv /\ [MutationNext]_mutationVars => [Honest]_mutationVars
  <2> SUFFICES ASSUME MutationIInv, MutationNext, phase = "restore", phase' = "idle", op = "apply", verdict'
               PROVE  \A a \in range : mem[a] = replacement[a]
    OBVIOUS
  <2>1. FlushCache
    BY DEF MutationNext, Operation, Begin, Refuse, Reconcile, MakeWritable, Write, WriteBytes, Verify,
           Survey, Rewrite, Reverify, RestoreProtection, TargetWrites, TargetProtects, TargetExits,
           Heal, control
  <2>2. applied
    BY <2>1 DEF FlushCache
  <2>3. QED
    BY <2>2 DEF MutationIInv, Ownership
<1>2. QED
  BY <1>1, MutationInvariance, PTL DEF MutationSpec, AppliedIsTrue

\* A rollback changes only bytes that still hold what the failed write put there,
\* and gives each its original value (ReconcileMemoryMutation).
THEOREM SupersededIsKept == MutationSpec => SupersededKept
<1> DEFINE Careful == phase = "rewrite" /\ phase' = "reverify" =>
       \A a \in Addr : mem'[a] # mem[a] => mem[a] = replacement[a] /\ mem'[a] = original[a]
<1>1. MutationIInv /\ [MutationNext]_mutationVars => [Careful]_mutationVars
  <2> SUFFICES ASSUME MutationIInv, MutationNext, phase = "rewrite", phase' = "reverify",
                      NEW a \in Addr, mem'[a] # mem[a]
               PROVE  mem[a] = replacement[a] /\ mem'[a] = original[a]
    OBVIOUS
  <2>1. Rewrite
    BY DEF MutationNext, Operation, Begin, Refuse, Reconcile, MakeWritable, Write, WriteBytes, Verify,
           Survey, Reverify, RestoreProtection, FlushCache, TargetWrites, TargetProtects, TargetExits,
           Heal, control
  <2>2. mem'[a] = working[a]
    BY <2>1 DEF Rewrite, WriteBytes
  <2>3. working[a] = Restored(a)
    BY DEF MutationIInv, Ownership
  <2>4. QED
    BY <2>2, <2>3 DEF Restored
<1>2. QED
  BY <1>1, MutationInvariance, PTL DEF MutationSpec, SupersededKept

\* When nothing is owed any more nothing of a failed write is left (RollBack and
\* ReconcileMemoryMutation).
THEOREM NothingIsOwed == MutationSpec => []NothingOwed
  BY NothingLeftBehind, ProtectionsReturned, CacheIsFlushed, PTL DEF NothingOwed

\* A write that is called done is there, and taking one back spares what the
\* target has written since (ApplyMemoryMutation, ReconcileMemoryMutation).
THEOREM WritesAreHonest == MutationSpec => HonestWrites
  BY AppliedMeansWritten, SupersededIsKept DEF HonestWrites

----------------------------------------------------------------------------
(* Recovery.                                                               *)

\* With calls that all work, a write is read back as written, a rollback as
\* restored, and what is left to give back is what the loop still has before it.
Recovers ==
  healthy /\ alive =>
    /\ phase = "verify" => wrote /\ \A a \in range : mem[a] = replacement[a]
    /\ phase = "reverify" => \A a \in range : mem[a] = working[a]
    /\ phase = "restore" => ~rollbackPending /\ restorePending \subseteq todo

LEMMA RecoversInductive ==
  MutationTypeOK /\ Recovers /\ [MutationNext]_mutationVars => Recovers'
<1> SUFFICES ASSUME MutationTypeOK, Recovers, [MutationNext]_mutationVars, healthy', alive'
             PROVE  Recovers'
  BY DEF Recovers
<1>1. alive
  BY DEF MutationNext, mutationVars, memory, Begin, Refuse, Reconcile, Operation, MakeWritable, Write,
         WriteBytes, Verify, Survey, Rewrite, Reverify, RestoreProtection, FlushCache,
         TargetWrites, TargetProtects, TargetExits, Heal
<1>2. ASSUME phase' \notin {"verify", "reverify", "restore"} PROVE Recovers'
  BY <1>2 DEF Recovers
<1>3. CASE Begin \/ Refuse \/ TargetWrites \/ TargetProtects \/ Heal
  BY <1>2, <1>3 DEF Begin, Refuse, TargetWrites, TargetProtects, Heal, control
<1>4. CASE TargetExits
  BY <1>4 DEF TargetExits
<1>5. CASE Reconcile
  <2>1. CASE rollbackPending
    BY <1>1, <1>2, <1>5, <2>1 DEF Reconcile
  <2>2. CASE ~rollbackPending
    <3>1. /\ phase' = "restore" /\ todo' = restorePending /\ restorePending' = restorePending
          /\ rollbackPending' = rollbackPending
      BY <1>1, <1>5, <2>2, Zenon DEF Reconcile, duties
    <3> QED
      BY <2>2, <3>1 DEF Recovers
  <2> QED
    BY <2>1, <2>2
<1>6. CASE Operation
  <2>1. healthy
    BY <1>6 DEF Operation, MakeWritable, Write, WriteBytes, Verify, Survey, Rewrite, Reverify,
                RestoreProtection, FlushCache, memory
  <2>2. Outcomes = {TRUE}
    BY <1>1, <2>1 DEF Outcomes
  <2>3. ASSUME NEW at, NEW next, next \in {"write", "rewrite"}, at \in {"open", "reopen"},
               MakeWritable(at, next)
        PROVE  Recovers'
    <3>1. phase' \in {at, next}
      <4>1. CASE todo = {}
        BY <2>3, <4>1, Zenon DEF MakeWritable
      <4>2. CASE todo # {}
        <5>1. PICK ok \in Outcomes : phase' = IF ok THEN at ELSE "restore"
          BY <2>3, <4>2, Zenon DEF MakeWritable
        <5>2. ok = TRUE
          BY <2>2
        <5> QED
          BY <5>1, <5>2
      <4> QED
        BY <4>1, <4>2
    <3> QED
      BY <1>2, <2>3, <3>1
  <2>4. CASE Write
    <3>1. PICK ok \in Outcomes, part \in SUBSET range :
            /\ healthy /\ alive => part = range
            /\ mem' = [a \in Addr |-> IF a \in part THEN replacement[a] ELSE mem[a]]
            /\ wrote' = ok
      BY <2>4, Zenon DEF Write, WriteBytes
    <3>2. phase' = "verify" /\ range' = range /\ replacement' = replacement
      BY <2>4, Zenon DEF Write, WriteBytes, plan
    <3>3. \A a \in range : mem'[a] = replacement[a]
      BY <1>1, <2>1, <3>1 DEF MutationTypeOK
    <3>4. wrote'
      BY <2>2, <3>1
    <3> QED
      BY <3>2, <3>3, <3>4 DEF Recovers
  <2>5. CASE Rewrite
    <3>1. PICK part \in SUBSET range :
            /\ healthy /\ alive => part = range
            /\ mem' = [a \in Addr |-> IF a \in part THEN working[a] ELSE mem[a]]
      BY <2>5, Zenon DEF Rewrite, WriteBytes
    <3>2. phase' = "reverify" /\ range' = range /\ working' = working
      BY <2>5, Zenon DEF Rewrite, WriteBytes, plan
    <3>3. \A a \in range : mem'[a] = working[a]
      BY <1>1, <2>1, <3>1 DEF MutationTypeOK
    <3> QED
      BY <3>2, <3>3 DEF Recovers
  <2>6. CASE Verify
    <3>1. wrote /\ \A a \in range : mem[a] = replacement[a]
      BY <1>1, <2>1, <2>6 DEF Verify, Recovers
    <3>2. PICK ok \in Outcomes :
            LET verified == ok /\ \A a \in range : mem[a] = replacement[a]
            IN  /\ rollbackPending' = RollbackAfter(wrote, verified)
                /\ phase' = IF RollbackAfter(wrote, verified) THEN "survey" ELSE "restore"
      BY <2>6, Zenon DEF Verify
    <3>3. ~rollbackPending' /\ phase' = "restore"
      BY <2>2, <3>1, <3>2 DEF RollbackAfter
    <3>4. todo' = restorePending /\ restorePending' = restorePending
      BY <2>6, Zenon DEF Verify
    <3> QED
      BY <3>3, <3>4 DEF Recovers
  <2>7. CASE Survey
    <3>1. PICK ok \in Outcomes :
            LET needsWrite == \E a \in range : mem[a] = replacement[a] /\ mem[a] # original[a]
            IN  /\ rollbackPending' = (ok => needsWrite)
                /\ phase' = IF ok /\ needsWrite THEN "reopen" ELSE "restore"
                /\ todo' = IF ok /\ needsWrite THEN RegionsOf(range) ELSE restorePending
      BY <2>7, Zenon DEF Survey
    <3>2. ok = TRUE /\ restorePending' = restorePending
      BY <2>2, <2>7, <3>1 DEF Survey
    <3>3. phase' = "reopen" \/ (~rollbackPending' /\ todo' = restorePending)
      BY <3>1, <3>2
    <3>4. phase' \in {"reopen", "restore"}
      BY <3>1
    <3> QED
      BY <3>2, <3>3, <3>4 DEF Recovers
  <2>8. CASE Reverify
    <3>1. \A a \in range : mem[a] = working[a]
      BY <1>1, <2>1, <2>8 DEF Reverify, Recovers
    <3>2. PICK ok \in Outcomes : rollbackPending' = ~(ok /\ \A a \in range : mem[a] = working[a])
      BY <2>8, Zenon DEF Reverify
    <3>3. ~rollbackPending'
      BY <2>2, <3>1, <3>2
    <3>4. phase' = "restore" /\ todo' = restorePending /\ restorePending' = restorePending
      BY <2>8, Zenon DEF Reverify
    <3> QED
      BY <3>3, <3>4 DEF Recovers
  <2>9. CASE RestoreProtection
    <3>1. phase = "restore" /\ phase' = "restore" /\ rollbackPending' = rollbackPending
      BY <2>9, Zenon DEF RestoreProtection
    <3>2. ~rollbackPending /\ restorePending \subseteq todo
      BY <1>1, <2>1, <3>1 DEF Recovers
    <3>3. PICK r \in todo, restored \in Outcomes :
            /\ todo' = todo \ {r}
            /\ \E m : restorePending' = StillOwed(r, restored, m)
      BY <2>9, Zenon DEF RestoreProtection
    <3>4. restorePending' = restorePending \ {r}
      BY <2>2, <3>3 DEF StillOwed
    <3> QED
      BY <3>1, <3>2, <3>3, <3>4 DEF Recovers
  <2>10. CASE FlushCache
    <3>1. phase' = "idle"
      BY <2>10, Zenon DEF FlushCache
    <3> QED
      BY <1>2, <3>1
  <2> QED
    BY <1>6, <2>3, <2>4, <2>5, <2>6, <2>7, <2>8, <2>9, <2>10 DEF Operation
<1>7. CASE UNCHANGED mutationVars
  BY <1>7 DEF Recovers, mutationVars, memory, plan, duties, control
<1> QED
  BY <1>3, <1>4, <1>5, <1>6, <1>7, Zenon DEF MutationNext

\* Once native calls work, one more operation gives everything back,
\* whatever was owed (ReconcileMemoryMutation, RestoreMutationEnvironment).
THEOREM RetriesRecover == MutationSpec => RetryRecovers
<1>1. MutationInit => Recovers
  BY DEF MutationInit, Recovers
<1>2. MutationIInv => MutationTypeOK
  BY DEF MutationIInv
<1>3. Recovers /\ [MutationNext]_mutationVars =>
        [phase = "restore" /\ phase' = "idle" /\ healthy /\ alive => ~retained']_mutationVars
  <2> SUFFICES ASSUME Recovers, MutationNext, phase = "restore", phase' = "idle", healthy, alive
               PROVE  ~retained'
    OBVIOUS
  <2>1. Outcomes = {TRUE} /\ ~rollbackPending /\ restorePending \subseteq todo
    BY DEF Outcomes, Recovers
  <2>2. ASSUME ~FlushCache PROVE FALSE
    <3>1. Begin \/ Refuse \/ Reconcile \/ TargetWrites \/ TargetProtects \/ TargetExits \/ Heal
            => phase = "idle" \/ phase' = phase
      BY DEF Begin, Refuse, Reconcile, TargetWrites, TargetProtects, TargetExits, Heal
    <3>2. Write \/ Verify \/ Survey \/ Rewrite \/ Reverify \/ RestoreProtection
            => phase # "restore" \/ phase' = phase
      BY DEF Write, WriteBytes, Verify, Survey, Rewrite, Reverify, RestoreProtection
    <3>3. MakeWritable("open", "write") \/ MakeWritable("reopen", "rewrite") => phase # "restore"
      BY DEF MakeWritable
    <3> QED
      BY <2>2, <3>1, <3>2, <3>3 DEF MutationNext, Operation
  <2>3. todo = {} /\ rollbackPending' = rollbackPending /\ restorePending' = restorePending
        /\ retained' = Pending(flushPending')
    BY <2>2, Zenon DEF FlushCache
  <2>4. PICK ok \in Outcomes : flushPending' = (flushPending /\ ~ok)
    BY <2>2, Zenon DEF FlushCache
  <2>5. ~flushPending' /\ restorePending = {}
    BY <2>1, <2>3, <2>4
  <2> QED
    BY <2>1, <2>3, <2>5 DEF Pending
<1> QED
  BY <1>1, <1>2, <1>3, MutationInvariance, RecoversInductive, PTL DEF MutationSpec, RetryRecovers

=============================================================================
