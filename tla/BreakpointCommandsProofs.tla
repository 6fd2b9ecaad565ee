---------------------- MODULE BreakpointCommandsProofs ----------------------
(***************************************************************************)
(* Proofs about the breakpoint commands, for any addresses, conditions,    *)
(* periods and callers.                                                    *)
(***************************************************************************)
EXTENDS BreakpointCommands, FiniteSetTheorems, TLAPS

----------------------------------------------------------------------------
(* The inductive invariant.                                                *)

\* A breakpoint has one row; only a stubborn address has a failed one.
Rows ==
  \A a \in Addr :
    /\ ~(Has(bps, a) /\ Has(disabled, a))
    /\ ~(Has(bps, a) /\ Has(failed, a))
    /\ ~(Has(disabled, a) /\ Has(failed, a))
    /\ Has(failed, a) => a \in stubborn

\* A removal that is queued has swept the address's other requests away, and
\* nothing is switched off that is removed in the same pass.
Requests ==
  /\ \A a \in rems : adds[a] = NoCond /\ enabled[a] = "none"
  /\ batch.rems \cap batch.disable = {}

\* The batch is applied kind by kind.
Phases ==
  /\ owner \in {"conds", "tune", "rems"} => batch.adds = Empty(NoCond)
  /\ owner \in {"tune", "rems"} => batch.conds = Empty(NoCond)
  /\ \A a \in Addr : batch.adds[a] # NoCond => a \in applying

IInv == TypeOK /\ Rows /\ Requests /\ Phases


----------------------------------------------------------------------------
(* Type correctness.                                                       *)

\* Without a session there is no owner of the events.
Ownerless == state = "Detached" => owner = "none"

\* Type correctness is inductive only for a state that has no owner while it is
\* detached.  Its truth values are kept apart from its maps and sets.
Flags ==
  /\ continue \in BOOLEAN /\ traceSync \in BOOLEAN /\ asleep \in BOOLEAN /\ unbroken \in BOOLEAN
  /\ asleep => owner = "wait"

Maps ==
  /\ state \in {"Detached", "Running", "Paused"}
  /\ adds \in [Addr -> Conds] /\ rems \subseteq Addr /\ conds \in [Addr -> Conds]
  /\ enabled \in [Addr -> {"none", "on", "off"}] /\ tunes \in [Addr -> Period \cup {NoPeriod}]
  /\ bps \in [Addr -> Conds] /\ disabled \in [Addr -> Conds]
  /\ failed \in [Addr -> Conds] /\ applying \subseteq Addr
  /\ batch \in [adds : [Addr -> Conds], conds : [Addr -> Conds], enable : SUBSET Addr,
                disable : SUBSET Addr, rems : SUBSET Addr]
  /\ tuning \in [Addr -> Period \cup {NoPeriod}]
  /\ owner \in {"none", "pump", "swap", "adds", "conds", "tune", "rems", "done", "wait"}
  /\ after \in {"none", "resume", "pause", "wait", "close"}
  /\ pc \in [Caller -> {"free", "wake", "inject"}]
  /\ stubborn \in SUBSET Addr
  /\ applying # {} => owner = "adds"
  /\ batch # NoBatch => owner \in {"adds", "conds", "tune", "rems"}
  /\ Ownerless

\* The two halves are type correctness.
LEMMA Halves == TypeOK /\ Ownerless <=> Maps /\ Flags
  BY Zenon DEF TypeOK, Maps, Flags

\* A map that is the same everywhere has the type of its value.
LEMMA EmptyType ==
  ASSUME NEW S, NEW v \in S
  PROVE  Empty(v) \in [Addr -> S]
  BY DEF Empty

\* Every session starts without a row, a request or an owner.
LEMMA InitTypes == Init => Maps /\ Flags
<1> SUFFICES ASSUME Init PROVE Maps /\ Flags
  OBVIOUS
<1>1. Flags
  BY Zenon DEF Init, Flags
<1>2. /\ Empty(NoCond) \in [Addr -> Conds] /\ Empty("none") \in [Addr -> {"none", "on", "off"}]
      /\ Empty(NoPeriod) \in [Addr -> Period \cup {NoPeriod}]
  BY EmptyType DEF Conds
<1>3. NoBatch \in [adds : [Addr -> Conds], conds : [Addr -> Conds], enable : SUBSET Addr,
                   disable : SUBSET Addr, rems : SUBSET Addr]
  BY <1>2, SMT DEF NoBatch
<1>4. [t \in Caller |-> "free"] \in [Caller -> {"free", "wake", "inject"}]
  BY SMT
<1>5. Maps
  BY <1>2, <1>3, <1>4, SMT DEF Init, Maps, Ownerless
<1> QED
  BY <1>1, <1>5

\* The truth values keep their type.
LEMMA StepBooleans ==
  ASSUME Flags, Next
  PROVE  /\ continue' \in BOOLEAN /\ traceSync' \in BOOLEAN /\ asleep' \in BOOLEAN
         /\ unbroken' \in BOOLEAN
<1> USE DEF Flags, loop
<1>1. CASE UserStep
  <2>1. CASE UNCHANGED loop
    BY <2>1, Zenon
  <2>2. CASE PostContinue
    BY <2>2, Zenon DEF PostContinue
  <2>3. UserStep => PostContinue \/ UNCHANGED loop
    BY Zenon DEF UserStep, AddBreakpoint, SetBreakpointCondition, SetBreakpointEnabled,
                 SetBreakpointEveryN, RemoveBreakpoint, Commands
  <2> QED
    BY <1>1, <2>1, <2>2, <2>3, Zenon
<1>2. CASE ApplyStep
  <2>1. CASE UNCHANGED loop
    BY <2>1, Zenon
  <2>2. CASE Swap \/ AddsDone \/ SwapPeriods \/ PeriodsDone \/ RemsDone
    BY <2>2, Zenon DEF Swap, AddsDone, SwapPeriods, PeriodsDone, RemsDone
  <2> QED
    BY <1>2, <2>1, <2>2, Zenon
       DEF ApplyStep, Readd, Install, InstallFails, Adding, ApplyCondition, ApplyPeriod,
           RemoveDisabled, RemoveFailed, RemoveInstalled, RestoreFails, Removing
<1>3. CASE BreakEvent \/ Pause \/ Resume \/ ServeEdits \/ WaitAgain \/ Sleep \/ TakeContinue
  BY <1>3, Zenon DEF BreakEvent, Pause, Resume, ServeEdits, WaitAgain, Sleep, TakeContinue
<1>4. CASE Close \/ StayPaused \/ StopEvent \/ BeginSession \/ EndSession
  BY <1>4, Zenon DEF Close, StayPaused, StopEvent, BeginSession, EndSession
<1>5. CASE \E t \in Caller : CallerStep(t)
  BY <1>5, Zenon DEF CallerStep, Wake, Inject
<1> QED
  BY <1>1, <1>2, <1>3, <1>4, <1>5, Zenon DEF Next, OwnerStep

\* Every command is one of the calls under the mutex.
LEMMA CommandsLeave ==
  ASSUME NEW t \in Caller, NEW a \in Addr,
         \/ \E c \in Fresh : AddBreakpoint(t, a, c)
         \/ \E c \in Update : SetBreakpointCondition(t, a, c)
         \/ \E on \in BOOLEAN : SetBreakpointEnabled(t, a, on)
         \/ \E n \in Period : SetBreakpointEveryN(t, a, n)
         \/ RemoveBreakpoint(t, a)
  PROVE  Commands(t) /\ UNCHANGED loop /\ UNCHANGED work
<1>1. Commands(t)
  BY Zenon DEF AddBreakpoint, SetBreakpointCondition, SetBreakpointEnabled, SetBreakpointEveryN,
               RemoveBreakpoint
<1> QED
  BY <1>1, Zenon DEF Commands

\* Only a waiting owner sleeps.
LEMMA StepSleep ==
  ASSUME Ownerless, Flags, Next
  PROVE  asleep' => owner' = "wait"
<1> USE DEF loop
<1>1. /\ asleep => owner = "wait"
      /\ owner = "wait" => owner \notin {"none", "pump", "swap", "adds", "conds", "tune", "rems",
                                         "done"}
      /\ owner = "none" \/ state # "Detached"
  BY SMT DEF Flags, Ownerless
<1>2. CASE asleep' /\ asleep /\ owner' = owner
  BY <1>1, <1>2, Zenon
<1>3. CASE asleep' = FALSE
  BY <1>3, Zenon
<1>4. CASE UserStep
  <2>1. UNCHANGED loop \/ asleep' = FALSE
    BY <1>4, CommandsLeave, Zenon DEF UserStep, PostContinue
  <2> QED
    BY <1>1, <1>2, <1>3, <2>1, Zenon
<1>5. CASE ApplyStep
  <2>1. CASE UNCHANGED loop
    BY <2>1, <1>1, Zenon
  <2>2. CASE Swap \/ AddsDone \/ SwapPeriods \/ PeriodsDone \/ RemsDone
    BY <2>2, <1>1, Zenon DEF Swap, AddsDone, SwapPeriods, PeriodsDone, RemsDone
  <2> QED
    BY <1>5, <2>1, <2>2, Zenon
       DEF ApplyStep, Readd, Install, InstallFails, Adding, ApplyCondition, ApplyPeriod,
           RemoveDisabled, RemoveFailed, RemoveInstalled, RestoreFails, Removing
<1>6. CASE BreakEvent \/ Pause \/ Resume \/ ServeEdits \/ WaitAgain \/ Sleep \/ TakeContinue
  BY <1>6, <1>1, Zenon DEF BreakEvent, Pause, Resume, ServeEdits, WaitAgain, Sleep, TakeContinue
<1>7. CASE Close \/ StayPaused \/ StopEvent \/ BeginSession \/ EndSession
  BY <1>7, <1>1, Zenon DEF Close, StayPaused, StopEvent, BeginSession, EndSession
<1>8. CASE \E t \in Caller : CallerStep(t)
  BY <1>8, <1>1, Zenon DEF CallerStep, Wake, Inject
<1> QED
  BY <1>4, <1>5, <1>6, <1>7, <1>8, Zenon DEF Next, OwnerStep

\* A command changes the queues of its address and the failed row.
LEMMA UserMaps ==
  ASSUME Maps, UserStep, UNCHANGED stubborn
  PROVE  Maps'
<1> USE DEF Maps, Ownerless, Conds, Cond, vars, queues, rows, work, loop, Empty, NoBatch
<1>1. ASSUME NEW t \in Caller, NEW a \in Addr, NEW c \in Fresh, AddBreakpoint(t, a, c)
      PROVE  Maps'
  BY <1>1, SMT DEF AddBreakpoint, Commands
<1>2. ASSUME NEW t \in Caller, NEW a \in Addr, NEW c \in Update, SetBreakpointCondition(t, a, c)
      PROVE  Maps'
  BY <1>2, SMT DEF SetBreakpointCondition, Commands
<1>3. ASSUME NEW t \in Caller, NEW a \in Addr, NEW on \in BOOLEAN, SetBreakpointEnabled(t, a, on)
      PROVE  Maps'
  BY <1>3, SMT DEF SetBreakpointEnabled, Commands
<1>4. ASSUME NEW t \in Caller, NEW a \in Addr, NEW n \in Period, SetBreakpointEveryN(t, a, n)
      PROVE  Maps'
  BY <1>4, SMT DEF SetBreakpointEveryN, Commands
<1>5. ASSUME NEW t \in Caller, NEW a \in Addr, RemoveBreakpoint(t, a)
      PROVE  Maps'
  BY <1>5, SMT DEF RemoveBreakpoint, Commands
<1>6. CASE PostContinue
  BY <1>6, SMT DEF PostContinue
<1> QED
  BY <1>1, <1>2, <1>3, <1>4, <1>5, <1>6 DEF UserStep

\* The owner outside of a pass, the callers and the session.
LEMMA LoopMaps ==
  ASSUME Maps, UNCHANGED stubborn,
         \/ BreakEvent \/ Pause \/ Resume \/ ServeEdits \/ WaitAgain \/ Sleep \/ TakeContinue
         \/ Close \/ StayPaused \/ StopEvent \/ BeginSession \/ EndSession
         \/ \E t \in Caller : CallerStep(t)
  PROVE  Maps'
<1> USE DEF Maps, Ownerless, vars, queues, rows, work, loop
<1>1. CASE BreakEvent \/ StopEvent \/ ServeEdits \/ Sleep \/ TakeContinue
  BY <1>1, SMT DEF BreakEvent, StopEvent, ServeEdits, Sleep, TakeContinue
<1>2. CASE Pause \/ Resume \/ WaitAgain \/ Close \/ StayPaused
  BY <1>2, SMT DEF Pause, Resume, WaitAgain, Close, StayPaused
<1>3. CASE BeginSession
  BY <1>3, SMT DEF BeginSession
<1>4. CASE EndSession
  <2>1. /\ adds' \in [Addr -> Conds] /\ conds' \in [Addr -> Conds]
        /\ bps' \in [Addr -> Conds] /\ disabled' \in [Addr -> Conds]
        /\ failed' \in [Addr -> Conds] /\ enabled' \in [Addr -> {"none", "on", "off"}]
        /\ tunes' \in [Addr -> Period \cup {NoPeriod}] /\ rems' = {}
    BY <1>4, EmptyType DEF EndSession, Conds
  <2>2. /\ state' = "Detached" /\ owner' = "none" /\ owner \in {"pump", "wait"}
        /\ UNCHANGED <<work, after, pc>>
    BY <1>4, Zenon DEF EndSession
  <2> QED
    BY <2>1, <2>2, SMT
<1>5. ASSUME NEW t \in Caller, CallerStep(t)
      PROVE  Maps'
  <2>1. pc' \in [Caller -> {"free", "wake", "inject"}]
    <3>1. CASE Wake(t)
      BY <3>1, SMT DEF Wake
    <3>2. CASE Inject(t)
      <4>1. pc' = [pc EXCEPT ![t] = "free"]
        BY <3>2, Zenon DEF Inject
      <4> QED
        BY <4>1, SMT
    <3> QED
      BY <1>5, <3>1, <3>2 DEF CallerStep
  <2>2. UNCHANGED <<state, queues, rows, work, owner, after>>
    BY <1>5, Zenon DEF CallerStep, Wake, Inject
  <2> QED
    BY <2>1, <2>2, SMT
<1> QED
  BY <1>1, <1>2, <1>3, <1>4, <1>5

\* A batch with one removal less is a batch.
LEMMA FewerRemovals ==
  ASSUME NEW R, NEW a,
         NEW b \in [adds : R, conds : R, enable : SUBSET Addr, disable : SUBSET Addr,
                    rems : SUBSET Addr]
  PROVE  [b EXCEPT !.rems = @ \ {a}, !.disable = @ \ {a}]
           \in [adds : R, conds : R, enable : SUBSET Addr, disable : SUBSET Addr,
                rems : SUBSET Addr]
<1> DEFINE x == [b EXCEPT !.rems = @ \ {a}]
<1>1. /\ x \in [adds : R, conds : R, enable : SUBSET Addr, disable : SUBSET Addr,
                rems : SUBSET Addr]
      /\ x.disable = b.disable
  BY SMT
<1>2. [b EXCEPT !.rems = @ \ {a}, !.disable = @ \ {a}] = [x EXCEPT !.disable = @ \ {a}]
  BY <1>1
<1> HIDE DEF x
<1>3. [x EXCEPT !.disable = @ \ {a}]
        \in [adds : R, conds : R, enable : SUBSET Addr, disable : SUBSET Addr,
             rems : SUBSET Addr]
  BY <1>1, SMT
<1> QED
  BY <1>2, <1>3

\* A batch with one addition or one condition less is a batch.
LEMMA OneLess ==
  ASSUME NEW a \in Addr,
         NEW b \in [adds : [Addr -> Conds], conds : [Addr -> Conds], enable : SUBSET Addr,
                    disable : SUBSET Addr, rems : SUBSET Addr]
  PROVE  /\ [b EXCEPT !.adds[a] = NoCond]
              \in [adds : [Addr -> Conds], conds : [Addr -> Conds], enable : SUBSET Addr,
                   disable : SUBSET Addr, rems : SUBSET Addr]
         /\ [b EXCEPT !.conds[a] = NoCond]
              \in [adds : [Addr -> Conds], conds : [Addr -> Conds], enable : SUBSET Addr,
                   disable : SUBSET Addr, rems : SUBSET Addr]
<1>1. NoCond \in Conds
  BY DEF Conds
<1>2. /\ [b.adds EXCEPT ![a] = NoCond] \in [Addr -> Conds]
      /\ [b.conds EXCEPT ![a] = NoCond] \in [Addr -> Conds]
  BY <1>1
<1> QED
  BY <1>2

\* The pass takes the batch apart, and ends with none.
LEMMA ApplyMaps ==
  ASSUME Maps, ApplyStep, UNCHANGED stubborn
  PROVE  Maps'
<1> USE DEF Maps, Ownerless, Conds, Cond, vars, queues, rows, work, loop
<1>1. CASE Swap
  BY <1>1, SMT DEF Swap, Empty, Has
<1>2. CASE AddsDone \/ SwapPeriods \/ PeriodsDone
  BY <1>2, SMT DEF AddsDone, SwapPeriods, PeriodsDone, Empty
<1>3. CASE RemsDone
  BY <1>3, SMT DEF RemsDone, NoBatch, Empty
<1>4. ASSUME NEW a \in Addr, Adding(a)
      PROVE  /\ batch' \in [adds : [Addr -> Conds], conds : [Addr -> Conds],
                            enable : SUBSET Addr, disable : SUBSET Addr, rems : SUBSET Addr]
             /\ batch.adds[a] \in Conds
             /\ UNCHANGED <<state, queues, applying, tuning, owner, after, pc>>
             /\ owner = "adds"
  <2>1. /\ batch' = [batch EXCEPT !.adds[a] = NoCond]
        /\ UNCHANGED <<state, queues, applying, tuning, loop, pc>> /\ owner = "adds"
    BY <1>4, Zenon DEF Adding
  <2>2. batch.adds[a] \in Conds
    BY SMT
  <2>3. [batch EXCEPT !.adds[a] = NoCond]
          \in [adds : [Addr -> Conds], conds : [Addr -> Conds], enable : SUBSET Addr,
               disable : SUBSET Addr, rems : SUBSET Addr]
    BY OneLess
  <2> QED
    BY <2>1, <2>2, <2>3, Zenon
<1>5. ASSUME NEW a \in Addr, Adding(a), bps' \in [Addr -> Conds],
             disabled' \in [Addr -> Conds], failed' \in [Addr -> Conds]
      PROVE  Maps'
  BY <1>4, <1>5, SMT
<1>6. ASSUME NEW a \in Addr, Readd(a) \/ Install(a) \/ InstallFails(a)
      PROVE  Maps'
  <2>1. Adding(a)
    BY <1>6, Zenon DEF Readd, Install, InstallFails
  <2>2. batch.adds[a] \in Conds /\ NoCond \in Conds
    BY <1>4, <2>1, Zenon
  <2>3. bps \in [Addr -> Conds] /\ disabled \in [Addr -> Conds] /\ failed \in [Addr -> Conds]
    BY Zenon
  <2>4. /\ bps' \in {bps, [bps EXCEPT ![a] = batch.adds[a]]}
        /\ disabled' \in {disabled, [disabled EXCEPT ![a] = batch.adds[a]],
                          [disabled EXCEPT ![a] = NoCond]}
        /\ failed' \in {failed, [failed EXCEPT ![a] = batch.adds[a]], [failed EXCEPT ![a] = NoCond]}
    BY <1>6, Zenon DEF Readd, Install, InstallFails
  <2> HIDE DEF Maps, Conds
  <2>5. /\ bps' \in [Addr -> Conds] /\ disabled' \in [Addr -> Conds]
        /\ failed' \in [Addr -> Conds]
    BY <2>2, <2>3, <2>4, SMT
  <2> QED
    BY <1>5, <2>1, <2>5, Zenon
<1>7. ASSUME NEW a \in Addr, ApplyCondition(a)
      PROVE  Maps'
  <2>1. /\ batch' = [batch EXCEPT !.conds[a] = NoCond]
        /\ UNCHANGED <<state, queues, applying, tuning, loop, pc>> /\ owner = "conds"
    BY <1>7, Zenon DEF ApplyCondition
  <2>2. batch.conds[a] \in Conds
    BY SMT
  <2>3. [batch EXCEPT !.conds[a] = NoCond]
          \in [adds : [Addr -> Conds], conds : [Addr -> Conds], enable : SUBSET Addr,
               disable : SUBSET Addr, rems : SUBSET Addr]
    BY OneLess
  <2>4. /\ bps' \in {bps, [bps EXCEPT ![a] = batch.conds[a]]}
        /\ disabled' \in {disabled, [disabled EXCEPT ![a] = batch.conds[a]]}
        /\ failed' \in {failed, [failed EXCEPT ![a] = batch.conds[a]]}
    BY <1>7, SMT DEF ApplyCondition
  <2>5. /\ bps \in [Addr -> Conds] /\ disabled \in [Addr -> Conds] /\ failed \in [Addr -> Conds]
    BY Zenon
  <2>6. /\ bps' \in [Addr -> Conds] /\ disabled' \in [Addr -> Conds]
        /\ failed' \in [Addr -> Conds]
    <3> HIDE DEF Maps, Conds
    <3> QED
      BY <2>2, <2>4, <2>5, SMT
  <2>7. /\ batch' \in [adds : [Addr -> Conds], conds : [Addr -> Conds],
                        enable : SUBSET Addr, disable : SUBSET Addr, rems : SUBSET Addr]
        /\ UNCHANGED <<state, queues, applying, tuning, owner, after, pc>> /\ owner = "conds"
    BY <2>1, <2>3, Zenon
  <2> QED
    BY <2>6, <2>7, SMT
<1>8. ASSUME NEW a \in Addr, ApplyPeriod(a)
      PROVE  Maps'
  BY <1>8, SMT DEF ApplyPeriod
<1>9. ASSUME NEW a \in Addr, Removing(a)
      PROVE  /\ batch' \in [adds : [Addr -> Conds], conds : [Addr -> Conds],
                            enable : SUBSET Addr, disable : SUBSET Addr, rems : SUBSET Addr]
             /\ UNCHANGED <<state, queues, applying, tuning, owner, after, pc>>
             /\ owner = "rems"
  <2>1. /\ batch' = [batch EXCEPT !.rems = @ \ {a}, !.disable = @ \ {a}]
        /\ UNCHANGED <<state, queues, applying, tuning, loop, pc>> /\ owner = "rems"
    BY <1>9, Zenon DEF Removing
  <2>2. [batch EXCEPT !.rems = @ \ {a}, !.disable = @ \ {a}]
          \in [adds : [Addr -> Conds], conds : [Addr -> Conds], enable : SUBSET Addr,
               disable : SUBSET Addr, rems : SUBSET Addr]
    BY FewerRemovals
  <2> QED
    BY <2>1, <2>2, Zenon
<1>10. ASSUME NEW a \in Addr, Removing(a), bps' \in [Addr -> Conds],
              disabled' \in [Addr -> Conds], failed' \in [Addr -> Conds]
       PROVE  Maps'
  BY <1>9, <1>10, SMT
<1>11. ASSUME NEW a \in Addr,
              RemoveDisabled(a) \/ RemoveFailed(a) \/ RemoveInstalled(a) \/ RestoreFails(a)
       PROVE  /\ Removing(a) /\ bps' \in [Addr -> Conds]
              /\ disabled' \in [Addr -> Conds] /\ failed' \in [Addr -> Conds]
  BY <1>11, SMT DEF RemoveDisabled, RemoveFailed, RemoveInstalled, RestoreFails
<1> QED
  BY <1>1, <1>2, <1>3, <1>6, <1>7, <1>8, <1>10, <1>11, Zenon DEF ApplyStep

\* The maps stay maps of addresses to conditions and periods, the steps of the
\* owner are those of its loop, and it has work only in a pass.
THEOREM TypeCorrect == Spec => []TypeOK
<1>1. Init => TypeOK /\ Ownerless
  BY InitTypes, Halves
<1>2. TypeOK /\ Ownerless /\ [Next]_vars => TypeOK' /\ Ownerless'
  <2> SUFFICES ASSUME TypeOK, Ownerless, [Next]_vars PROVE TypeOK' /\ Ownerless'
    OBVIOUS
  <2>1. Maps /\ Flags
    BY Halves
  <2>2. CASE Next
    <3>1. Flags'
      BY <2>1, <2>2, StepBooleans, StepSleep DEF Flags
    <3>2. Maps'
      BY <2>1, <2>2, UserMaps, LoopMaps, ApplyMaps DEF Next, OwnerStep
    <3>3. TypeOK' /\ Ownerless'
      BY <3>1, <3>2, Halves, PTL
    <3> QED
      BY <3>3
  <2>3. CASE UNCHANGED vars
    BY <2>3 DEF vars, queues, rows, work, loop, TypeOK, Ownerless
  <2> QED
    BY <2>2, <2>3
<1> QED
  BY <1>1, <1>2, PTL DEF Spec

----------------------------------------------------------------------------
(* The rows, the requests and the phases.                                  *)

\* No step gives a breakpoint a second row.
LEMMA StepRows ==
  ASSUME TypeOK, Rows, Next
  PROVE  Rows'
<1> SUFFICES ASSUME NEW b \in Addr
             PROVE  /\ ~(Has(bps, b)' /\ Has(disabled, b)')
                    /\ ~(Has(bps, b)' /\ Has(failed, b)')
                    /\ ~(Has(disabled, b)' /\ Has(failed, b)')
                    /\ Has(failed, b)' => b \in stubborn'
  BY Zenon DEF Rows
<1>1. /\ bps \in [Addr -> Conds] /\ disabled \in [Addr -> Conds] /\ failed \in [Addr -> Conds]
      /\ stubborn' = stubborn
  BY DEF TypeOK, Next
<1>2. /\ bps[b] = NoCond \/ disabled[b] = NoCond
      /\ bps[b] = NoCond \/ failed[b] = NoCond
      /\ disabled[b] = NoCond \/ failed[b] = NoCond
      /\ failed[b] = NoCond \/ b \in stubborn
  BY Zenon DEF Rows, Has
<1> USE DEF Has, rows
<1>3. CASE UNCHANGED rows
  BY <1>1, <1>2, <1>3, SMT
<1>4. CASE UserStep
  <2>1. CASE /\ UNCHANGED <<bps, disabled>>
             /\ UNCHANGED failed \/ \E a \in Addr : failed' = [failed EXCEPT ![a] = NoCond]
    BY <1>1, <1>2, <2>1, SMT
  <2> QED
    BY <1>4, <1>3, <2>1, Zenon
       DEF UserStep, AddBreakpoint, SetBreakpointCondition, SetBreakpointEnabled,
           SetBreakpointEveryN, RemoveBreakpoint, Commands, PostContinue
<1>5. CASE EndSession
  BY <1>5, SMT DEF EndSession, Empty
<1>6. ASSUME NEW a \in Addr, Readd(a)
      PROVE  (bps[b]' = NoCond \/ disabled[b]' = NoCond)
              /\ (bps[b]' = NoCond \/ failed[b]' = NoCond)
              /\ (disabled[b]' = NoCond \/ failed[b]' = NoCond)
              /\ (failed[b]' = NoCond \/ b \in stubborn)
  BY <1>1, <1>2, <1>6, SMT DEF Readd
<1>7. ASSUME NEW a \in Addr, Install(a) \/ InstallFails(a)
      PROVE  (bps[b]' = NoCond \/ disabled[b]' = NoCond)
              /\ (bps[b]' = NoCond \/ failed[b]' = NoCond)
              /\ (disabled[b]' = NoCond \/ failed[b]' = NoCond)
              /\ (failed[b]' = NoCond \/ b \in stubborn)
  BY <1>1, <1>2, <1>7, SMT DEF Install, InstallFails, Installs
<1>8. ASSUME NEW a \in Addr, ApplyCondition(a)
      PROVE  (bps[b]' = NoCond \/ disabled[b]' = NoCond)
              /\ (bps[b]' = NoCond \/ failed[b]' = NoCond)
              /\ (disabled[b]' = NoCond \/ failed[b]' = NoCond)
              /\ (failed[b]' = NoCond \/ b \in stubborn)
  BY <1>1, <1>2, <1>8, SMT DEF ApplyCondition
<1>9. ASSUME NEW a \in Addr,
             RemoveDisabled(a) \/ RemoveFailed(a) \/ RemoveInstalled(a) \/ RestoreFails(a)
      PROVE  (bps[b]' = NoCond \/ disabled[b]' = NoCond)
              /\ (bps[b]' = NoCond \/ failed[b]' = NoCond)
              /\ (disabled[b]' = NoCond \/ failed[b]' = NoCond)
              /\ (failed[b]' = NoCond \/ b \in stubborn)
  BY <1>1, <1>2, <1>9, SMT DEF RemoveDisabled, RemoveFailed, RemoveInstalled, RestoreFails
<1>10. CASE ApplyStep
  <2>1. CASE Swap \/ AddsDone \/ SwapPeriods \/ PeriodsDone \/ RemsDone
             \/ \E a \in Addr : ApplyPeriod(a)
    BY <1>3, <2>1, Zenon DEF Swap, AddsDone, SwapPeriods, PeriodsDone, RemsDone, ApplyPeriod
  <2> QED
    BY <1>1, <1>6, <1>7, <1>8, <1>9, <1>10, <2>1, Zenon DEF ApplyStep
<1>11. CASE \/ BreakEvent \/ Pause \/ Resume \/ ServeEdits \/ WaitAgain \/ Sleep \/ TakeContinue
            \/ Close \/ StayPaused \/ StopEvent \/ BeginSession \/ \E t \in Caller : CallerStep(t)
  BY <1>3, <1>11, Zenon
     DEF BreakEvent, Pause, Resume, ServeEdits, WaitAgain, Sleep, TakeContinue, Close, StayPaused,
         StopEvent, BeginSession, CallerStep, Wake, Inject
<1> QED
  BY <1>4, <1>5, <1>10, <1>11, Zenon DEF Next, OwnerStep

\* A removal leaves no other request of its address, in the queues and in the
\* batch.
LEMMA StepRequests ==
  ASSUME TypeOK, Requests, Next
  PROVE  Requests'
<1>1. /\ adds \in [Addr -> Conds] /\ enabled \in [Addr -> {"none", "on", "off"}]
      /\ rems \subseteq Addr
  BY DEF TypeOK
<1>2. CASE UNCHANGED <<adds, rems, enabled, batch>>
  BY <1>2, Zenon DEF Requests
<1>3. CASE UserStep
  <2>1. ASSUME NEW t \in Caller, NEW a \in Addr, NEW c \in Fresh, AddBreakpoint(t, a, c)
        PROVE  Requests'
    BY <1>1, <2>1, SMT DEF AddBreakpoint, Commands, work, Requests
  <2>2. ASSUME NEW t \in Caller, NEW a \in Addr, RemoveBreakpoint(t, a)
        PROVE  Requests'
    BY <1>1, <2>2, SMT DEF RemoveBreakpoint, Commands, work, Requests
  <2>3. ASSUME NEW t \in Caller, NEW a \in Addr, NEW on \in BOOLEAN, SetBreakpointEnabled(t, a, on)
        PROVE  Requests'
    <3>1. a \notin rems /\ UNCHANGED <<adds, rems, batch>>
          /\ enabled' = [enabled EXCEPT ![a] = IF on THEN "on" ELSE "off"]
      BY <2>3, Zenon DEF SetBreakpointEnabled, Knows, Commands, work
    <3> QED
      BY <1>1, <3>1, SMT DEF Requests
  <2> QED
    BY <1>3, <1>2, <2>1, <2>2, <2>3, Zenon
       DEF UserStep, SetBreakpointCondition, SetBreakpointEveryN, Commands, PostContinue,
           queues, work
<1>4. CASE EndSession
  BY <1>4, SMT DEF EndSession, Empty, work, Requests
<1>5. CASE Swap
  BY <1>1, <1>5, SMT DEF Swap, Empty, Requests
<1>6. ASSUME NEW a \in Addr, Adding(a) \/ ApplyCondition(a)
      PROVE  Requests'
  <2>1. batch'.rems = batch.rems /\ batch'.disable = batch.disable
    BY <1>6, SMT DEF Adding, ApplyCondition, TypeOK
  <2> QED
    BY <1>6, <2>1, Zenon DEF Adding, ApplyCondition, queues, Requests
<1>7. ASSUME NEW a \in Addr, Removing(a)
      PROVE  Requests'
  <2>1. batch'.rems = batch.rems \ {a} /\ batch'.disable = batch.disable \ {a}
    BY <1>7, SMT DEF Removing, TypeOK
  <2> QED
    BY <1>7, <2>1, SMT DEF Removing, queues, Requests
<1>8. CASE RemsDone
  BY <1>8, SMT DEF RemsDone, NoBatch, queues, Requests
<1>9. CASE ApplyStep
  BY <1>2, <1>5, <1>6, <1>7, <1>8, <1>9, Zenon
     DEF ApplyStep, AddsDone, SwapPeriods, PeriodsDone, Readd, Install, InstallFails,
         ApplyPeriod, RemoveDisabled, RemoveFailed, RemoveInstalled, RestoreFails, queues, work
<1>10. CASE \/ BreakEvent \/ Pause \/ Resume \/ ServeEdits \/ WaitAgain \/ Sleep \/ TakeContinue
            \/ Close \/ StayPaused \/ StopEvent \/ BeginSession \/ \E t \in Caller : CallerStep(t)
  BY <1>2, <1>10, Zenon
     DEF BreakEvent, Pause, Resume, ServeEdits, WaitAgain, Sleep, TakeContinue, Close, StayPaused,
         StopEvent, BeginSession, CallerStep, Wake, Inject, queues, work
<1> QED
  BY <1>3, <1>4, <1>9, <1>10, Zenon DEF Next, OwnerStep

\* The kinds of the batch empty in the order in which they are applied, and an
\* addition in it is marked.
LEMMA StepPhases ==
  ASSUME TypeOK, Phases, Next
  PROVE  Phases'
<1>1. CASE UNCHANGED <<owner, batch, applying>>
  BY <1>1, Zenon DEF Phases
<1>2. CASE Swap
  BY <1>2, SMT DEF Swap, Phases
<1>3. CASE AddsDone
  BY <1>3, SMT DEF AddsDone, Phases, Empty
<1>4. CASE SwapPeriods \/ PeriodsDone
  BY <1>4, SMT DEF SwapPeriods, PeriodsDone, Phases, work
<1>5. CASE RemsDone
  BY <1>5, SMT DEF RemsDone, Phases, NoBatch, Empty
<1>6. ASSUME NEW a \in Addr, Adding(a)
      PROVE  Phases'
  BY <1>6, SMT DEF Adding, Phases, loop, TypeOK
<1>7. ASSUME NEW a \in Addr, ApplyCondition(a)
      PROVE  Phases'
  <2>1. batch'.adds = batch.adds
    BY <1>7, SMT DEF ApplyCondition, TypeOK
  <2> QED
    BY <1>7, <2>1, SMT DEF ApplyCondition, Phases, loop
<1>8. ASSUME NEW a \in Addr, Removing(a)
      PROVE  Phases'
  <2>1. batch'.adds = batch.adds /\ batch'.conds = batch.conds
    BY <1>8, SMT DEF Removing, TypeOK
  <2> QED
    BY <1>8, <2>1, SMT DEF Removing, Phases, loop
<1>9. CASE ApplyStep
  <2>1. ASSUME NEW a \in Addr, ApplyPeriod(a)
        PROVE  UNCHANGED <<owner, batch, applying>>
    BY <2>1, Zenon DEF ApplyPeriod, loop
  <2> QED
    BY <1>1, <1>2, <1>3, <1>4, <1>5, <1>6, <1>7, <1>8, <1>9, <2>1, Zenon
       DEF ApplyStep, Readd, Install, InstallFails, RemoveDisabled, RemoveFailed,
           RemoveInstalled, RestoreFails
<1>10. CASE UserStep \/ \E t \in Caller : CallerStep(t)
  <2>1. ASSUME NEW t \in Caller, Commands(t) \/ CallerStep(t) \/ PostContinue
        PROVE  UNCHANGED <<owner, batch, applying>>
    BY <2>1, Zenon DEF Commands, PostContinue, CallerStep, Wake, Inject, work, loop
  <2>2. PostContinue => UNCHANGED <<owner, batch, applying>>
    BY Zenon DEF PostContinue, work
  <2>3. UserStep => PostContinue \/ \E t \in Caller : Commands(t)
    BY CommandsLeave, Zenon DEF UserStep
  <2> QED
    BY <1>1, <1>10, <2>1, <2>2, <2>3, Zenon
<1>11. CASE BreakEvent \/ Pause \/ Resume \/ ServeEdits \/ WaitAgain \/ Sleep \/ TakeContinue
  BY <1>11, SMT DEF BreakEvent, Pause, Resume, ServeEdits, WaitAgain, Sleep, TakeContinue,
                    work, Phases
<1>12. CASE Close \/ StayPaused \/ StopEvent \/ BeginSession \/ EndSession
  BY <1>12, SMT DEF Close, StayPaused, StopEvent, BeginSession, EndSession, work, Phases
<1> QED
  BY <1>9, <1>10, <1>11, <1>12, Zenon DEF Next, OwnerStep

\* The invariant holds from the start, and every step preserves it.
LEMMA Inductive == Spec => []IInv
<1>1. Init => IInv
  <2> SUFFICES ASSUME Init PROVE IInv
    OBVIOUS
  <2>1. TypeOK
    BY InitTypes, Halves
  <2>2. Rows
    BY SMT DEF Init, Rows, Has, Empty
  <2>3. Requests
    BY SMT DEF Init, Requests, NoBatch
  <2>4. Phases
    BY SMT DEF Init, Phases, NoBatch, Empty
  <2> QED
    BY <2>1, <2>2, <2>3, <2>4 DEF IInv
<1>2. TypeOK /\ TypeOK' /\ IInv /\ [Next]_vars => IInv'
  <2> SUFFICES ASSUME TypeOK', IInv, [Next]_vars PROVE IInv'
    OBVIOUS
  <2>1. CASE Next
    BY <2>1, StepRows, StepRequests, StepPhases DEF IInv
  <2>2. CASE UNCHANGED vars
    BY <2>2 DEF vars, queues, rows, work, loop, IInv, Rows, Has, Requests, Phases
  <2> QED
    BY <2>1, <2>2
<1>3. IInv => TypeOK
  BY DEF IInv
<1> QED
  BY <1>1, <1>2, <1>3, TypeCorrect, PTL DEF Spec

----------------------------------------------------------------------------
(* A breakpoint has one row, and one that the user holds can be switched.  *)

\* What the user holds has a row, or an addition that is queued or being
\* applied.
LEMMA HeldIsKnown ==
  ASSUME IInv, NEW a \in Addr, Wanted(a) # Absent
  PROVE  Knows(a)
<1>1. /\ a \notin rems
      /\ Passed(a) # Absent \/ adds[a] # NoCond
  BY SMT DEF Wanted, Left, NextTurn
<1>2. Passed(a) # Absent => batch.adds[a] # NoCond \/ HasRow(a)
  BY SMT DEF Passed, Left, Held, HasRow
<1>3. batch.adds[a] # NoCond => a \in applying
  BY DEF IInv, Phases
<1> QED
  BY <1>1, <1>2, <1>3, Zenon DEF Knows

\* An address is never in two of the three maps of rows: whatever fails, a
\* breakpoint that is switched or installed again replaces the row it had.
LEMMA OneRowHolds == Rows => OneRow
<1> SUFFICES ASSUME Rows, NEW a \in Addr
             PROVE  Cardinality({m \in 1 .. 3 : Has(<<bps, disabled, failed>>[m], a)}) <= 1
  BY DEF OneRow
<1> DEFINE M == {m \in 1 .. 3 : Has(<<bps, disabled, failed>>[m], a)}
<1>1. ASSUME NEW m \in M, NEW n \in M
      PROVE  m = n
  <2>1. \A k \in 1 .. 3 : k = 1 \/ k = 2 \/ k = 3
    BY SMT
  <2>2. /\ <<bps, disabled, failed>>[1] = bps
        /\ <<bps, disabled, failed>>[2] = disabled
        /\ <<bps, disabled, failed>>[3] = failed
    OBVIOUS
  <2> QED
    BY <1>1, <2>1, <2>2, Zenon DEF Rows
<1> HIDE DEF M
<1>2. M = {} => Cardinality(M) = 0
  BY FS_EmptySet
<1>3. ASSUME NEW m \in M
      PROVE  M = {m}
  BY <1>1, <1>3
<1>4. ASSUME NEW m \in M
      PROVE  Cardinality(M) = 1
  BY <1>3, <1>4, FS_Singleton
<1>5. Cardinality(M) <= 1
  BY <1>2, <1>4, SMT
<1> QED
  BY <1>5 DEF M

\* A breakpoint has one row and not two, and what the user holds is accepted by
\* setBreakpointEnabled at every moment of the owner's pass.
THEOREM RowsAlwaysAgree == Spec => []RowsAgree
<1>1. IInv => RowsAgree
  BY HeldIsKnown, OneRowHolds DEF RowsAgree, HeldCanBeSwitched, IInv
<1> QED
  BY <1>1, Inductive, PTL

----------------------------------------------------------------------------
(* The list that the rows, the batch and the queues make.                  *)

\* A row is a condition that is on or off.
LEMMA LeftType ==
  ASSUME NEW r \in List!Rows \cup {Absent}, NEW add \in Conds, NEW cond \in Conds,
         NEW turn \in {"none", "on", "off", "gone"}
  PROVE  Left(r, add, cond, turn) \in List!Rows \cup {Absent}
  BY CommandsAssumption, SMT DEF Left, List!Rows, List!Modes, Absent, Conds

\* What is there, or is added, stays unless it is told to go.
LEMMA LeftRow ==
  ASSUME NEW r \in List!Rows \cup {Absent}, NEW add \in Conds, NEW cond \in Conds,
         NEW turn \in {"none", "on", "off"}, r # Absent \/ add # NoCond
  PROVE  Left(r, add, cond, turn) \in List!Rows
  BY CommandsAssumption, SMT DEF Left, List!Rows, List!Modes, Absent, Conds

\* What an addition makes of a row.
LEMMA LeftAdd ==
  ASSUME NEW r, NEW c, c # NoCond, NEW turn \in {"none", "on", "off"}
  PROVE  Left(r, c, NoCond, turn)
           = [mode |-> IF turn = "off" THEN "off"
                       ELSE IF r = Absent \/ turn = "on" THEN "on" ELSE r.mode,
              cond |-> c]
  BY SMT DEF Left

\* A row is not the absence of one, for it has a condition.
LEMMA AbsentIsNoRow == Absent \notin List!Rows
  BY CommandsAssumption, SMT DEF Absent, List!Rows

\* What an address has and what the pass makes of it is a row or nothing, and so
\* is what the user wants of it.
LEMMA WantedType ==
  ASSUME TypeOK, NEW a \in Addr
  PROVE  /\ Held(a) \in List!Rows \cup {Absent}
         /\ Passed(a) \in List!Rows \cup {Absent}
         /\ Wanted(a) \in List!Rows \cup {Absent}
<1>1. /\ adds[a] \in Conds /\ conds[a] \in Conds /\ batch.adds[a] \in Conds
      /\ batch.conds[a] \in Conds /\ bps[a] \in Conds /\ disabled[a] \in Conds
      /\ failed[a] \in Conds /\ enabled[a] \in {"none", "on", "off"}
  BY SMT DEF TypeOK
<1>2. PassTurn(a) \in {"none", "on", "off", "gone"} /\ NextTurn(a) \in {"none", "on", "off", "gone"}
  BY <1>1, SMT DEF PassTurn, NextTurn
<1>3. Held(a) \in List!Rows \cup {Absent}
  BY <1>1, SMT DEF Held, Has, List!Rows, List!Modes, Conds
<1>4. Passed(a) \in List!Rows \cup {Absent}
  BY <1>1, <1>2, <1>3, LeftType DEF Passed
<1> QED
  BY <1>1, <1>2, <1>3, <1>4, LeftType DEF Wanted

\* What an address has, what the pass has for it, and what is asked of it.
RowSame(b)   == bps'[b] = bps[b] /\ disabled'[b] = disabled[b] /\ failed'[b] = failed[b]
BatchSame(b) == /\ batch'.adds[b] = batch.adds[b] /\ batch'.conds[b] = batch.conds[b]
                /\ b \in batch'.enable <=> b \in batch.enable
                /\ b \in batch'.disable <=> b \in batch.disable
                /\ b \in batch'.rems <=> b \in batch.rems
QueueSame(b) == /\ adds'[b] = adds[b] /\ conds'[b] = conds[b] /\ enabled'[b] = enabled[b]
                /\ b \in rems' <=> b \in rems

\* A row that is left alone, in the batch as well, passes as before.
LEMMA PassedSame ==
  ASSUME NEW b, RowSame(b), BatchSame(b)
  PROVE  Passed(b)' = Passed(b)
  BY SMT DEF RowSame, BatchSame, Passed, PassTurn, Held, Has

\* With the same requests, the same is wanted of what passes.
LEMMA WantedSame ==
  ASSUME NEW b, Passed(b)' = Passed(b), QueueSame(b)
  PROVE  Wanted(b)' = Wanted(b)
  BY SMT DEF QueueSame, Wanted, NextTurn

\* What the batch holds after an addition is taken from it.
LEMMA AddingBatch ==
  ASSUME TypeOK, NEW a \in Addr, Adding(a)
  PROVE  /\ owner = "adds" /\ batch.adds[a] # NoCond /\ batch'.adds[a] = NoCond
         /\ \A b \in Addr \ {a} : BatchSame(b)
         /\ batch'.conds = batch.conds /\ batch'.enable = batch.enable
         /\ batch'.disable = batch.disable /\ batch'.rems = batch.rems
         /\ UNCHANGED queues
  BY SMT DEF Adding, TypeOK, BatchSame

\* After a condition is taken from it.
LEMMA ConditionBatch ==
  ASSUME TypeOK, NEW a \in Addr, ApplyCondition(a)
  PROVE  /\ owner = "conds" /\ batch.conds[a] # NoCond /\ batch'.conds[a] = NoCond
         /\ \A b \in Addr \ {a} : BatchSame(b)
         /\ batch'.adds = batch.adds /\ batch'.enable = batch.enable
         /\ batch'.disable = batch.disable /\ batch'.rems = batch.rems
         /\ UNCHANGED queues
  BY SMT DEF ApplyCondition, TypeOK, BatchSame

\* After a removal is taken from it.
LEMMA RemovingBatch ==
  ASSUME TypeOK, NEW a \in Addr, Removing(a)
  PROVE  /\ owner = "rems" /\ a \in batch.rems \cup batch.disable
         /\ a \notin batch'.rems \cup batch'.disable
         /\ \A b \in Addr \ {a} : BatchSame(b)
         /\ batch'.adds = batch.adds /\ batch'.conds = batch.conds
         /\ batch'.enable = batch.enable
         /\ UNCHANGED queues
  BY SMT DEF Removing, TypeOK, BatchSame

\* An addition that succeeds leaves of the row what it had promised.
LEMMA AdditionPasses ==
  ASSUME IInv, NEW a \in Addr, Readd(a) \/ Install(a), NEW b \in Addr
  PROVE  Passed(b)' = Passed(b)
<1>1. /\ batch.adds[a] # NoCond /\ batch'.adds[a] = NoCond
      /\ \A x \in Addr \ {a} : BatchSame(x)
      /\ batch'.conds = batch.conds /\ batch'.enable = batch.enable
      /\ batch'.disable = batch.disable /\ batch'.rems = batch.rems
  BY AddingBatch DEF IInv, Readd, Install
<1>2. \A x \in Addr \ {a} : RowSame(x)
  BY SMT DEF Readd, Install, RowSame, IInv, TypeOK
<1>3. CASE b # a
  BY <1>1, <1>2, <1>3, PassedSame
<1>4. Passed(a)' = Passed(a)
  <2>1. CASE Readd(a)
    BY <1>1, <2>1, SMT DEF Readd, IInv, Rows, TypeOK, Passed, PassTurn, Held, Has, Left, Absent
  <2>2. CASE Install(a)
    BY <1>1, <2>2, SMT DEF Install, Installs, IInv, Rows, TypeOK, Passed, PassTurn, Held, Has,
                           Left, Absent
  <2> QED
    BY <2>1, <2>2
<1> QED
  BY <1>3, <1>4

\* So does a condition.
LEMMA ConditionPasses ==
  ASSUME IInv, NEW a \in Addr, ApplyCondition(a), NEW b \in Addr
  PROVE  Passed(b)' = Passed(b)
<1>1. /\ batch.adds[a] = NoCond /\ batch.conds[a] # NoCond /\ batch'.conds[a] = NoCond
      /\ \A x \in Addr \ {a} : BatchSame(x)
      /\ batch'.adds = batch.adds /\ batch'.enable = batch.enable
      /\ batch'.disable = batch.disable /\ batch'.rems = batch.rems
  BY ConditionBatch, SMT DEF IInv, Phases, Empty
<1>2. \A x \in Addr \ {a} : RowSame(x)
  BY SMT DEF ApplyCondition, RowSame, IInv, TypeOK
<1>3. CASE b # a
  BY <1>1, <1>2, <1>3, PassedSame
<1>4. Passed(a)' = Passed(a)
  BY <1>1, SMT DEF ApplyCondition, IInv, TypeOK, Passed, PassTurn, Held, Has, Left, Absent
<1> QED
  BY <1>3, <1>4

\* So does a removal, or a switch-off, that succeeds.
LEMMA RemovalPasses ==
  ASSUME IInv, NEW a \in Addr, RemoveDisabled(a) \/ RemoveFailed(a) \/ RemoveInstalled(a),
         NEW b \in Addr
  PROVE  Passed(b)' = Passed(b)
<1>1. /\ batch.adds[a] = NoCond /\ batch.conds[a] = NoCond
      /\ a \in batch.rems \cup batch.disable /\ a \notin batch'.rems \cup batch'.disable
      /\ batch.rems \cap batch.disable = {}
      /\ \A x \in Addr \ {a} : BatchSame(x)
      /\ batch'.adds = batch.adds /\ batch'.conds = batch.conds
  BY RemovingBatch, SMT
     DEF IInv, Phases, Requests, Empty, RemoveDisabled, RemoveFailed, RemoveInstalled
<1>2. \A x \in Addr \ {a} : RowSame(x)
  BY SMT DEF RemoveDisabled, RemoveFailed, RemoveInstalled, RowSame, IInv, TypeOK
<1>3. CASE b # a
  BY <1>1, <1>2, <1>3, PassedSame
<1>4. Passed(a)' = Passed(a)
  <2> USE DEF IInv, Rows, TypeOK, Passed, PassTurn, Held, Has, Left, Absent
  <2>1. CASE RemoveDisabled(a)
    BY <1>1, <2>1, SMT DEF RemoveDisabled
  <2>2. CASE RemoveFailed(a)
    BY <1>1, <2>2, SMT DEF RemoveFailed
  <2>3. CASE RemoveInstalled(a)
    BY <1>1, <2>3, SMT DEF RemoveInstalled
  <2> QED
    BY <2>1, <2>2, <2>3
<1> QED
  BY <1>3, <1>4

\* Swapping the queues out changes nothing that is wanted: a switch-on becomes
\* an addition of what the row has, and the owner has no other batch.
LEMMA SwapWants ==
  ASSUME IInv, Swap, NEW a \in Addr
  PROVE  Wanted(a)' = Wanted(a) /\ enabled'[a] = "none"
<1>1. batch = NoBatch
  BY SMT DEF Swap, IInv, TypeOK
<1>2. Passed(a) = Held(a)
  BY <1>1, SMT DEF NoBatch, Empty, Passed, PassTurn, Left, Held, Has, Absent
<1>3. Held(a)' = Held(a)
  BY SMT DEF Swap, rows, Held, Has
<1>4. /\ adds'[a] = NoCond /\ conds'[a] = NoCond /\ a \notin rems' /\ enabled'[a] = "none"
  BY SMT DEF Swap, Empty
<1>5. Wanted(a)' = Passed(a)'
  <2>1. NextTurn(a)' = "none"
    BY <1>4, SMT DEF NextTurn
  <2>2. Wanted(a)' = Left(Passed(a)', NoCond, NoCond, "none")
    BY <1>4, <2>1, SMT DEF Wanted
  <2> QED
    BY <2>2, SMT DEF Left, Passed, Absent
<1>6. Passed(a)' = Wanted(a)
  <2>1. /\ batch'.adds[a] = IF adds[a] = NoCond /\ enabled[a] = "on"
                            THEN IF Has(disabled, a) THEN disabled[a] ELSE failed[a]
                            ELSE adds[a]
        /\ batch'.conds = conds /\ batch'.rems = rems
        /\ a \in batch'.enable <=> enabled[a] = "on"
        /\ a \in batch'.disable <=> enabled[a] = "off"
    BY SMT DEF Swap
  <2>2. enabled[a] \in {"none", "on", "off"}
    BY SMT DEF IInv, TypeOK
  <2>3. /\ Wanted(a) = Left(Held(a), adds[a], conds[a], NextTurn(a))
        /\ Passed(a)' = Left(Held(a), batch'.adds[a], conds[a], PassTurn(a)')
    BY <1>2, <1>3, <2>1, Zenon DEF Passed, Wanted
  <2>4. /\ PassTurn(a)' = "gone" <=> a \in rems
        /\ PassTurn(a)' = "off" <=> a \notin rems /\ enabled[a] = "off"
        /\ NextTurn(a) = "gone" <=> a \in rems
        /\ NextTurn(a) = "off" <=> a \notin rems /\ enabled[a] = "off"
        /\ NextTurn(a) = "on" <=> a \notin rems /\ enabled[a] = "on"
        /\ PassTurn(a)' = "on" <=> a \notin rems /\ enabled[a] = "on" /\ batch'.adds[a] # NoCond
    BY <2>1, <2>2, SMT DEF PassTurn, NextTurn
  <2>5. CASE ~(adds[a] = NoCond /\ enabled[a] = "on")
    <3>1. batch'.adds[a] = adds[a]
      BY <2>1, <2>5, Zenon
    <3> QED
      BY <2>2, <2>3, <2>4, <2>5, <3>1, SMT DEF Left
  <2>6. CASE adds[a] = NoCond /\ enabled[a] = "on"
    <3>1. batch'.adds[a] = IF Has(disabled, a) THEN disabled[a] ELSE failed[a]
      BY <2>1, <2>6, Zenon
    <3>2. /\ ~(Has(bps, a) /\ Has(disabled, a)) /\ ~(Has(bps, a) /\ Has(failed, a))
          /\ ~(Has(disabled, a) /\ Has(failed, a))
      BY Zenon DEF IInv, Rows
    <3> QED
      BY <2>2, <2>3, <2>4, <2>6, <3>1, <3>2, SMT DEF Left, Held, Has, Absent
  <2> QED
    BY <2>5, <2>6
<1> QED
  BY <1>4, <1>5, <1>6

----------------------------------------------------------------------------
(* The steps of the list.                                                  *)

WantMap == [a \in Addr |-> Wanted(a)]
LateSet == {a \in Addr : Wanted(a) = Absent /\ enabled[a] = "off"}

\* Where nothing else is wanted, and no switch is turned, the list stays.
LEMMA ListStays ==
  ASSUME UNCHANGED stubborn,
         \A b \in Addr : Wanted(b)' = Wanted(b) /\ enabled'[b] = enabled[b]
  PROVE  UNCHANGED List!listVars
<1>1. WantMap' = WantMap
  BY SMT DEF WantMap
<1>2. LateSet' = LateSet
  BY SMT DEF LateSet
<1> QED
  BY <1>1, <1>2, SMT DEF WantMap, LateSet, List!listVars

\* Two maps that agree everywhere else differ by one entry.
LEMMA OneChange ==
  ASSUME NEW S, NEW f, NEW g, NEW a \in S,
         f = [b \in S |-> f[b]], g = [b \in S |-> g[b]], \A b \in S \ {a} : g[b] = f[b]
  PROVE  g = [f EXCEPT ![a] = g[a]]
  BY SMT

\* What a step that concerns one address makes of the list.
LEMMA OneAddress ==
  ASSUME NEW a \in Addr,
         \A b \in Addr \ {a} : Wanted(b)' = Wanted(b) /\ enabled'[b] = enabled[b]
  PROVE  /\ WantMap' = [WantMap EXCEPT ![a] = Wanted(a)']
         /\ Wanted(a)' = Absent /\ enabled'[a] = "off" => LateSet' = LateSet \cup {a}
         /\ ~(Wanted(a)' = Absent /\ enabled'[a] = "off") => LateSet' = LateSet \ {a}
<1>1. WantMap' = [WantMap EXCEPT ![a] = Wanted(a)']
  <2>1. /\ WantMap = [b \in Addr |-> WantMap[b]] /\ WantMap' = [b \in Addr |-> WantMap'[b]]
        /\ \A b \in Addr : WantMap[b] = Wanted(b) /\ WantMap'[b] = Wanted(b)'
    BY Zenon DEF WantMap
  <2>2. \A b \in Addr \ {a} : WantMap'[b] = WantMap[b]
    BY <2>1, Zenon
  <2>3. WantMap' = [WantMap EXCEPT ![a] = WantMap'[a]]
    BY <2>1, <2>2, OneChange
  <2> QED
    BY <2>1, <2>3, Zenon
<1>2. ASSUME NEW b
      PROVE  b \in LateSet' <=> \/ b = a /\ Wanted(a)' = Absent /\ enabled'[a] = "off"
                                \/ b # a /\ b \in LateSet
  BY SMT DEF LateSet
<1> QED
  BY <1>1, <1>2, Zenon

\* A command leaves the batch and what passes of the other addresses alone.
LEMMA CommandElsewhere ==
  ASSUME IInv, NEW t \in Caller, NEW a \in Addr, NEW b \in Addr \ {a},
         \/ \E c \in Fresh : AddBreakpoint(t, a, c)
         \/ \E c \in Update : SetBreakpointCondition(t, a, c)
         \/ \E on \in BOOLEAN : SetBreakpointEnabled(t, a, on)
         \/ \E n \in Period : SetBreakpointEveryN(t, a, n)
         \/ RemoveBreakpoint(t, a)
  PROVE  Wanted(b)' = Wanted(b) /\ enabled'[b] = enabled[b]
<1>1. RowSame(b)
  BY SMT DEF IInv, TypeOK, RowSame, Commands, AddBreakpoint, SetBreakpointCondition,
             SetBreakpointEnabled, SetBreakpointEveryN, RemoveBreakpoint
<1>2. batch' = batch
  BY Zenon DEF Commands, work, AddBreakpoint, SetBreakpointCondition, SetBreakpointEnabled,
             SetBreakpointEveryN, RemoveBreakpoint
<1>3. BatchSame(b)
  BY <1>2 DEF BatchSame
<1>4. QueueSame(b)
  BY SMT DEF IInv, TypeOK, QueueSame, Commands, AddBreakpoint, SetBreakpointCondition,
             SetBreakpointEnabled, SetBreakpointEveryN, RemoveBreakpoint
<1> QED
  BY <1>1, <1>3, <1>4, PassedSame, WantedSame DEF QueueSame

\* The maps at an address.
LEMMA ListAt ==
  ASSUME NEW a \in Addr
  PROVE  /\ WantMap[a] = Wanted(a) /\ List!NoRow = Absent
         /\ a \in LateSet <=> Wanted(a) = Absent /\ enabled[a] = "off"
  BY Zenon DEF WantMap, LateSet, List!NoRow, Absent

\* An addition gives a row with its condition; where the address's queued
\* removal is taken back, the row is new, and so it is on.
LEMMA AddWants ==
  ASSUME IInv, NEW t \in Caller, NEW a \in Addr, NEW c \in Fresh, AddBreakpoint(t, a, c)
  PROVE  \E m \in {"on", "off"} :
           /\ Wanted(a)' = [mode |-> m, cond |-> c]
           /\ \/ a \in stubborn
              \/ m = IF Wanted(a) # Absent THEN Wanted(a).mode
                     ELSE IF enabled[a] = "off" THEN "off" ELSE "on"
<1>1. /\ adds'[a] = c /\ conds'[a] = NoCond /\ a \notin rems' /\ c # NoCond
      /\ enabled'[a] = IF a \in rems THEN "on" ELSE enabled[a]
      /\ enabled[a] \in {"none", "on", "off"}
      /\ a \in rems => enabled[a] = "none"
  BY CommandsAssumption, SMT DEF AddBreakpoint, IInv, TypeOK, Requests, Cond
<1>2. Passed(a) \in List!Rows \cup {Absent} /\ Passed(a)' \in List!Rows \cup {Absent}
  <2>1. Passed(a) \in List!Rows \cup {Absent}
    BY WantedType DEF IInv
  <2>2. Held(a)' \in {Held(a), Absent}
    BY SMT DEF AddBreakpoint, Commands, IInv, TypeOK, Held, Has
  <2>3. Held(a)' \in List!Rows \cup {Absent}
    BY <2>2, WantedType, Zenon DEF IInv
  <2>4. batch' = batch
    BY Zenon DEF AddBreakpoint, Commands, work
  <2>5. /\ batch.adds[a] \in Conds /\ batch.conds[a] \in Conds
        /\ PassTurn(a) \in {"none", "on", "off", "gone"}
        /\ PassTurn(a)' = PassTurn(a)
    BY <2>4, SMT DEF IInv, TypeOK, PassTurn
  <2>6. Passed(a)' = Left(Held(a)', batch.adds[a], batch.conds[a], PassTurn(a))
    BY <2>4, <2>5, Zenon DEF Passed
  <2> QED
    BY <2>1, <2>3, <2>5, <2>6, LeftType
<1>3. a \in stubborn \/ Passed(a)' = Passed(a)
  <2>1. a \in stubborn \/ RowSame(a)
    BY SMT DEF AddBreakpoint, Commands, IInv, TypeOK, Rows, Has, RowSame
  <2>2. BatchSame(a)
    BY Zenon DEF AddBreakpoint, Commands, work, BatchSame
  <2> QED
    BY <2>1, <2>2, PassedSame
<1> DEFINE m == IF enabled'[a] = "off" THEN "off"
                ELSE IF Passed(a)' = Absent \/ enabled'[a] = "on" THEN "on" ELSE Passed(a)'.mode
<1>4. Wanted(a)' = [mode |-> m, cond |-> c]
  <2>1. Wanted(a)' = Left(Passed(a)', c, NoCond, enabled'[a])
    BY <1>1, SMT DEF Wanted, NextTurn
  <2>2. enabled'[a] \in {"none", "on", "off"}
    BY <1>1, SMT
  <2> HIDE DEF Passed
  <2> QED
    BY <1>1, <2>1, <2>2, LeftAdd
<1>5. Wanted(a) = Left(Passed(a), adds[a], conds[a], IF a \in rems THEN "gone" ELSE enabled[a])
  BY Zenon DEF Wanted, NextTurn
<1>6. \A r \in List!Rows : r.mode \in {"on", "off"}
  BY SMT DEF List!Rows, List!Modes
<1> HIDE DEF Wanted, Passed
<1>7. m \in {"on", "off"}
  BY <1>2, <1>6, SMT
<1>8. CASE Wanted(a) = Absent
  <2>1. a \in rems \/ (Passed(a) = Absent /\ adds[a] = NoCond)
    <3> SUFFICES ASSUME a \notin rems, Passed(a) # Absent \/ adds[a] # NoCond PROVE FALSE
      OBVIOUS
    <3>1. adds[a] \in Conds /\ conds[a] \in Conds
      BY SMT DEF IInv, TypeOK
    <3>2. Wanted(a) = Left(Passed(a), adds[a], conds[a], enabled[a])
      BY <1>5, Zenon
    <3> QED
      BY <1>1, <1>2, <1>8, <3>1, <3>2, LeftRow, AbsentIsNoRow
  <2> QED
    BY <1>1, <1>3, <1>4, <1>7, <1>8, <2>1, SMT
<1>9. CASE Wanted(a) # Absent
  <2>1. a \notin rems /\ Wanted(a).mode = IF enabled[a] = "off" THEN "off"
                                          ELSE IF Passed(a) = Absent \/ enabled[a] = "on"
                                               THEN "on" ELSE Passed(a).mode
    BY <1>5, <1>9, SMT DEF Left
  <2> QED
    BY <1>1, <1>3, <1>4, <1>7, <1>9, <2>1, SMT
<1> QED
  BY <1>8, <1>9

\* An addition is an addition to the list.
LEMMA AddStep ==
  ASSUME IInv, NEW t \in Caller, NEW a \in Addr, NEW c \in Fresh, AddBreakpoint(t, a, c)
  PROVE  List!Add(a, c)
<1>1. PICK m \in {"on", "off"} :
           /\ Wanted(a)' = [mode |-> m, cond |-> c]
           /\ \/ a \in stubborn
              \/ m = IF Wanted(a) # Absent THEN Wanted(a).mode
                     ELSE IF enabled[a] = "off" THEN "off" ELSE "on"
  BY AddWants
<1>2. Wanted(a)' # Absent
  BY <1>1, CommandsAssumption, SMT DEF Absent, Cond
<1>3. WantMap' = [WantMap EXCEPT ![a] = [mode |-> m, cond |-> c]] /\ LateSet' = LateSet \ {a}
  BY <1>1, <1>2, CommandElsewhere, OneAddress, Zenon
<1>4. m = (IF WantMap[a] # List!NoRow THEN WantMap[a].mode
           ELSE IF a \in LateSet THEN "off" ELSE "on") \/ a \in stubborn
  BY <1>1, ListAt, Zenon
<1> QED
  BY <1>3, <1>4, Zenon DEF List!Add, List!Listed, List!Modes, WantMap, LateSet

\* A removal takes the row off the list, whatever else was asked for it.
LEMMA RemoveStep ==
  ASSUME IInv, NEW t \in Caller, NEW a \in Addr, RemoveBreakpoint(t, a)
  PROVE  List!Remove(a)
<1>1. a \in rems' /\ enabled'[a] = "none"
  BY SMT DEF RemoveBreakpoint, IInv, TypeOK
<1>2. Wanted(a)' = Absent
  BY <1>1, SMT DEF Wanted, NextTurn, Left
<1>3. WantMap' = [WantMap EXCEPT ![a] = Absent] /\ LateSet' = LateSet \ {a}
  <2>1. enabled'[a] # "off"
    BY <1>1
  <2> QED
    BY <1>2, <2>1, CommandElsewhere, OneAddress, Zenon
<1> QED
  BY <1>3, ListAt, Zenon DEF List!Remove, WantMap, LateSet

\* A command that leaves the rows alone leaves what passes alone.
LEMMA RequestPasses ==
  ASSUME NEW a \in Addr, UNCHANGED <<bps, disabled, failed, batch>>
  PROVE  Passed(a)' = Passed(a)
  BY PassedSame DEF RowSame, BatchSame

\* A switch is one of the list, or is late for a breakpoint that is removed.
LEMMA SwitchStep ==
  ASSUME IInv, NEW t \in Caller, NEW a \in Addr, NEW on \in BOOLEAN,
         SetBreakpointEnabled(t, a, on)
  PROVE  \E m \in List!Modes : List!Switch(a, m) \/ List!SwitchLate(a, m)
<1> DEFINE m == IF on THEN "on" ELSE "off"
<1>1. /\ a \notin rems /\ UNCHANGED <<adds, rems, conds, bps, disabled, failed, batch>>
      /\ enabled' = [enabled EXCEPT ![a] = m]
  BY Zenon DEF SetBreakpointEnabled, Knows, Commands, work
<1>2. m \in {"on", "off"}
  BY SMT
<1> HIDE DEF m
<1>3. enabled'[a] = m /\ enabled[a] \in {"none", "on", "off"}
  BY <1>1, SMT DEF IInv, TypeOK
<1>4. Passed(a)' = Passed(a)
  BY <1>1, RequestPasses
<1>5. /\ Wanted(a) = Left(Passed(a), adds[a], conds[a], enabled[a])
      /\ Wanted(a)' = Left(Passed(a), adds[a], conds[a], m)
  BY <1>1, <1>3, <1>4, SMT DEF Wanted, NextTurn
<1>6. /\ WantMap' = [WantMap EXCEPT ![a] = Wanted(a)']
      /\ Wanted(a)' = Absent /\ m = "off" => LateSet' = LateSet \cup {a}
      /\ ~(Wanted(a)' = Absent /\ m = "off") => LateSet' = LateSet \ {a}
  <2>1. \A b \in Addr \ {a} : Wanted(b)' = Wanted(b) /\ enabled'[b] = enabled[b]
    BY CommandElsewhere, Zenon
  <2>2. /\ WantMap' = [WantMap EXCEPT ![a] = Wanted(a)']
        /\ Wanted(a)' = Absent /\ enabled'[a] = "off" => LateSet' = LateSet \cup {a}
        /\ ~(Wanted(a)' = Absent /\ enabled'[a] = "off") => LateSet' = LateSet \ {a}
    BY <2>1, OneAddress
  <2> QED
    BY <1>3, <2>2, Zenon
<1>7. CASE Wanted(a) = Absent
  <2>1. Wanted(a)' = Absent
    <3>1. Passed(a) = Absent /\ adds[a] = NoCond
      <4>1. adds[a] \in Conds /\ conds[a] \in Conds /\ Passed(a) \in List!Rows \cup {Absent}
        BY WantedType, SMT DEF IInv, TypeOK
      <4>2. Left(Passed(a), adds[a], conds[a], enabled[a]) \notin List!Rows
        BY <1>5, <1>7, AbsentIsNoRow, Zenon
      <4> QED
        BY <1>3, <4>1, <4>2, LeftRow, Zenon
    <3> QED
      BY <1>5, <3>1, SMT DEF Left
  <2>2. WantMap' = WantMap
    <3>1. \A b \in Addr : Wanted(b)' = Wanted(b)
      BY <1>7, <2>1, CommandElsewhere, Zenon
    <3> QED
      BY <3>1, SMT DEF WantMap
  <2>3. LateSet' = IF m = "on" THEN LateSet \ {a} ELSE LateSet \cup {a}
    <3>1. m = "off" => LateSet' = LateSet \cup {a}
      BY <1>6, <2>1, Zenon
    <3>2. m = "on" => LateSet' = LateSet \ {a}
      <4>1. m = "on" => m # "off"
        OBVIOUS
      <4> QED
        BY <1>6, <4>1, Zenon
    <3> QED
      BY <1>2, <3>1, <3>2, SMT
  <2>4. List!SwitchLate(a, m)
    BY <1>7, <2>2, <2>3, ListAt, Zenon DEF List!SwitchLate, List!Listed, WantMap, LateSet
  <2> QED
    BY <1>2, <2>4, Zenon DEF List!Modes
<1>8. CASE Wanted(a) # Absent
  <2>1. Wanted(a)' = [Wanted(a) EXCEPT !.mode = m]
    BY <1>2, <1>3, <1>5, <1>8, SMT DEF Left
  <2>2. Wanted(a)' # Absent
    <3>1. Wanted(a) \in List!Rows
      BY <1>8, WantedType DEF IInv
    <3> QED
      BY <1>2, <2>1, <3>1, CommandsAssumption, SMT DEF List!Rows, Absent
  <2>3. WantMap' = [WantMap EXCEPT ![a].mode = m]
    BY <1>6, <2>1, ListAt, Zenon
  <2>4. LateSet' = LateSet
    BY <1>6, <1>8, <2>2, ListAt, Zenon
  <2>5. List!Switch(a, m)
    BY <1>8, <2>3, <2>4, ListAt, Zenon DEF List!Switch, List!Listed, WantMap, LateSet
  <2> QED
    BY <1>2, <2>5, Zenon DEF List!Modes
<1> QED
  BY <1>7, <1>8

\* A condition is one of the list, or is lost on an address without a row.
LEMMA ConditionStep ==
  ASSUME IInv, UNCHANGED stubborn, NEW t \in Caller, NEW a \in Addr, NEW c \in Update,
         SetBreakpointCondition(t, a, c)
  PROVE  List!Condition(a, c) \/ UNCHANGED List!listVars
<1>1. /\ UNCHANGED <<adds, rems, enabled, bps, disabled, failed, batch>>
      /\ conds' = [conds EXCEPT ![a] = c]
  BY Zenon DEF SetBreakpointCondition, Commands, work
<1>2. conds'[a] = c /\ c # NoCond /\ conds[a] \in Conds /\ adds[a] \in Conds
  BY <1>1, CommandsAssumption, SMT DEF IInv, TypeOK, Cond
<1>3. Passed(a)' = Passed(a)
  BY <1>1, RequestPasses
<1>4. /\ Wanted(a) = Left(Passed(a), adds[a], conds[a], NextTurn(a))
      /\ Wanted(a)' = Left(Passed(a), adds[a], c, NextTurn(a))
  BY <1>1, <1>2, <1>3, SMT DEF Wanted, NextTurn
<1>5. \A b \in Addr \ {a} : Wanted(b)' = Wanted(b)
  BY CommandElsewhere, Zenon
<1>6. CASE Wanted(a) = Absent
  <2>1. Wanted(a)' = Absent
    <3>1. NextTurn(a) = "gone" \/ (Passed(a) = Absent /\ adds[a] = NoCond)
      <4>1. NextTurn(a) \in {"none", "on", "off", "gone"}
        BY SMT DEF NextTurn, IInv, TypeOK
      <4>2. Passed(a) \in List!Rows \cup {Absent}
        BY WantedType DEF IInv
      <4> QED
        BY <1>2, <1>4, <1>6, <4>1, <4>2, LeftRow, AbsentIsNoRow
    <3> QED
      BY <1>4, <3>1, SMT DEF Left
  <2> QED
    BY <1>1, <1>5, <1>6, <2>1, ListStays, Zenon
<1>7. CASE Wanted(a) # Absent
  <2>1. Wanted(a)' = [Wanted(a) EXCEPT !.cond = c]
    BY <1>2, <1>4, <1>7, SMT DEF Left
  <2>2. Wanted(a)' # Absent
    <3>1. Wanted(a) \in List!Rows
      BY <1>7, WantedType DEF IInv
    <3> QED
      BY <1>2, <2>1, <3>1, SMT DEF List!Rows, Absent
  <2>3. WantMap' = [WantMap EXCEPT ![a].cond = c] /\ LateSet' = LateSet \ {a}
    BY <1>1, <1>5, <2>1, <2>2, OneAddress, ListAt, Zenon
  <2>4. LateSet' = LateSet
    BY <1>7, <2>3, ListAt, Zenon
  <2> QED
    BY <1>7, <2>3, <2>4, ListAt, Zenon DEF List!Condition, List!Listed, WantMap, LateSet
<1> QED
  BY <1>6, <1>7

\* The same, for all addresses.
LEMMA WantedTypes ==
  TypeOK => \A a \in Addr : /\ Held(a) \in List!Rows \cup {Absent}
                            /\ Passed(a) \in List!Rows \cup {Absent}
                            /\ Wanted(a) \in List!Rows \cup {Absent}
  BY WantedType

\* After a step as well, what the user wants is a row or nothing.
LEMMA NextType ==
  TypeOK' => \A a \in Addr : /\ Held(a)' \in List!Rows \cup {Absent}
                             /\ Passed(a)' \in List!Rows \cup {Absent}
                             /\ Wanted(a)' \in List!Rows \cup {Absent}
<1>1. (TypeOK => \A a \in Addr : /\ Held(a) \in List!Rows \cup {Absent}
                                 /\ Passed(a) \in List!Rows \cup {Absent}
                                 /\ Wanted(a) \in List!Rows \cup {Absent})'
  BY WantedTypes, PTL
<1> QED
  BY <1>1

\* A byte that could not be taken or given back leaves a row, unless the
\* breakpoint is being removed, and then nothing is wanted before and after.
LEMMA FailurePasses ==
  ASSUME IInv, NEW a \in Addr, InstallFails(a) \/ RestoreFails(a), Passed(a)' = Absent, TypeOK'
  PROVE  Passed(a) = Absent
<1>1. CASE InstallFails(a)
  <2>1. /\ batch'.adds[a] = NoCond /\ batch'.conds = batch.conds /\ batch'.rems = batch.rems
        /\ batch.adds[a] # NoCond /\ batch.conds[a] \in Conds
    BY <1>1, AddingBatch, SMT DEF IInv, InstallFails, TypeOK
  <2>2. Held(a)' # Absent
    BY <1>1, <2>1, CommandsAssumption, SMT
       DEF InstallFails, Adding, Installs, IInv, TypeOK, Held, Has, Absent
  <2>3. PassTurn(a)' \in {"none", "on", "off", "gone"}
    BY SMT DEF PassTurn
  <2>4. PassTurn(a)' = "gone"
    <3>1. Held(a)' \in List!Rows \cup {Absent}
      BY NextType
    <3>2. /\ Passed(a)' = Left(Held(a)', NoCond, batch.conds[a], PassTurn(a)')
          /\ NoCond \in Conds
      BY <2>1, SMT DEF Passed, Conds
    <3> QED
      BY <2>1, <2>2, <2>3, <3>1, <3>2, LeftRow, AbsentIsNoRow
  <2>5. PassTurn(a) = "gone"
    BY <2>1, <2>4, SMT DEF PassTurn
  <2> QED
    BY <2>5, SMT DEF Passed, Left
<1>2. CASE RestoreFails(a)
  <2>1. /\ a \notin batch'.rems /\ batch'.adds = batch.adds /\ batch'.conds = batch.conds
        /\ batch.conds[a] \in Conds /\ batch.adds[a] \in Conds
    BY <1>2, RemovingBatch, SMT DEF IInv, RestoreFails, TypeOK
  <2>2. Held(a)' # Absent
    BY <1>2, SMT DEF RestoreFails, Held, Has, Absent
  <2>3. PassTurn(a)' \in {"none", "on", "off"}
    BY <2>1, SMT DEF PassTurn
  <2>4. Held(a)' \in List!Rows \cup {Absent}
    BY NextType
  <2>5. Passed(a)' = Left(Held(a)', batch.adds[a], batch.conds[a], PassTurn(a)')
    BY <2>1, SMT DEF Passed
  <2> QED
    BY <2>1, <2>2, <2>3, <2>4, <2>5, LeftRow, AbsentIsNoRow
<1> QED
  BY <1>1, <1>2

\* The target's refusal is the list's, or concerns a breakpoint that goes.
LEMMA RefuseStep ==
  ASSUME IInv, TypeOK', UNCHANGED stubborn, NEW a \in Addr, InstallFails(a) \/ RestoreFails(a)
  PROVE  List!Refuse(a) \/ UNCHANGED List!listVars
<1>1. /\ a \in stubborn /\ UNCHANGED queues
      /\ \A b \in Addr \ {a} : BatchSame(b)
  BY AddingBatch, RemovingBatch, Zenon DEF IInv, InstallFails, RestoreFails
<1>2. \A b \in Addr \ {a} : RowSame(b)
  BY SMT DEF InstallFails, RestoreFails, RowSame, IInv, TypeOK
<1>3. \A b \in Addr : QueueSame(b)
  BY <1>1, Zenon DEF QueueSame, queues
<1>4. \A b \in Addr \ {a} : Wanted(b)' = Wanted(b) /\ enabled'[b] = enabled[b]
  BY <1>1, <1>2, <1>3, PassedSame, WantedSame DEF QueueSame
<1>5. CASE Wanted(a)' = Absent
  <2>1. /\ Wanted(a)' = Left(Passed(a)', adds[a], conds[a], NextTurn(a))
        /\ NextTurn(a) \in {"none", "on", "off", "gone"}
        /\ adds[a] \in Conds /\ conds[a] \in Conds
    BY <1>3, SMT DEF Wanted, NextTurn, QueueSame, IInv, TypeOK
  <2>2. NextTurn(a) = "gone" \/ (Passed(a)' = Absent /\ adds[a] = NoCond)
    <3>1. Passed(a)' \in List!Rows \cup {Absent}
      BY NextType
    <3> QED
      BY <1>5, <2>1, <3>1, LeftRow, AbsentIsNoRow
  <2>3. Wanted(a) = Absent
    BY <2>2, FailurePasses, SMT DEF Wanted, Left
  <2>4. \A b \in Addr : Wanted(b)' = Wanted(b) /\ enabled'[b] = enabled[b]
    BY <1>3, <1>4, <1>5, <2>3, Zenon DEF QueueSame
  <2> QED
    BY <2>4, ListStays
<1>6. CASE Wanted(a)' # Absent
  <2>1. Wanted(a)' \in List!Rows
    BY <1>6, NextType
  <2>2. WantMap' = [WantMap EXCEPT ![a] = Wanted(a)'] /\ LateSet' = LateSet \ {a}
    BY <1>4, <1>6, OneAddress, Zenon
  <2> QED
    BY <1>1, <2>1, <2>2, Zenon DEF List!Refuse, WantMap, LateSet
<1> QED
  BY <1>5, <1>6

\* The end of a session clears the list.
LEMMA EndStep ==
  ASSUME IInv, EndSession
  PROVE  List!Clear
<1>1. batch = NoBatch /\ batch' = batch
  BY SMT DEF EndSession, IInv, TypeOK, work
<1>2. ASSUME NEW a \in Addr
      PROVE  Wanted(a)' = Absent /\ enabled'[a] # "off"
  <2>1. /\ adds'[a] = NoCond /\ enabled'[a] = "none"
        /\ bps'[a] = NoCond /\ disabled'[a] = NoCond /\ failed'[a] = NoCond
        /\ batch'.adds[a] = NoCond
    BY <1>1, SMT DEF EndSession, Empty, NoBatch
  <2>2. Held(a)' = Absent
    BY <2>1, SMT DEF Held, Has
  <2>3. Passed(a)' = Absent
    BY <2>1, <2>2, SMT DEF Passed, Left
  <2> QED
    BY <2>1, <2>3, SMT DEF Wanted, Left
<1>3. WantMap' = [a \in Addr |-> Absent] /\ LateSet' = {}
  BY <1>2, Zenon DEF WantMap, LateSet
<1> QED
  BY <1>3, Zenon DEF List!Clear, List!NoRow, Absent, WantMap, LateSet

\* The swap forgets the switches that came too late.
LEMMA SwapStep ==
  ASSUME IInv, Swap
  PROVE  List!Forget
<1>1. WantMap' = WantMap
  BY SwapWants, SMT DEF WantMap
<1>2. LateSet' = {}
  <2>1. \A a \in Addr : enabled'[a] # "off"
    BY SwapWants
  <2> QED
    BY <2>1, Zenon DEF LateSet
<1> QED
  BY <1>1, <1>2, Zenon DEF List!Forget, WantMap, LateSet

\* A step that leaves the rows, the batch and the queues of commands alone leaves
\* the list alone.
LEMMA IdleStep ==
  ASSUME UNCHANGED <<adds, rems, conds, enabled, bps, disabled, failed, batch, stubborn>>
  PROVE  UNCHANGED List!listVars
<1>1. ASSUME NEW b \in Addr
      PROVE  Wanted(b)' = Wanted(b)
  BY PassedSame, WantedSame DEF RowSame, BatchSame, QueueSame
<1> QED
  BY <1>1, ListStays

\* A period is no part of the list.
LEMMA PeriodStep ==
  ASSUME NEW t \in Caller, NEW a \in Addr, NEW n \in Period, SetBreakpointEveryN(t, a, n),
         UNCHANGED stubborn
  PROVE  UNCHANGED List!listVars
  BY IdleStep, Zenon DEF SetBreakpointEveryN, Commands, work

\* A pass that goes as it should does what was asked before it.
LEMMA PassStep ==
  ASSUME IInv, NEW a \in Addr, UNCHANGED stubborn,
         \/ Readd(a) \/ Install(a) \/ ApplyCondition(a)
         \/ RemoveDisabled(a) \/ RemoveFailed(a) \/ RemoveInstalled(a)
  PROVE  UNCHANGED List!listVars
<1>1. \A b \in Addr : Passed(b)' = Passed(b)
  BY AdditionPasses, ConditionPasses, RemovalPasses
<1>2. UNCHANGED queues
  BY Zenon DEF Readd, Install, Adding, ApplyCondition, RemoveDisabled, RemoveFailed,
               RemoveInstalled, Removing
<1>3. \A b \in Addr : Wanted(b)' = Wanted(b) /\ enabled'[b] = enabled[b]
  BY <1>1, <1>2, WantedSame, Zenon DEF QueueSame, queues
<1> QED
  BY <1>3, ListStays

\* Between the kinds of a pass nothing changes that is wanted.
LEMMA PhaseStep ==
  ASSUME IInv, UNCHANGED stubborn,
         AddsDone \/ SwapPeriods \/ PeriodsDone \/ RemsDone \/ \E a \in Addr : ApplyPeriod(a)
  PROVE  UNCHANGED List!listVars
<1>1. CASE AddsDone \/ SwapPeriods \/ PeriodsDone \/ \E a \in Addr : ApplyPeriod(a)
  BY <1>1, IdleStep, Zenon
     DEF AddsDone, SwapPeriods, PeriodsDone, ApplyPeriod, queues, rows, work
<1>2. CASE RemsDone
  <2>1. /\ batch.adds = Empty(NoCond) /\ batch.conds = Empty(NoCond)
        /\ batch.rems = {} /\ batch.disable = {} /\ batch' = NoBatch
        /\ UNCHANGED <<adds, rems, conds, enabled, bps, disabled, failed>>
    BY <1>2, SMT DEF RemsDone, IInv, Phases, queues, rows
  <2>2. ASSUME NEW b \in Addr
        PROVE  Passed(b)' = Passed(b)
    <3>1. Held(b)' = Held(b)
      BY <2>1, SMT DEF Held, Has
    <3>2. PassTurn(b) = "none" /\ PassTurn(b)' = "none"
      BY <2>1, SMT DEF PassTurn, NoBatch, Empty
    <3> QED
      BY <2>1, <3>1, <3>2, SMT DEF Passed, NoBatch
  <2>3. ASSUME NEW b \in Addr
        PROVE  Wanted(b)' = Wanted(b)
    BY <2>1, <2>2, WantedSame DEF QueueSame
  <2> QED
    BY <2>1, <2>3, ListStays
<1> QED
  BY <1>1, <1>2

\* Every step of the debugger is one step of the list, or none.
LEMMA ListStep ==
  ASSUME IInv, TypeOK', [Next]_vars
  PROVE  [List!Next]_(List!listVars)
<1>1. UNCHANGED stubborn
  BY DEF vars, Next
<1>2. CASE UserStep
  <2>1. ASSUME NEW t \in Caller, NEW a \in Addr, NEW c \in Fresh, AddBreakpoint(t, a, c)
        PROVE  List!Next
    BY <1>1, <2>1, AddStep, Zenon DEF List!Next, Cond
  <2>2. ASSUME NEW t \in Caller, NEW a \in Addr, NEW c \in Update, SetBreakpointCondition(t, a, c)
        PROVE  List!Next \/ UNCHANGED List!listVars
    BY <1>1, <2>2, ConditionStep, Zenon DEF List!Next, Cond
  <2>3. ASSUME NEW t \in Caller, NEW a \in Addr, NEW on \in BOOLEAN,
               SetBreakpointEnabled(t, a, on)
        PROVE  List!Next
    BY <1>1, <2>3, SwitchStep, Zenon DEF List!Next
  <2>4. ASSUME NEW t \in Caller, NEW a \in Addr, NEW n \in Period, SetBreakpointEveryN(t, a, n)
        PROVE  UNCHANGED List!listVars
    BY <1>1, <2>4, PeriodStep
  <2>5. ASSUME NEW t \in Caller, NEW a \in Addr, RemoveBreakpoint(t, a)
        PROVE  List!Next
    BY <1>1, <2>5, RemoveStep, Zenon DEF List!Next
  <2>6. CASE PostContinue
    BY <1>1, <2>6, IdleStep, Zenon DEF PostContinue, queues, rows, work
  <2> QED
    BY <1>2, <2>1, <2>2, <2>3, <2>4, <2>5, <2>6, Zenon DEF UserStep
<1>3. CASE ApplyStep
  <2>1. CASE Swap
    BY <1>1, <2>1, SwapStep, Zenon DEF List!Next
  <2>2. ASSUME NEW a \in Addr, InstallFails(a) \/ RestoreFails(a)
        PROVE  List!Next \/ UNCHANGED List!listVars
    BY <1>1, <2>2, RefuseStep, Zenon DEF List!Next
  <2> QED
    BY <1>1, <1>3, <2>1, <2>2, PassStep, PhaseStep, Zenon DEF ApplyStep
<1>4. CASE \/ BreakEvent \/ Pause \/ Resume \/ ServeEdits \/ WaitAgain \/ Sleep \/ TakeContinue
           \/ Close \/ StayPaused \/ StopEvent \/ BeginSession \/ \E t \in Caller : CallerStep(t)
  BY <1>1, <1>4, IdleStep, Zenon
     DEF BreakEvent, Pause, Resume, ServeEdits, WaitAgain, Sleep, TakeContinue, Close, StayPaused,
         StopEvent, BeginSession, CallerStep, Wake, Inject, queues, rows, work
<1>5. CASE EndSession
  BY <1>1, <1>5, EndStep, Zenon DEF List!Next
<1>6. CASE UNCHANGED vars
  BY <1>6, IdleStep, Zenon DEF vars, queues, rows, work
<1> QED
  BY <1>2, <1>3, <1>4, <1>5, <1>6, Zenon DEF Next, OwnerStep

\* The debugger starts with an empty list.
LEMMA ListInit == Init => List!Init
<1> SUFFICES ASSUME Init PROVE List!Init
  OBVIOUS
<1>1. ASSUME NEW a \in Addr
      PROVE  Wanted(a) = Absent /\ enabled[a] # "off"
  <2>1. /\ adds[a] = NoCond /\ enabled[a] = "none" /\ batch.adds[a] = NoCond
        /\ bps[a] = NoCond /\ disabled[a] = NoCond /\ failed[a] = NoCond
    BY SMT DEF Init, Empty, NoBatch
  <2>2. Held(a) = Absent
    BY <2>1, SMT DEF Held, Has
  <2>3. Passed(a) = Absent
    BY <2>1, <2>2, SMT DEF Passed, Left
  <2> QED
    BY <2>1, <2>3, SMT DEF Wanted, Left
<1>2. WantMap = [a \in Addr |-> Absent] /\ LateSet = {} /\ stubborn \in SUBSET Addr
  BY <1>1, Zenon DEF WantMap, LateSet, Init
<1> QED
  BY <1>2, Zenon DEF List!Init, List!NoRow, Absent, WantMap, LateSet

\* The breakpoints follow the commands one by one: queues, the order in which the
\* kinds are applied, and refusals of the target implement one list.
THEOREM CommandsFollowed == Spec => FollowsTheCommands
<1>1. IInv => TypeOK
  BY DEF IInv
<1> QED
  BY <1>1, ListInit, ListStep, Inductive, PTL DEF Spec, FollowsTheCommands, List!Spec
=============================================================================
