--------------------------- MODULE BreakpointList ---------------------------
(***************************************************************************)
(* What the breakpoint commands of the debugger promise to their callers:  *)
(* the list of code breakpoints as the accepted commands leave it, one     *)
(* command after the other.  Queues, the owner of the debug events and the *)
(* target do not appear; BreakpointCommands is shown to implement this.    *)
(*                                                                         *)
(* Two liberties are granted.  At a stubborn address the target may keep   *)
(* the debugger from changing the byte, and then the row is what could be  *)
(* had.  And a switch-off may be accepted for an address whose breakpoint  *)
(* is just being removed; it is then late, and turns off a breakpoint that *)
(* is added there before it is forgotten.                                  *)
(***************************************************************************)
CONSTANTS Addr, Cond, NoCond

VARIABLES want, late,
          stubborn    \* fixed from the start

listVars == <<want, late, stubborn>>

Modes == {"on", "off"}
NoRow == [mode |-> "off", cond |-> NoCond]
Rows  == [mode : Modes, cond : Cond]
Listed(a) == want[a] # NoRow

Init == want = [a \in Addr |-> NoRow] /\ late = {} /\ stubborn \in SUBSET Addr

\* A new breakpoint is on; an old one takes the condition and stays on or off.
Add(a, c) ==
  LET mode == IF Listed(a) THEN want[a].mode ELSE IF a \in late THEN "off" ELSE "on" IN
  /\ \E m \in Modes :
       /\ m = mode \/ a \in stubborn
       /\ want' = [want EXCEPT ![a] = [mode |-> m, cond |-> c]]
  /\ late' = late \ {a}

Remove(a) ==
  /\ want' = [want EXCEPT ![a] = NoRow]
  /\ late' = late \ {a}

Switch(a, mode) ==
  /\ Listed(a)
  /\ want' = [want EXCEPT ![a].mode = mode]
  /\ UNCHANGED late

SwitchLate(a, mode) ==
  /\ ~Listed(a)
  /\ late' = IF mode = "on" THEN late \ {a} ELSE late \cup {a}
  /\ UNCHANGED want

Condition(a, c) ==
  /\ Listed(a)
  /\ want' = [want EXCEPT ![a].cond = c]
  /\ UNCHANGED late

\* The byte could not be taken, or could not be given back.
Refuse(a) ==
  /\ a \in stubborn
  /\ \E r \in Rows : want' = [want EXCEPT ![a] = r]
  /\ late' = late \ {a}

Forget == late' = {} /\ UNCHANGED want

\* The session ends, and its list with it.
Clear == want' = [a \in Addr |-> NoRow] /\ late' = {}

Next ==
  /\ UNCHANGED stubborn
  /\ \/ \E a \in Addr :
          \/ \E c \in Cond : Add(a, c) \/ Condition(a, c)
          \/ \E m \in Modes : Switch(a, m) \/ SwitchLate(a, m)
          \/ Remove(a) \/ Refuse(a)
     \/ Forget \/ Clear

Spec == Init /\ [][Next]_listVars
=============================================================================
