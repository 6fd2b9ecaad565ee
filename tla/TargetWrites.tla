---------------------------- MODULE TargetWrites ----------------------------
(***************************************************************************)
(* What the debugger promises to those who write to the target's memory:   *)
(* each span of a call is written entirely or not at all, to the target    *)
(* the call was made for, before its fate is told; and a span that was     *)
(* refused is not written later.  Breakpoints, queues, timeouts and the    *)
(* thread that owns the debug events do not appear; MemoryWrites is shown  *)
(* to implement this.                                                      *)
(*                                                                         *)
(* One liberty is granted: when the target's memory cannot be put back, it *)
(* may end up damaged, and then that is reported.                          *)
(***************************************************************************)
EXTENDS Naturals, Sequences

CONSTANTS Caller, Addr, Byte, Span

VARIABLES
  memory,     \* the target's bytes, as it would find them without a debugger
  reported,   \* the user was told of damage
  asked,      \* asked[c]: the spans of c's call
  bound,      \* the callers whose call is for the present target
  fate        \* fate[c]: what became of each span

vars == <<memory, reported, asked, bound, fate>>

Init ==
  /\ memory \in [Addr -> Byte] /\ reported = FALSE
  /\ asked = [c \in Caller |-> <<>>] /\ bound = {}
  /\ fate = [c \in Caller |-> <<>>]

Open(c, i) == i \in DOMAIN fate[c] /\ fate[c][i] = "open"

\* Any number of open spans may be refused, at any time.
Refused(f) ==
  /\ \A c \in Caller : Len(f[c]) = Len(fate[c])
  /\ \A c \in Caller : \A i \in DOMAIN fate[c] :
       f[c][i] # fate[c][i] => Open(c, i) /\ f[c][i] = "refused"

Ask(c) ==
  /\ fate[c] = <<>>
  /\ asked'[c] \in Seq(Span) /\ asked' = [asked EXCEPT ![c] = asked'[c]]
  /\ fate' = [fate EXCEPT ![c] = [i \in DOMAIN asked'[c] |-> "open"]]
  /\ bound' = bound \cup {c}
  /\ UNCHANGED <<memory, reported>>

Write(c, i) ==
  /\ Open(c, i) /\ c \in bound
  /\ memory' = [a \in Addr |->
       IF a \in DOMAIN asked[c][i].bytes THEN asked[c][i].bytes[a] ELSE memory[a]]
  /\ fate' = [fate EXCEPT ![c][i] = "written"]
  /\ UNCHANGED <<reported, asked, bound>>

Refuse ==
  /\ Refused(fate')
  /\ UNCHANGED <<memory, reported, asked, bound>>

Damage ==
  /\ Refused(fate') /\ reported'
  /\ memory' \in [Addr -> Byte]
  /\ UNCHANGED <<asked, bound>>

Take(c) ==
  /\ \A i \in DOMAIN fate[c] : ~Open(c, i)
  /\ fate' = [fate EXCEPT ![c] = <<>>] /\ asked' = [asked EXCEPT ![c] = <<>>]
  /\ bound' = bound \ {c}
  /\ UNCHANGED <<memory, reported>>

\* The target is let go, and another takes its place.
Replace ==
  /\ bound' = {} /\ memory' \in [Addr -> Byte] /\ ~reported'
  /\ UNCHANGED <<asked, fate>>

Next ==
  \/ \E c \in Caller : Ask(c) \/ Take(c) \/ \E i \in DOMAIN fate[c] : Write(c, i)
  \/ Refuse \/ Damage \/ Replace

Spec == Init /\ [][Next]_vars
=============================================================================
