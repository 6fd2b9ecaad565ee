---------------------------- MODULE MCStepEngine ----------------------------
(* Each thread calls a function, then takes a lock and gives it back, for    *)
(* ever.  The function may call itself once; breakpoints are on both calls   *)
(* and on the unlocking.                                                     *)
EXTENDS StepEngine

MCKind == <<"call", "lock", "unlock", "normal", "call", "ret">>
MCFlow == <<{}, {3}, {1}, {5, 6}, {}, {}>>
MCCallee == [a \in Addr |-> 4]
MCAfter  == [a \in Addr |-> IF a = 6 THEN 6 ELSE a + 1]
MCStart  == [t \in Thread |-> 1]
=============================================================================
