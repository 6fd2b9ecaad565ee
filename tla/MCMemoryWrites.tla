--------------------------- MODULE MCMemoryWrites ---------------------------
(* One executable address with breakpoints and one of data.  One caller      *)
(* writes an instruction; the other calls with two spans, of which the first *)
(* crosses both addresses and puts a trap instruction at the former.         *)
EXTENDS MemoryWrites

CONSTANTS c1, c2

At(cells, allow) == [bytes |-> cells, allow |-> allow]
MCCalls == (c1 :> {<<At("x" :> 1, TRUE)>>}) @@
           (c2 :> {<<At(("x" :> 3) @@ ("d" :> 1), TRUE), At("d" :> 0, FALSE)>>})
\* Bound: what follows on reported damage is not explored further.
Undamaged == ~reported
=============================================================================
