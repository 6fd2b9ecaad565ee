------------------------ MODULE MCDebuggerLifecycle ------------------------
(* Three requests and two native failures; two requests, or one and a press  *)
(* of a button, with a failure and an event or a kill of the target.         *)
EXTENDS DebuggerLifecycle

Bound(r, f, s, p) == [requests |-> r, faults |-> f, stops |-> s, presses |-> p]

MCBounds == {Bound(3, 2, 0, 0), Bound(2, 1, 1, 0), Bound(1, 1, 1, 1)}
OnePress == {Bound(1, 1, 0, 1)}
=============================================================================
