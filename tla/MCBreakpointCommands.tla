------------------------ MODULE MCBreakpointCommands ------------------------
(* One address: addresses share only the owner's pass, which goes through  *)
(* all of its steps with one as well.                                      *)
EXTENDS BreakpointCommands
=============================================================================
