----------------------- MODULE MCInvestigationService -----------------------
(* Two generations, so that one can be replaced and then used again.       *)
EXTENDS InvestigationService

MCGenerations == {1, 2}
=============================================================================
