------------------------- MODULE MCAnalysisService --------------------------
EXTENDS AnalysisService, TLC

MCCapacity == [doc |-> 1, mod |-> 1]
MCOwnerOf == [view |-> "doc", image |-> "doc", dll |-> "mod"]
MCPasses == [view |-> <<"origin">>, image |-> <<"funcs">>, dll |-> <<"funcs", "xref">>]
MCPatience == [view |-> 2, image |-> 0, dll |-> 1]
=============================================================================
