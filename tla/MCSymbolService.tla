-------------------------- MODULE MCSymbolService ---------------------------
(* Two addresses, of which both rich records do not fit into the cache, and  *)
(* one name; three sessions.                                                 *)
EXTENDS SymbolService, TLC

MCCost == [kind \in Lookup |-> IF kind = "name" THEN 2 ELSE 1]
MCWeight == [kind \in Lookup |-> IF kind = "detailed" THEN 2 ELSE 1]
=============================================================================
