---------------------------- MODULE MCAtomicFile ----------------------------
(* Two threads of one instance and one of another save and load one file.  *)
EXTENDS AtomicFile

CONSTANTS ui, worker, other, here, there

MCThread    == {ui, worker, other}
MCProcess   == {here, there}
MCProcessOf == [w \in MCThread |-> IF w = other THEN there ELSE here]
=============================================================================
