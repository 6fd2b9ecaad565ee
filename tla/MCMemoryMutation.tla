-------------------------- MODULE MCMemoryMutation --------------------------
(* Two bytes on pages of their own, as in tests/debugger_memory_mutation_test: *)
(* the write can fail on one page and succeed on the other.                  *)
EXTENDS MemoryMutation, TLC

CONSTANTS page1, page2, code, int3, other

MCAddr == {page1, page2}
MCByte == {code, int3, other}
\* Each address stands for its page, so both can be permuted together.
MCRegionOf == [a \in MCAddr |-> a]
MCSymmetry == Permutations(MCByte) \cup Permutations(MCAddr)
=============================================================================
