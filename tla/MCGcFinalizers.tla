--------------------------- MODULE MCGcFinalizers ---------------------------
(* Small heaps for TLC. *)
EXTENDS GcFinalizers

Plain      == [array |-> FALSE, fin |-> FALSE, ptrs |-> TRUE, len |-> 1]
Finalizing == [array |-> FALSE, fin |-> TRUE,  ptrs |-> TRUE, len |-> 1]
FinArray   == [array |-> TRUE,  fin |-> TRUE,  ptrs |-> TRUE, len |-> 2]

AllShapes == {Plain, Finalizing, FinArray}

Symmetry == Permutations(Blocks)
=============================================================================
