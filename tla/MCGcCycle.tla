----------------------------- MODULE MCGcCycle ------------------------------
(* Small heaps for TLC. *)
EXTENDS GcCycle

Plain      == [array |-> FALSE, fin |-> FALSE, ptrs |-> TRUE, len |-> 1]
Finalizing == [array |-> FALSE, fin |-> TRUE,  ptrs |-> TRUE, len |-> 1]
Leaf       == [array |-> FALSE, fin |-> FALSE, ptrs |-> FALSE, len |-> 1]
FinArray   == [array |-> TRUE,  fin |-> TRUE,  ptrs |-> TRUE, len |-> 2]

AllShapes == {Plain, Finalizing, Leaf, FinArray}
=============================================================================
