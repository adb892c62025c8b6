--------------------------- MODULE MCObjectPools ----------------------------
(* Small pools for TLC: one or two blocks in a page where the code has 64 Kb. *)
EXTENDS ObjectPools

TwoPools == << [elem |-> 16, count |-> 1], [elem |-> 32, count |-> 2] >>
=============================================================================
