---------------------------- MODULE MCRegVmCalls ----------------------------
(* Small programs for TLC. *)
EXTENDS RegVmCalls

Small == [data |-> 1, regs |-> 1]
Large == [data |-> 2, regs |-> 3]

TwoFunctions == {Small, Large}
=============================================================================
