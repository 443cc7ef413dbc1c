------------------------- MODULE MCKernelTwoTerminals -------------------------
(* Kernel with 4 process slots and 2 terminals: two root shells leave two  *)
(* slots for execute chains, so a terminal can hold a three-deep stack.    *)
(* Used for the temporal properties, whose checking cost grows fastest.    *)
EXTENDS Kernel

MCNumMaxProcesses == 4
MCNumTerminals == 2

=============================================================================
