------------------------------ MODULE MCKernel ------------------------------
(* Kernel with 4 process slots (two below the code's 6, enough for three   *)
(* root shells and one child, so that the table fills) and the code's 3    *)
(* terminals.                                                              *)
EXTENDS Kernel

MCNumMaxProcesses == 4
MCNumTerminals == 3

=============================================================================
