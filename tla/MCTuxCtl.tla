------------------------------ MODULE MCTuxCtl ------------------------------
(* Two LED values and two of the four LED bytes, so that a packet can hold *)
(* a mix of two values; three ioctls (TUX_INIT and two TUX_SET_LED), one   *)
(* controller reset and one button change.                                 *)
EXTENDS TuxCtl

CONSTANTS v1, v2, b1

MCValues == {v1, v2}
MCCells == {2, 3}
MCButtons == {b1}
\* MTCP_BIOC_ON, MTCP_LED_USR and MTCP_LED_SET each answer with MTCP_ACK.
MCAckedOps == {"BIOC_ON", "LED_USR", "LED_SET"}
=============================================================================
