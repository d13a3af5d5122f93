----------------------------- MODULE MCInterrupts -----------------------------
(***************************************************************************)
(* The timer, the keyboard and the clock of the second controller, against *)
(* the eighteen vectors of main() and a counter of two bits.               *)
(***************************************************************************)
EXTENDS Interrupts

MCTraps == <<0, 1, 2, 3, 4, 5, 6, 7, 8, 10, 11, 12, 13, 14, 16, 17, 18, 19>>
MCDevices == {0, 1, 8}
MCSetTicks == {0, 3}
=============================================================================
