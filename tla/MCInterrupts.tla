---------------------------- MODULE MCInterrupts ----------------------------
(* Timer, keyboard and one line of the second PIC; a clock of two 1-bit words. *)
EXTENDS Interrupts

Wired == {0, 1, 8}
=============================================================================
