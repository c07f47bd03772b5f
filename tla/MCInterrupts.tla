---------------------------- MODULE MCInterrupts ----------------------------
(* The interrupt path on a small instance.                               *)
EXTENDS Interrupts
=============================================================================
