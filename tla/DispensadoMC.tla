--------------------------- MODULE DispensadoMC ---------------------------
(* A small instance of Dispensado: a hopper of a few grams, noise of one,  *)
(* and room for four or five turns before the timeout.                     *)
EXTENDS Dispensado

DerivasMC == {-2, 0, 1}
=============================================================================
