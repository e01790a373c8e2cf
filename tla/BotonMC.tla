------------------------------ MODULE BotonMC ------------------------------
(* A small instance of Boton: a debounce of a few ticks, a loop that may   *)
(* block for less or more than that.                                       *)
EXTENDS Boton
=============================================================================
