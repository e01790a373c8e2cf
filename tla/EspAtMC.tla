------------------------------ MODULE EspAtMC ------------------------------
(* A small instance of EspAt: a FIFO of one piece, a buffer of one request *)
(* and a half, one of four pieces for the answers, two commands.           *)
EXTENDS EspAt
=============================================================================
