---------------------------- MODULE AplicacionMC ----------------------------
(* A small instance of Aplicacion: an interval, one that does not fit in   *)
(* the firmware's 8 bits, and none; a time that the firmware cuts.         *)
EXTENDS Aplicacion

TiemposMC == {<<0, 0>>, <<1, 0>>, <<4, 0>>}
HorasMC == {<<2, 1>>}
=============================================================================
