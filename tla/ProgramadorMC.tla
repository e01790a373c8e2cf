--------------------------- MODULE ProgramadorMC ---------------------------
(* Small instances of Programador: hours of 3 minutes of 4 units, each     *)
(* phase of the loop blocking for at most one of them, and a counter that  *)
(* wraps after a few days.                                                 *)
EXTENDS Programador

SoloCancelar == {<<0, 0>>}
DosPeriodos == {<<0, 1>>, <<0, 2>>}
UnaHora == {[hour |-> 0, min |-> 0, sec |-> 0]}
=============================================================================
