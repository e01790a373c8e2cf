----------------------------- MODULE BalanzaMC -----------------------------
(* A small instance of Balanza: conversions of 4 bits, a load on either   *)
(* side of the tare, glitches at the ends of the range.                    *)
EXTENDS Balanza

CargasMC == {-7, 5}
PicosMC == {-8, 7}
TaraMC == -3
=============================================================================
