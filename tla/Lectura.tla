------------------------------ MODULE Lectura ------------------------------
(***************************************************************************)
(* What ObtenerPesoDispensador_g promises to who calls it, without         *)
(* conversions, glitches and waits: it returns in time, with a weight that *)
(* is near what the scale holds during this very call, or with -1.         *)
(***************************************************************************)
EXTENDS Pesada

VARIABLES
  leyendo,        \* a call is under way
  ahora, inicio,  \* the clock, and when the call began
  peso,           \* grams on the scale, negative below the tare
  g               \* what the last call returned

lectura == <<leyendo, ahora, inicio, peso, g>>

Llamar ==
  /\ ~leyendo /\ leyendo' = TRUE
  /\ ahora' \in Nat /\ inicio' = ahora' /\ peso' \in Int
  /\ g' = g

Medir ==
  /\ leyendo /\ ahora' \in ahora .. inicio + LectMax
  /\ UNCHANGED <<leyendo, inicio, peso, g>>

Responder ==
  /\ leyendo /\ leyendo' = FALSE
  /\ ahora' \in ahora .. inicio + LectMax /\ ahora' >= inicio + LectMin
  /\ g' \in Lecturas(peso)
  /\ UNCHANGED <<inicio, peso>>

LecturaInit == leyendo = FALSE /\ ahora = 0 /\ inicio = 0 /\ peso \in Int /\ g = 0

LecturaNext == Llamar \/ Medir \/ Responder

LecturaSpec == LecturaInit /\ [][LecturaNext]_lectura

=============================================================================
