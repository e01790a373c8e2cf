----------------------------- MODULE Dispensado -----------------------------
(***************************************************************************)
(* Dispensing a portion by weight: dispensarAlimento_porPeso of ui/src/ui.c*)
(* with the motor (girarMotor of servo.c) and the scale (                  *)
(* ObtenerPesoDispensador_g of loadcell.c) it drives.  The call blocks the *)
(* loop; the food, the noise of the scale and the person who refills the   *)
(* hopper are its environment.                                             *)
(*                                                                         *)
(* Weights are grams, times are clock units.                               *)
(***************************************************************************)
EXTENDS Pesada

CONSTANTS
  Porciones,            \* porcion_g, what a call may be asked for
  Timeout, Giro, Pausa, \* DISP_TIMEOUT_MS, the motor's turn, delay(80)
  Tolerancia,           \* DISP_TOLERANCIA_G
  CaidaMax,             \* most grams one turn lets fall
  Capacidad,            \* grams of food the hopper holds
  Derivas,              \* tare error: what an empty hopper reads, in grams
  Recargas              \* grams a person may add at once

ASSUME TiempoAssumption ==
  /\ Timeout \in Nat /\ Giro \in Nat \ {0} /\ Pausa \in Nat
  /\ LectMin \in Nat /\ LectMax \in Nat /\ LectMin <= LectMax

ASSUME PesoAssumption ==
  /\ Porciones \subseteq Nat
  /\ Tolerancia \in Nat /\ \A p \in Porciones : p >= Tolerancia
  /\ Ruido \in Nat /\ CaidaMax \in Nat /\ Capacidad \in Nat
  /\ Derivas \subseteq Int /\ Recargas \subseteq Nat

VARIABLES
  pc,           \* "libre" (no call), "inicial", "girar" or "leer"
  porcion_g, ini_g, objetivo_g,
  tick, t0,     \* tickRead() since the call began
  comida,       \* food in the hopper
  deriva,       \* the scale's tare error
  resultado,    \* how the last call ended
  \* history of the call, read by the properties only
  comida0,      \* food when the initial weight was read
  entregado,    \* grams that fell since then
  giros,       \* turns since the last weight that could be read
                \* and told the call to go on
  recarga       \* somebody refilled the hopper since then

llamada == <<porcion_g, ini_g, objetivo_g, t0, resultado, comida0>>
vars == <<pc, porcion_g, ini_g, objetivo_g, tick, t0, comida, deriva, resultado,
          comida0, entregado, giros, recarga>>

-----------------------------------------------------------------------------
dispensarAlimento(p) ==
  /\ pc = "libre"
  /\ pc' = "inicial"
  /\ porcion_g' = p
  /\ tick' = 0
  /\ resultado' = "ninguno"
  /\ UNCHANGED <<ini_g, objetivo_g, t0, comida0, comida, deriva,
                 entregado, giros, recarga>>

(* ini_g = ObtenerPesoDispensador_g(); if(ini_g < 0) return;               *)
LeerInicial ==
  /\ pc = "inicial"
  /\ \E g \in Lecturas(comida + deriva), t \in LectMin .. LectMax :
       /\ ini_g' = g
       /\ tick' = tick + t
       /\ IF g < 0
          THEN /\ pc' = "libre"
               /\ resultado' = "sin_balanza"
               /\ UNCHANGED <<objetivo_g, t0>>
          ELSE /\ pc' = "girar"
               /\ objetivo_g' = g - porcion_g
               /\ t0' = tick'
               /\ resultado' = "en_curso"
  /\ comida0' = comida
  /\ entregado' = 0
  /\ giros' = 0
  /\ recarga' = FALSE
  /\ UNCHANGED <<porcion_g, comida, deriva>>

(* girarMotor(DISP_STEP_MS) *)
Girar ==
  /\ pc = "girar"
  /\ pc' = "leer"
  /\ tick' = tick + Giro
  /\ \E c \in 0 .. CaidaMax :
       /\ c <= comida
       /\ comida' = comida - c
       /\ entregado' = entregado + c
  /\ giros' = giros + 1
  /\ UNCHANGED <<llamada, deriva, recarga>>

\* Mutants: a failed reading counts as a weight; the tolerance is forgotten.
Servida_sin_error(g) == g <= objetivo_g + Tolerancia
Servida_justa(g) == g >= 0 /\ g <= objetivo_g - Tolerancia

Servida(g) == g >= 0 /\ g <= objetivo_g + Tolerancia

\* Mutant: there is no timeout.
Agotado_nunca(t) == FALSE

Agotado(t) == t - t0 >= Timeout

(* Reads the weight, and then: stops (served), stops (timeout), or pauses  *)
(* and goes on.                                                            *)
Leer ==
  /\ pc = "leer"
  /\ \E g \in Lecturas(comida + deriva), t \in LectMin .. LectMax :
       \/ /\ Servida(g)
          /\ pc' = "libre" /\ resultado' = "servida"
          /\ tick' = tick + t
          /\ giros' = giros
       \/ /\ ~Servida(g) /\ Agotado(tick + t)
          /\ pc' = "libre" /\ resultado' = "timeout"
          /\ tick' = tick + t
          /\ giros' = giros
       \/ /\ ~Servida(g) /\ ~Agotado(tick + t)
          /\ pc' = "girar" /\ resultado' = resultado
          /\ tick' = tick + t + Pausa
          /\ giros' = IF g >= 0 THEN 0 ELSE giros
  /\ UNCHANGED <<porcion_g, ini_g, objetivo_g, t0, comida0, comida, deriva,
                 entregado, recarga>>

(* The person at the hopper, at any moment. *)
Rellenar ==
  /\ \E x \in Recargas :
       /\ comida + x <= Capacidad
       /\ comida' = comida + x
  /\ recarga' = TRUE
  /\ UNCHANGED <<pc, llamada, tick, deriva, entregado, giros>>

Init ==
  /\ pc = "libre"
  /\ porcion_g \in Porciones
  /\ ini_g = 0 /\ objetivo_g = 0 /\ tick = 0 /\ t0 = 0
  /\ comida \in 0 .. Capacidad
  /\ deriva \in Derivas
  /\ resultado = "ninguno"
  /\ comida0 = comida /\ entregado = 0 /\ giros = 0 /\ recarga = FALSE

porPeso == LeerInicial \/ Girar \/ Leer

Next ==
  \/ \E p \in Porciones : dispensarAlimento(p)
  \/ porPeso
  \/ Rellenar

Spec == Init /\ [][Next]_vars

-----------------------------------------------------------------------------
(* Properties *)

(* Type invariant. *)
TypeOK ==
  /\ pc \in {"libre", "inicial", "girar", "leer"}
  /\ porcion_g \in Porciones
  /\ ini_g \in Nat \cup {-1} /\ objetivo_g \in Int
  /\ tick \in Nat /\ t0 \in Nat
  /\ comida \in 0 .. Capacidad /\ deriva \in Derivas
  /\ resultado \in {"ninguno", "sin_balanza", "en_curso", "servida", "timeout"}
  /\ comida0 \in 0 .. Capacidad /\ entregado \in Nat /\ giros \in Nat
  /\ recarga \in BOOLEAN

(* The call is bounded: the timeout is looked at after each turn and read- *)
(* ing (ui.c:188), so the motor may start a turn up to a pause after it and *)
(* the call may end a turn and a reading later still.  This bound, and not *)
(* the "seguridad total (10 s)" of ui.c:28, is what the loop has to live   *)
(* with.                                                                   *)
Demora ==
  Timeout + CASE pc = "girar" -> Pausa
              [] pc = "leer"  -> Pausa + Giro
              [] OTHER        -> Pausa + Giro + LectMax

DuracionAcotada == pc # "inicial" => tick - t0 <= Demora

(* When the scale says that the portion was served (ui.c:177), it was: up  *)
(* to the tolerance and twice the noise, even if somebody refills the      *)
(* hopper meanwhile, provided the scale did not start below its zero (the  *)
(* fabs of loadcell.c:194 would then take the lack of food for food).      *)
DosisMinima ==
  resultado = "servida" /\ comida0 + deriva >= 0 =>
    entregado >= porcion_g - Tolerancia - 2 * Ruido

(* Food never falls past the portion by more than the noise and what falls *)
(* in the turns since the last weight that told the call to go on: one, or *)
(* more if the scale stops answering and the loop turns blindly until the  *)
(* timeout (ui.c:176).  Nobody refills the hopper and its zero is not high.*)
DosisMaxima ==
  resultado \in {"en_curso", "servida", "timeout"} /\ ~recarga /\ deriva >= 0 =>
    entregado <= porcion_g - Tolerancia + 2 * Ruido + CaidaMax * giros

(* What ties the variables of a call together; with TypeOK it makes the    *)
(* properties inductive.                                                   *)
Midiendo == resultado \in {"en_curso", "servida", "timeout"}

LlamadaInv ==
  /\ pc = "inicial" => tick = 0 /\ resultado = "ninguno"
  /\ pc \in {"girar", "leer"} => resultado = "en_curso"
  /\ Midiendo => /\ ini_g \in Lecturas(comida0 + deriva) \ {-1}
                 /\ objetivo_g = ini_g - porcion_g
                 /\ comida0 - comida <= entregado
                 /\ ~recarga => comida0 - comida = entregado

DispInv == TypeOK /\ LlamadaInv /\ DuracionAcotada /\ DosisMinima /\ DosisMaxima

=============================================================================
