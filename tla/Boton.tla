------------------------------- MODULE Boton -------------------------------
(***************************************************************************)
(* A button of the panel: boton_evento of ui/src/ui.c, called once in each *)
(* iteration of loop_ui, over a mechanical switch.                         *)
(*                                                                         *)
(* The switch bounces when it is pressed and when it is released; between  *)
(* two calls the loop may be blocked for up to Lazo.  The difference       *)
(* tickRead() - timer is kept as an age, no larger than DEBOUNCE_MS: the   *)
(* code only asks whether it has reached it.                               *)
(***************************************************************************)
EXTENDS Integers

CONSTANTS
  DEBOUNCE_MS,
  Rebote,    \* longest bounce of the switch
  Lazo       \* longest time between two calls

(* A switch settles before the debounce time is over. *)
ASSUME ReboteAssumption ==
  /\ DEBOUNCE_MS \in Nat /\ Rebote \in Nat /\ Lazo \in Nat \ {0}
  /\ Rebote < DEBOUNCE_MS

VARIABLES
  lectura, estable,   \* of boton_t: TRUE released, FALSE pressed
  edad,               \* tickRead() - timer
  evento,             \* what the last call returned
  \* the switch and the finger
  nivel,              \* level of the pin
  dedo,               \* TRUE while the button is held
  asentado,           \* time since the finger last moved
  \* the loop
  espera,             \* time since the last call
  \* history
  eventos,            \* events since the button was last pressed
  pulsada,            \* it has been pressed
  suelto              \* estable when it was last pressed

boton == <<lectura, estable, edad, evento>>
vars == <<boton, nivel, dedo, asentado, espera, eventos, pulsada, suelto>>

\* An age beyond this one is not told apart.
Largo == Rebote + DEBOUNCE_MS + 2 * Lazo
Tope(x, max) == IF x < max THEN x ELSE max

-----------------------------------------------------------------------------
\* Mutant: the timer is restarted by every call.
Timer_siempre == 0

Timer == IF nivel # lectura THEN 0 ELSE edad

\* Mutants: a press that lasts is reported again; a press is reported at the
\* first reading.
Cambia_siempre == Timer >= DEBOUNCE_MS /\ (estable # nivel \/ ~nivel)
Cambia_ya == estable # nivel

Cambia == Timer >= DEBOUNCE_MS /\ estable # nivel

boton_evento ==
  /\ lectura' = nivel
  /\ edad' = Timer
  /\ estable' = IF Cambia THEN nivel ELSE estable
  /\ evento' = (Cambia /\ ~nivel)
  /\ espera' = 0
  /\ eventos' = IF evento' THEN eventos + 1 ELSE eventos
  /\ UNCHANGED <<nivel, dedo, asentado, pulsada, suelto>>

(* A tick: the loop is busy, and a switch that has not settled may bounce. *)
Tick ==
  /\ espera < Lazo
  /\ espera' = espera + 1
  /\ edad' = Tope(edad + 1, DEBOUNCE_MS)
  /\ asentado' = Tope(asentado + 1, Largo)
  /\ nivel' \in BOOLEAN
  /\ asentado' >= Rebote => (nivel' <=> ~dedo)
  /\ UNCHANGED <<lectura, estable, evento, dedo, eventos, pulsada, suelto>>

(* The finger: a new press or release once the switch has settled. *)
Mover ==
  /\ asentado >= Rebote
  /\ asentado' = 0
  /\ dedo' = ~dedo
  /\ nivel' \in BOOLEAN
  /\ Rebote = 0 => (nivel' <=> ~dedo')
  /\ pulsada' = (pulsada \/ dedo')
  /\ IF dedo' THEN eventos' = 0 /\ suelto' = estable ELSE UNCHANGED <<eventos, suelto>>
  /\ UNCHANGED <<boton, espera>>

Init ==
  /\ lectura = TRUE /\ estable = TRUE /\ edad = DEBOUNCE_MS /\ evento = FALSE
  /\ nivel = TRUE /\ dedo = FALSE /\ asentado = Largo /\ espera = 0
  /\ eventos = 0 /\ pulsada = FALSE /\ suelto = TRUE

Next == boton_evento \/ Tick \/ Mover

Spec == Init /\ [][Next]_vars

-----------------------------------------------------------------------------
(* Properties *)

(* Type invariant. *)
TypeOK ==
  /\ lectura \in BOOLEAN /\ estable \in BOOLEAN /\ evento \in BOOLEAN
  /\ edad \in 0 .. DEBOUNCE_MS
  /\ nivel \in BOOLEAN /\ dedo \in BOOLEAN
  /\ asentado \in 0 .. Largo /\ espera \in 0 .. Lazo
  /\ eventos \in 0 .. 1
  /\ pulsada \in BOOLEAN /\ suelto \in BOOLEAN

(* One press gives at most one event (ui.c:229-237), however the switch    *)
(* bounces and whenever the loop comes round to look at it, and without a  *)
(* press there is none.                                                    *)
UnaPorPulsacion == eventos <= IF pulsada THEN 1 ELSE 0

(* A press that is held for the debounce time and two turns of the loop is *)
(* noticed, if the release before it had been.                             *)
PulsacionAtendida ==
  dedo /\ suelto /\ asentado >= Rebote + DEBOUNCE_MS + 2 * Lazo => eventos = 1

(* An event is followed by at least one call without: the calls have to    *)
(* see the release for the debounce time first.  The panel relies on it to *)
(* show a screen before the OK that answers it.                            *)
NoSeguidos == [][boton_evento /\ evento => ~evento']_vars

-----------------------------------------------------------------------------
(* The inductive invariant of the proofs.                                  *)

(* A switch that has settled shows where the finger is, and before the     *)
(* first press everything reads released.                                  *)
NivelInv ==
  /\ asentado >= Rebote => (nivel <=> ~dedo)
  /\ ~pulsada => ~dedo /\ nivel /\ lectura /\ estable /\ asentado >= Rebote

(* After the event of a press a second one needs the release to be confirm-*)
(* ed and then undone; but a reading that changed since the finger last    *)
(* moved is not old enough while the switch bounces.                       *)
UnaInv ==
  /\ eventos = 0 \/ pulsada
  /\ evento => ~estable
  /\ eventos = 1 /\ dedo => ~estable /\ (~lectura \/ edad <= asentado)
  /\ eventos = 1 /\ ~dedo /\ estable => lectura \/ edad <= asentado

(* How long a press can last unnoticed: until a call sees it, and then     *)
(* until the first call after the debounce time.                           *)
AtendidaInv ==
  dedo /\ suelto /\ eventos = 0 =>
    /\ estable
    /\ lectura => asentado <= Rebote + espera
    /\ ~lectura /\ edad < DEBOUNCE_MS => asentado <= Rebote + Lazo + edad
    /\ ~lectura /\ edad = DEBOUNCE_MS =>
         asentado <= Rebote + Lazo + DEBOUNCE_MS + espera - 1

BotonInv == TypeOK /\ NivelInv /\ UnaInv /\ AtendidaInv

=============================================================================
