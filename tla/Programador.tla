---------------------------- MODULE Programador ----------------------------
(***************************************************************************)
(* The dispensing scheduler of ui/src/ui.c inside the main loop of loop_ui *)
(*                                                                         *)
(*    while(1) { esp_handler(); scheduler_check(); <buttons and panel>; }  *)
(*                                                                         *)
(* There is one thread and every operation blocks the loop while it works  *)
(* (toasts, AT commands, the motor).  An action is therefore one phase of  *)
(* the loop: it reads the clocks when it begins and lets them advance by   *)
(* the time it took.  Two clocks are read: the RTC (hour, minute) for the  *)
(* dispense programmed once, and the millisecond counter tickRead() for    *)
(* the dispense repeated every X, whose difference is taken modulo its     *)
(* width and compared with half of a 32 bit counter.                       *)
(*                                                                         *)
(* Time is counted in units; TPM of them make a minute.                    *)
(***************************************************************************)
EXTENDS Integers

CONSTANTS
  HPD,          \* hours per day (24)
  MPH,          \* minutes per hour (60)
  TPM,          \* clock units per minute
  U8MAX,        \* largest uint8_t (255), what a request can carry
  TickMod,      \* the tick counter counts modulo TickMod
  Medio,        \* the literal 0x80000000UL of the comparison
  DEsp, DSched, DUi,  \* longest time each phase of the loop can block it
  MaxSeguidas,  \* bound: requests served back to back, in successive loops
  PedidosCada,  \* the (h, m) periods a client or the panel may ask for
  Encendido     \* what the battery backed RTC may read when the loop begins

(* A minute of the RTC: what api and panel store in disp_prog_hora and     *)
(* disp_prog_min.                                                          *)
Horas   == 0 .. HPD - 1
Minutos == 0 .. MPH - 1
SinMinuto == MPH               \* the initial 255 of ultimo_min: no minute

Relojes == [hour : Horas, min : Minutos, sec : 0 .. TPM - 1]

Vuelta == DEsp + DSched + DUi  \* the longest iteration of the main loop

(* cada_set_intervalo: total_s * 1000 in clock units.                      *)
Intervalo(p) == (p[1] * MPH + p[2]) * TPM
IntervaloMax == (U8MAX * MPH + U8MAX) * TPM

ASSUME RelojAssumption ==
  /\ HPD \in Nat \ {0} /\ MPH \in Nat /\ MPH >= 3 /\ TPM \in Nat \ {0}
  /\ U8MAX \in Nat /\ U8MAX >= HPD - 1 /\ U8MAX >= MPH - 1
  /\ Encendido \subseteq Relojes

(* A loop iteration is shorter than a minute: the longest one adds one     *)
(* dispense of the API, one of the scheduler and one of the panel.         *)
ASSUME VueltaAssumption ==
  /\ DEsp \in Nat \ {0} /\ DSched \in Nat \ {0} /\ DUi \in Nat \ {0}
  /\ Vuelta < TPM

(* The counters are wide enough: 255 h 255 min and the lateness fit in     *)
(* 2^31 ms, and 2^31 ms plus a period in the tick counter.                 *)
ASSUME AnchoAssumption ==
  /\ MaxSeguidas \in Nat \ {0}
  /\ TickMod \in Nat /\ Medio \in Nat
  /\ IntervaloMax + (MaxSeguidas + 1) * Vuelta + TPM < Medio
  /\ Medio + IntervaloMax <= TickMod
  /\ PedidosCada \subseteq (0 .. U8MAX) \X (0 .. U8MAX)

VARIABLES
  pc,                   \* phase of loop_ui: "esp", "sched" or "ui"
  rtc,                  \* the RTC: hour, min, and sec in clock units
  tick,                 \* tickRead()
  disp_prog_activo, disp_prog_ejecutado, disp_prog_hora, disp_prog_min,
  ultimo_min,           \* the static local of scheduler_check
  cada_activo, cada_interval_ms, cada_proximo_ms,
  \* history, read by the properties and by the bound only
  seguidas,   \* scheduled dispenses since the periodic branch was reached
  firme,      \* the request was already pending when this minute began
  suprimida,  \* confirmed on the panel for this very minute
  repetida    \* a scheduled dispense was already served in this minute

prog == <<disp_prog_activo, disp_prog_ejecutado, disp_prog_hora, disp_prog_min>>
cada == <<cada_activo, cada_interval_ms, cada_proximo_ms>>
historia == <<firme, suprimida, repetida>>
vars == <<pc, rtc, tick, prog, ultimo_min, cada, seguidas, historia>>

-----------------------------------------------------------------------------
(* Clocks *)

\* Mutant: the counter stays at its top instead of wrapping around.
Suma_satura(a, b) == IF a + b < TickMod THEN a + b ELSE TickMod - 1

Suma(a, b)  == IF a + b < TickMod THEN a + b ELSE a + b - TickMod
Resta(a, b) == IF a >= b THEN a - b ELSE a - b + TickMod

(* The minute after the one r is in. *)
MinSig(r)  == IF r.min + 1 < MPH THEN r.min + 1 ELSE 0
HoraSig(r) == IF r.min + 1 < MPH THEN r.hour
              ELSE IF r.hour + 1 < HPD THEN r.hour + 1 ELSE 0

CambiaMinuto(r, d) == r.sec + d >= TPM

Avanza(r, d) ==
  IF CambiaMinuto(r, d)
  THEN [hour |-> HoraSig(r), min |-> MinSig(r), sec |-> r.sec + d - TPM]
  ELSE [r EXCEPT !.sec = r.sec + d]

(* A phase that took d units, in a state where the pending request was     *)
(* kept (sigue) or was set, replaced or served by the phase itself.  A new  *)
(* minute finds the request that is pending once the phase ends.           *)
Pasa(d, sigue, sup, rep) ==
  /\ rtc' = Avanza(rtc, d)
  /\ tick' = Suma(tick, d)
  /\ firme' = IF CambiaMinuto(rtc, d) THEN disp_prog_activo' ELSE sigue /\ firme
  /\ suprimida' = (~CambiaMinuto(rtc, d) /\ sup)
  /\ repetida' = (~CambiaMinuto(rtc, d) /\ rep)

-----------------------------------------------------------------------------
(* esp_handler *)

\* Mutant: h and m are not clamped.
Recorta_nada(x, tope) == x

Recorta(x, tope) == IF x > tope THEN tope ELSE x

(* No event, a ping, an immediate dispense, or a request without the       *)
(* parameters: the scheduler's state does not change, time passes.         *)
esp_otro ==
  /\ pc = "esp" /\ pc' = "sched"
  /\ UNCHANGED <<prog, ultimo_min, cada, seguidas>>
  /\ \E d \in 0 .. DEsp : Pasa(d, TRUE, suprimida, repetida)

api_programar_una_vez(h, m) ==
  /\ pc = "esp" /\ pc' = "sched"
  /\ seguidas < MaxSeguidas
  /\ disp_prog_hora' = Recorta(h, HPD - 1)
  /\ disp_prog_min' = Recorta(m, MPH - 1)
  /\ disp_prog_activo' = TRUE
  /\ disp_prog_ejecutado' = FALSE
  /\ UNCHANGED <<ultimo_min, cada, seguidas>>
  /\ \E d \in 0 .. DEsp : Pasa(d, FALSE, FALSE, repetida)

\* Mutant: the next instant is left at its old value.
cada_set_viejo(p) ==
  IF p = <<0, 0>>
  THEN cada_activo' = FALSE /\ UNCHANGED <<cada_interval_ms, cada_proximo_ms>>
  ELSE /\ cada_interval_ms' = Intervalo(p)
       /\ cada_proximo_ms' = cada_proximo_ms
       /\ cada_activo' = TRUE

cada_set_intervalo(p) ==
  IF p = <<0, 0>>
  THEN cada_activo' = FALSE /\ UNCHANGED <<cada_interval_ms, cada_proximo_ms>>
  ELSE /\ cada_interval_ms' = Intervalo(p)
       /\ cada_proximo_ms' = Suma(tick, Intervalo(p))
       /\ cada_activo' = TRUE

api_cada_intervalo(p) ==
  /\ pc = "esp" /\ pc' = "sched"
  /\ cada_set_intervalo(p)
  /\ UNCHANGED <<prog, ultimo_min, seguidas>>
  /\ \E d \in 0 .. DEsp : Pasa(d, TRUE, suprimida, repetida)

-----------------------------------------------------------------------------
(* scheduler_check: the flags are refreshed first, whatever it does next   *)

UltimoMin == IF disp_prog_activo THEN rtc.min ELSE ultimo_min

\* Mutants: the flag is never cleared; ultimo_min is compared with the hour.
Ejecutado_fijo == disp_prog_ejecutado
Ejecutado_hora ==
  disp_prog_ejecutado /\ ~(disp_prog_activo /\ rtc.hour # ultimo_min)

Ejecutado ==
  disp_prog_ejecutado /\ ~(disp_prog_activo /\ rtc.min # ultimo_min)

\* Mutant: the hour is not compared.
EnSuMinuto_min == rtc.min = disp_prog_min

EnSuMinuto == rtc.hour = disp_prog_hora /\ rtc.min = disp_prog_min

CorrespondeProg == disp_prog_activo /\ ~Ejecutado /\ EnSuMinuto

(* (tick_t)(ahora - proximo) < (tick_t)0x80000000UL *)
Vencido(ahora, proximo) == Resta(ahora, proximo) < Medio

CorrespondeAuto ==
  /\ cada_activo
  /\ cada_interval_ms > 0
  /\ Vencido(tick, cada_proximo_ms)

(* Where the do { proximo += interval } while(vencido) leaves proximo: the *)
(* first instant of its grid after ahora.                                  *)
\* Mutant: the period starts again when the dispense ends.
Siguiente_deriva(ahora, proximo, interval) == Suma(ahora, interval)

Siguiente(ahora, proximo, interval) ==
  Suma(ahora, interval - (Resta(ahora, proximo) % interval))

sched_programado ==
  /\ pc = "sched" /\ pc' = "ui"
  /\ CorrespondeProg
  /\ ultimo_min' = UltimoMin
  /\ disp_prog_ejecutado' = TRUE
  /\ disp_prog_activo' = FALSE
  /\ seguidas' = seguidas + 1
  /\ UNCHANGED <<disp_prog_hora, disp_prog_min, cada>>
  /\ \E d \in 0 .. DSched : Pasa(d, FALSE, FALSE, TRUE)

sched_auto ==
  /\ pc = "sched" /\ pc' = "ui"
  /\ ~CorrespondeProg /\ CorrespondeAuto
  /\ ultimo_min' = UltimoMin
  /\ disp_prog_ejecutado' = Ejecutado
  /\ seguidas' = 0
  /\ UNCHANGED <<disp_prog_activo, disp_prog_hora, disp_prog_min>>
  /\ UNCHANGED <<cada_activo, cada_interval_ms>>
  /\ \E d \in 0 .. DSched : Pasa(d, TRUE, suprimida, repetida)
  /\ cada_proximo_ms' = Siguiente(tick', cada_proximo_ms, cada_interval_ms)

sched_nada ==
  /\ pc = "sched" /\ pc' = "ui"
  /\ ~CorrespondeProg /\ ~CorrespondeAuto
  /\ ultimo_min' = UltimoMin
  /\ disp_prog_ejecutado' = Ejecutado
  /\ seguidas' = 0
  /\ UNCHANGED <<disp_prog_activo, disp_prog_hora, disp_prog_min, cada>>
  /\ \E d \in 0 .. DSched : Pasa(d, TRUE, suprimida, repetida)

-----------------------------------------------------------------------------
(* The panel phase, as far as it touches the scheduler *)

ui_otro ==
  /\ pc = "ui" /\ pc' = "esp"
  /\ UNCHANGED <<prog, ultimo_min, cada, seguidas>>
  /\ \E d \in 0 .. DUi : Pasa(d, TRUE, suprimida, repetida)

(* DISP_ENX_CONFIRMAR with OK: h:m come from the editor.                   *)
\* Mutant: disp_prog_ejecutado is not set for a request for now.
ui_confirma_ya(h, m) ==
  LET ahora == rtc.hour = h /\ rtc.min = m IN
  /\ pc = "ui" /\ pc' = "esp"
  /\ seguidas < MaxSeguidas
  /\ disp_prog_hora' = h
  /\ disp_prog_min' = m
  /\ disp_prog_activo' = TRUE
  /\ disp_prog_ejecutado' = FALSE
  /\ UNCHANGED <<ultimo_min, cada, seguidas>>
  /\ \E d \in 0 .. DUi : Pasa(d, FALSE, ahora, repetida)

ui_confirma_hora(h, m) ==
  LET ahora == rtc.hour = h /\ rtc.min = m IN
  /\ pc = "ui" /\ pc' = "esp"
  /\ seguidas < MaxSeguidas
  /\ disp_prog_hora' = h
  /\ disp_prog_min' = m
  /\ disp_prog_activo' = TRUE
  /\ disp_prog_ejecutado' = ahora
  /\ UNCHANGED <<ultimo_min, cada, seguidas>>
  /\ \E d \in 0 .. DUi : Pasa(d, FALSE, ahora, repetida)

(* CADA_CONFIRMAR with OK. *)
ui_confirma_cada(p) ==
  /\ pc = "ui" /\ pc' = "esp"
  /\ cada_set_intervalo(p)
  /\ UNCHANGED <<prog, ultimo_min, seguidas>>
  /\ \E d \in 0 .. DUi : Pasa(d, TRUE, suprimida, repetida)

-----------------------------------------------------------------------------
Init ==
  /\ pc = "esp"
  /\ rtc \in Encendido
  /\ tick = 0
  /\ disp_prog_activo = FALSE /\ disp_prog_ejecutado = FALSE
  /\ disp_prog_hora = HPD \div 2 /\ disp_prog_min = 0
  /\ ultimo_min = SinMinuto
  /\ cada_activo = FALSE /\ cada_interval_ms = 0 /\ cada_proximo_ms = 0
  /\ seguidas = 0
  /\ firme = FALSE /\ suprimida = FALSE /\ repetida = FALSE

Esp ==
  \/ esp_otro
  \/ \E h, m \in 0 .. U8MAX : api_programar_una_vez(h, m)
  \/ \E p \in PedidosCada : api_cada_intervalo(p)

scheduler_check == sched_programado \/ sched_auto \/ sched_nada

Ui ==
  \/ ui_otro
  \/ \E h \in Horas, m \in Minutos : ui_confirma_hora(h, m)
  \/ \E p \in PedidosCada : ui_confirma_cada(p)

Next == Esp \/ scheduler_check \/ Ui

Spec == Init /\ [][Next]_vars

(* loop_ui never waits for anybody, and the counter behind tickRead() is   *)
(* advanced by a timer interrupt: the loop goes on and time passes in it.  *)
Fairness == WF_vars(Next /\ tick' # tick)

FairSpec == Spec /\ Fairness

-----------------------------------------------------------------------------
(* Properties *)

Fases == {"esp", "sched", "ui"}

(* Type invariant. *)
TypeOK ==
  /\ pc \in Fases
  /\ rtc \in Relojes
  /\ tick \in 0 .. TickMod - 1
  /\ disp_prog_activo \in BOOLEAN /\ disp_prog_ejecutado \in BOOLEAN
  /\ disp_prog_hora \in Horas /\ disp_prog_min \in Minutos
  /\ ultimo_min \in Minutos \cup {SinMinuto}
  /\ cada_activo \in BOOLEAN
  /\ cada_interval_ms \in 0 .. IntervaloMax
  /\ cada_proximo_ms \in 0 .. TickMod - 1
  /\ seguidas \in 0 .. MaxSeguidas
  /\ firme \in BOOLEAN /\ suprimida \in BOOLEAN /\ repetida \in BOOLEAN

(* How late the periodic dispense can be found in each phase: it is served *)
(* by the first scheduler_check that does not return early for a scheduled *)
(* dispense.                                                               *)
AtrasoMax ==
  seguidas * Vuelta + CASE pc = "ui"    -> DSched
                        [] pc = "esp"   -> DSched + DUi
                        [] pc = "sched" -> Vuelta

(* The next periodic dispense is either at most one period ahead or late by *)
(* less than the bound.  In particular the modular difference never falls  *)
(* in the half that the comparison of scheduler_check (ui.c:439) takes for *)
(* the future when the instant is past, so the repetition cannot die out.  *)
AtrasoAcotado ==
  cada_activo =>
    \/ Resta(cada_proximo_ms, tick) \in 1 .. cada_interval_ms
    \/ Resta(tick, cada_proximo_ms) <= AtrasoMax

(* The request that is pending when its minute begins is served inside that *)
(* minute: the clock does not leave the minute without serving it, however *)
(* long the toasts, the AT commands and the other dispenses block the loop *)
(* (ui.c:409-431), and whatever ultimo_min and disp_prog_ejecutado were    *)
(* left at by earlier requests.                                            *)
NuncaSeSaltea ==
  [][ (/\ <<rtc'.hour, rtc'.min>> # <<rtc.hour, rtc.min>>
       /\ disp_prog_activo /\ firme /\ EnSuMinuto)
      => ~disp_prog_activo' ]_vars

(* A scheduled dispense is the step that clears disp_prog_activo. *)
Sirve == disp_prog_activo /\ ~disp_prog_activo'

(* Confirming on the panel, in the minute in which a scheduled dispense was *)
(* already served, the same hour again does not serve it twice: here the   *)
(* suppression of ui.c:798 does last until the minute changes.             *)
NoRepiteDesdeElPanel == [][Sirve => ~(suprimida /\ repetida)]_vars

(* ui.c:794 "Evitar disparo instantaneo si lo programas para ahora", 798   *)
(* "se libera cuando cambie el minuto": a request confirmed on the panel   *)
(* for the current minute is not served in that minute.                    *)
EvitarDisparoInstantaneo == [][Sirve => ~suprimida]_vars

(* An automatic dispense leaves the next one on the grid of its period,    *)
(* where the do-while of ui.c:444-446 stops: every skipped instant was     *)
(* already past when the dispense ended, and the next one is in the future.*)
SinDeriva ==
  [][ (cada_activo /\ pc = "sched" /\ cada_proximo_ms' # cada_proximo_ms) =>
      \E k \in 1 .. Vuelta * (MaxSeguidas + 1) + 1 :
        /\ cada_proximo_ms' = (cada_proximo_ms + k * cada_interval_ms) % TickMod
        /\ ~Vencido(tick', cada_proximo_ms')
        /\ \A j \in 1 .. k - 1 :
             Vencido(tick', (cada_proximo_ms + j * cada_interval_ms) % TickMod)
    ]_vars

(* Every request is eventually served, unless it is replaced by another.   *)
ProgramadoSeSirve ==
  \A h \in Horas, m \in Minutos :
    (disp_prog_activo /\ disp_prog_hora = h /\ disp_prog_min = m)
      ~> ~(disp_prog_activo /\ disp_prog_hora = h /\ disp_prog_min = m)

(* The repetition never dies out: while it is on, its next instant moves   *)
(* on again and again, however the instants fall between two iterations.   *)
AutoNoSeDetiene ==
  []<><<~cada_activo \/ cada_proximo_ms' # cada_proximo_ms>>_vars

-----------------------------------------------------------------------------
(* The inductive invariant of the proofs.                                  *)

(* A request that waits leaves room for its dispense in the bound. *)
PedidoCabe == disp_prog_activo => seguidas < MaxSeguidas

(* How far into a minute each phase can be, at its beginning, before the   *)
(* first scheduler_check of that minute.                                   *)
Cota == CASE pc = "ui"    -> DSched
          [] pc = "esp"   -> DSched + DUi
          [] pc = "sched" -> Vuelta

(* The check comes soon enough in the minute of a request that waited.     *)
FirmeATiempo ==
  /\ firme => disp_prog_activo
  /\ firme /\ EnSuMinuto => rtc.sec < Cota

Pedido  == [hour |-> disp_prog_hora, min |-> disp_prog_min]
Pedido1 == [hour |-> HoraSig(Pedido), min |-> MinSig(Pedido)]
Pedido2 == [hour |-> HoraSig(Pedido1), min |-> MinSig(Pedido1)]
En(p) == rtc.hour = p.hour /\ rtc.min = p.min

(* A stale disp_prog_ejecutado (set by the panel for "now") does not live   *)
(* until the request's minute comes again: ultimo_min may happen to equal  *)
(* the minute after it, so the flag can survive that minute, but no more.  *)
EjecutadoCaduca ==
  disp_prog_activo /\ disp_prog_ejecutado =>
    \/ En(Pedido) /\ ~firme
    \/ En(Pedido1) /\ (ultimo_min = rtc.min \/ rtc.sec < Cota)
    \/ En(Pedido2) /\ ultimo_min = Pedido1.min /\ rtc.sec < Cota

(* In the minute of a served request ultimo_min is that minute, and a      *)
(* confirmation for it keeps disp_prog_ejecutado set.                      *)
RepetidaSuprimida ==
  /\ repetida => ultimo_min = rtc.min
  /\ suprimida /\ repetida => disp_prog_ejecutado

(* A repetition is never shorter than a minute (cada_set_intervalo). *)
IntervaloVale == cada_activo => cada_interval_ms >= TPM

ProgInv == TypeOK /\ PedidoCabe /\ FirmeATiempo /\ EjecutadoCaduca /\ RepetidaSuprimida
CadaInv == IntervaloVale /\ AtrasoAcotado

-----------------------------------------------------------------------------
(* The dispense at time X implements Agenda.                               *)

Ahora == <<rtc.hour, rtc.min>>
Sigue(a, b) ==
  \E r \in Relojes : a = <<r.hour, r.min>> /\ b = <<HoraSig(r), MinSig(r)>>

A == INSTANCE Agenda WITH
       Instantes <- Horas \X Minutos,
       Despues   <- Sigue,
       Nada      <- <<>>,
       ahora     <- Ahora,
       pendiente <- IF disp_prog_activo
                    THEN <<disp_prog_hora, disp_prog_min>> ELSE <<>>,
       firme     <- firme

(* Each step of the loop is a step of Agenda or leaves it as it is, so that *)
(* disp_prog_activo, disp_prog_ejecutado and ultimo_min together serve a   *)
(* request once, in its minute, and never skip it (ui.c:409-431, 455-463,  *)
(* 786-799).                                                               *)
CumpleAgenda == A!AgendaSpec

=============================================================================
