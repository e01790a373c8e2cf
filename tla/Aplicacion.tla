----------------------------- MODULE Aplicacion -----------------------------
(***************************************************************************)
(* The Flutter application (apptaller1/lib) and what the firmware does with *)
(* its requests, over the link that Enlace promises.                       *)
(*                                                                         *)
(* The home screen shows a summary of the interval; the screen Configurar  *)
(* returns a result to it.  Every button may be pressed again while its    *)
(* request is waiting; a request that waits for 5 s ends in an error, but  *)
(* stays on its way.  An answer is used only while the screen that asked   *)
(* for it is still there (mounted).  Time is left out: the 5 s may be over  *)
(* before, during or after the firmware's work, and the hour of a dispense *)
(* may come whenever one is pending.                                       *)
(***************************************************************************)
EXTENDS Enlace, FiniteSets, Sequences

CONSTANTS
  Tiempos,      \* the hours and minutes typed in as an interval
  Horas,        \* the times typed in for a single dispense
  U8MAX,        \* largest value the firmware takes (255)
  HMAX, MMAX,   \* the largest hour and minute (23 and 59)
  MaxPedidos,   \* bound: requests sent
  MaxVisitas,   \* bound: times Configurar is opened
  MaxAjenos     \* bound: requests spoiled and changes made at the panel, together

Cero == <<0, 0>>

ASSUME AplicacionAssumption ==
  /\ Tiempos \subseteq Nat \X Nat /\ Cero \in Tiempos /\ Horas \subseteq Nat \X Nat
  /\ {U8MAX, HMAX, MMAX, MaxPedidos, MaxVisitas, MaxAjenos} \subseteq Nat

VARIABLES
  \* the app
  pagina,       \* the visit to Configurar that is open, 0 on the home screen
  visitas,      \* visits so far
  resumen,      \* the interval of _resumenIntervalo; Cero: "Sin programacion"
  pedidos,      \* the requests sent: [que, val, visita]
  suerte,       \* of each: "espera", "ok" or "error"
  respuestas,   \* connections whose 200 OK is on its way
  \* the firmware
  cada,         \* the interval in force, Cero if none
  cita,         \* the dispense at a time that is pending, if any
  \* history
  toques,       \* presses that ask for a portion, now or at a time
  servidas,     \* portions served for them
  manual,       \* times the panel changed something
  pisada,       \* what it changed since the firmware last took it from the app:
                \* "cada", "cita" or both
  al_dia        \* the newest request for an interval was answered and used

app == <<pagina, visitas, resumen, pedidos, suerte, respuestas>>
firmware == <<cada, cita>>
historia == <<toques, servidas, manual, pisada, al_dia>>
vars == <<enlace, app, firmware, historia>>

-----------------------------------------------------------------------------
(* The app *)

(* http.get *)
Pide(que, val) ==
  /\ enviados < MaxPedidos
  /\ Enviar
  /\ pedidos' = Append(pedidos, [que |-> que, val |-> val, visita |-> pagina])
  /\ suerte' = Append(suerte, "espera")
  /\ UNCHANGED <<pagina, visitas, resumen, respuestas, firmware, servidas, manual,
                 pisada>>

dispensarAhora ==
  /\ pagina = 0
  /\ Pide("dispensar", Cero)
  /\ toques' = toques + 1
  /\ UNCHANGED al_dia

AbrirConfigurar ==
  /\ pagina = 0 /\ visitas < MaxVisitas
  /\ visitas' = visitas + 1 /\ pagina' = visitas'
  /\ UNCHANGED <<enlace, resumen, pedidos, suerte, respuestas, firmware,
                 historia>>

Volver ==
  /\ pagina # 0 /\ pagina' = 0
  /\ UNCHANGED <<enlace, visitas, resumen, pedidos, suerte, respuestas, firmware,
                 historia>>

(* Navigator.pop with its result, and what the home screen makes of it.    *)
Pop(nuevo) == pagina' = 0 /\ resumen' = nuevo

(* 0 and 0 only cancel on the screen. *)
confirmarPeriodico(t) ==
  /\ pagina # 0
  /\ IF t = Cero
     THEN /\ Pop(Cero)
          /\ UNCHANGED <<enlace, visitas, pedidos, suerte, respuestas, firmware,
                         servidas, manual, pisada>>
     ELSE Pide("cada", t)
  /\ al_dia' = FALSE
  /\ UNCHANGED toques

cancelarPeriodico ==
  /\ pagina # 0
  /\ Pide("cada", Cero)
  /\ al_dia' = FALSE
  /\ UNCHANGED toques

confirmarUnico(t) ==
  /\ pagina # 0
  /\ Pide("programar", t)
  /\ toques' = toques + 1
  /\ UNCHANGED al_dia

(* Sends /programar?hora=0&min=0: to the firmware, a dispense at midnight.  *)
cancelarUnico ==
  /\ pagina # 0
  /\ Pide("cancelar_unico", Cero)
  /\ toques' = toques + 1
  /\ UNCHANGED al_dia

\* Mutant: an answer is used although its screen is gone.
Montada_siempre(r) == pedidos[r].visita # 0

Montada(r) == pedidos[r].visita # 0 /\ pedidos[r].visita = pagina

DeCita(p) == p.que \in {"programar", "cancelar_unico"}

(* r is the newest request for an interval, or about a dispense at a time. *)
UltimoCada(r) ==
  /\ pedidos[r].que = "cada"
  /\ \A s \in r + 1 .. enviados : pedidos[s].que # "cada"
UltimaCita(r) ==
  /\ DeCita(pedidos[r])
  /\ \A s \in r + 1 .. enviados : ~DeCita(pedidos[s])

\* Mutant: the range of a value is not looked at.
Cabe_todo(t) == TRUE

Cabe(t) == t[1] <= U8MAX /\ t[2] <= U8MAX

(* respuesta.statusCode == 200.  The result of a dispense at a time carries *)
(* no interval and leaves the summary alone; a cancelled one clears it.    *)
Respuesta(r) ==
  /\ r \in respuestas
  /\ suerte' = [suerte EXCEPT ![r] = "ok"]
  /\ respuestas' = respuestas \ {r}
  /\ IF Montada(r)
     THEN CASE pedidos[r].que = "cada" ->
                 /\ Pop(pedidos[r].val)
                 /\ al_dia' = IF UltimoCada(r)
                              THEN Cabe(pedidos[r].val) /\ "cada" \notin pisada
                              ELSE al_dia
            [] pedidos[r].que = "programar" -> Pop(resumen) /\ UNCHANGED al_dia
            [] pedidos[r].que = "cancelar_unico" -> Pop(Cero) /\ al_dia' = FALSE
     ELSE UNCHANGED <<pagina, resumen, al_dia>>
  /\ UNCHANGED <<enlace, visitas, pedidos, firmware, toques, servidas, manual,
                 pisada>>

\* Mutant: a dispense that timed out is asked for again.
Vence_reintenta(r) ==
  /\ suerte[r] = "espera" /\ enviados < MaxPedidos
  /\ Enviar
  /\ pedidos' = Append(pedidos, pedidos[r])
  /\ suerte' = Append([suerte EXCEPT ![r] = "error"], "espera")
  /\ respuestas' = respuestas \ {r}
  /\ UNCHANGED <<pagina, visitas, resumen, firmware, historia>>

(* .timeout(5 s), or no connection: the error is shown, nothing is undone,  *)
(* and an answer that comes later is not looked at.                        *)
Vence(r) ==
  /\ suerte[r] = "espera"
  /\ suerte' = [suerte EXCEPT ![r] = "error"]
  /\ respuestas' = respuestas \ {r}
  /\ UNCHANGED <<enlace, pagina, visitas, resumen, pedidos, firmware,
                 historia>>

-----------------------------------------------------------------------------
(* The firmware *)

Menor(a, b) == IF a <= b THEN a ELSE b

(* api_programar_una_vez cuts the hour to 23 and the minute to 59.         *)
Recorta(t) == <<Menor(t[1], HMAX), Menor(t[2], MMAX)>>

PideCada(p) == p.que = "cada" /\ Cabe(p.val)
PideCita(p) == DeCita(p) /\ Cabe(p.val)
Porciones(p) == IF p.que = "dispensar" THEN 1 ELSE 0

\* Mutant: a dispense that is pending is not replaced.
Efecto_ocupado(p) ==
  /\ cada' = IF PideCada(p) THEN p.val ELSE cada
  /\ cita' = IF PideCita(p) /\ cita = {} THEN {Recorta(p.val)} ELSE cita
  /\ servidas' = servidas + Porciones(p)
  /\ pisada' = {x \in pisada : ~(x = "cada" /\ PideCada(p)) /\ ~(x = "cita" /\ PideCita(p))}

(* What esp_handler does for an event: a value that does not fit in 8 bits  *)
(* is a missing parameter, and changes nothing.                            *)
Efecto(p) ==
  /\ cada' = IF PideCada(p) THEN p.val ELSE cada
  /\ cita' = IF PideCita(p) THEN {Recorta(p.val)} ELSE cita
  /\ servidas' = servidas + Porciones(p)
  /\ pisada' = {x \in pisada : ~(x = "cada" /\ PideCada(p)) /\ ~(x = "cita" /\ PideCita(p))}

esp_handler(e) ==
  /\ Atender(e)
  /\ Efecto(pedidos[e.r])
  /\ UNCHANGED <<app, toques, manual, al_dia>>

(* esp_send_http_ok, which may not get its prompt, and esp_close_conn. *)
esp_send_http_ok ==
  /\ Terminar
  /\ \/ UNCHANGED respuestas
     \/ suerte[curso.conn] = "espera" /\ respuestas' = respuestas \cup {curso.conn}
  /\ UNCHANGED <<pagina, visitas, resumen, pedidos, suerte, firmware, historia>>

(* The hour of the pending dispense: it is served, and is over.            *)
scheduler_check ==
  /\ curso = Libre /\ cita # {}
  /\ cita' = {} /\ servidas' = servidas + 1
  /\ UNCHANGED <<enlace, app, cada, toques, manual, pisada, al_dia>>

Ajenos == manual + Cardinality(rotos)

(* The panel, between two requests (loop_ui handles one thing at a time).  *)
Panel(que) ==
  /\ curso = Libre
  /\ Ajenos < MaxAjenos /\ manual' = manual + 1
  /\ pisada' = pisada \cup {que}
  /\ UNCHANGED <<enlace, app, servidas>>

cada_confirmar(t) ==
  /\ Panel("cada")
  /\ cada' = t /\ al_dia' = FALSE
  /\ UNCHANGED <<cita, toques>>

disp_enx_confirmar(t) ==
  /\ Panel("cita")
  /\ cita' = {t} /\ toques' = toques + 1
  /\ UNCHANGED <<cada, al_dia>>

(* A request loses bytes on its way. *)
Perder(r) ==
  /\ r > ultimo.r /\ r \notin rotos /\ Ajenos < MaxAjenos
  /\ Estropear(r)
  /\ UNCHANGED <<app, firmware, historia>>

(* What the panel and the firmware hold. *)
Intervalos == {t \in Tiempos : Cabe(t)}
Citas == {Recorta(t) : t \in Horas \cup {Cero}}

-----------------------------------------------------------------------------
Init ==
  /\ EnlaceInit
  /\ pagina = 0 /\ visitas = 0 /\ resumen = Cero
  /\ pedidos = <<>> /\ suerte = <<>> /\ respuestas = {}
  /\ cada = Cero /\ cita = {}
  /\ toques = 0 /\ servidas = 0 /\ manual = 0 /\ pisada = {}
  /\ al_dia = FALSE

App ==
  \/ dispensarAhora \/ AbrirConfigurar \/ Volver
  \/ cancelarPeriodico \/ cancelarUnico
  \/ \E t \in Tiempos : confirmarPeriodico(t)
  \/ \E t \in Horas : confirmarUnico(t)
  \/ \E r \in 1 .. enviados : Respuesta(r) \/ Vence(r)

Firmware ==
  \/ \E e \in Sucesos : esp_handler(e)
  \/ esp_send_http_ok \/ scheduler_check
  \/ \E t \in Intervalos : cada_confirmar(t)
  \/ \E t \in Citas : disp_enx_confirmar(t)

Next == App \/ Firmware \/ \E r \in 1 .. enviados : Perder(r)

Spec == Init /\ [][Next]_vars

-----------------------------------------------------------------------------
(* Properties *)

Pedido == [que : {"dispensar", "cada", "programar", "cancelar_unico"},
           val : Tiempos \cup Horas, visita : Nat]

TypeApp == pagina \in 0 .. visitas /\ visitas \in 0 .. MaxVisitas /\ resumen \in Tiempos

TypePedidos ==
  /\ enviados = Len(pedidos) /\ enviados = Len(suerte)
  /\ pedidos \in Seq(Pedido) /\ suerte \in Seq({"espera", "ok", "error"})
  /\ respuestas \subseteq {r \in 1 .. enviados : suerte[r] = "espera"}

TypeFirmware ==
  /\ cada \in Tiempos \cap ((0 .. U8MAX) \X (0 .. U8MAX))
  /\ cita \subseteq (0 .. HMAX) \X (0 .. MMAX)
  /\ \A t, u \in cita : t = u

TypeHistoria ==
  /\ toques \in Nat /\ servidas \in Nat /\ manual \in Nat
  /\ pisada \subseteq {"cada", "cita"} /\ al_dia \in BOOLEAN

(* Type invariant: an interval and a time that the firmware can hold, one   *)
(* of each at most, and answers only for requests that wait for theirs.    *)
TypeOK == TypeApp /\ TypePedidos /\ TypeFirmware /\ TypeHistoria

(* The portions served are at most the presses that ask for one, now or at *)
(* a time, in the app or on the panel: nothing is asked for again when a   *)
(* request times out (dispenser_service.dart:12-20), one that is repeated  *)
(* replaces the pending one or, when that was just served, is a press of   *)
(* its own (ui.c:455-464), and the midnight that a cancellation leaves is  *)
(* one portion for that press (configurar_horario.dart:128-134).           *)
UnaPorToque == servidas <= toques

(* When the newest request for an interval was answered to the screen that *)
(* made it, the home screen shows the interval in force, in spite of older *)
(* requests that timed out, were left behind or are answered late          *)
(* (configurar_horario.dart:47-61, home_screen.dart:98-127).  It rests on   *)
(* the order of the link and on `mounted'; the requests are whole.         *)
ResumenFiel == al_dia /\ rotos = {} => resumen = cada

(* When the newest request about the dispense at a time was answered and    *)
(* the panel has not set one since, no other hour is pending: an older one *)
(* is not served any more, and after "cancelar" (configurar_horario.dart:   *)
(* 128-143) only the midnight it schedules is left.  The requests are whole.*)
CitaFiel ==
  \A r \in 1 .. enviados :
    /\ UltimaCita(r) /\ suerte[r] = "ok" /\ Cabe(pedidos[r].val)
    /\ rotos = {} /\ "cita" \notin pisada
    => cita \subseteq {Recorta(pedidos[r].val)}

(* home_screen.dart:114 "Si ambos son 0, tambien consideramos sin          *)
(* programacion": when the summary is cleared there is no interval.        *)
CeroEsApagado == [][ (resumen # Cero /\ resumen' = Cero) => cada = Cero ]_vars

=============================================================================
