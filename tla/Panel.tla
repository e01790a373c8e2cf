------------------------------- MODULE Panel -------------------------------
(***************************************************************************)
(* The panel: the machine of screens of loop_ui (ui/src/ui.c), the values  *)
(* it edits and what the display shows, together with the notices that the *)
(* requests of the app and the scheduler draw over it.                     *)
(*                                                                         *)
(* An iteration of the loop is three steps: esp_handler, scheduler_check,  *)
(* and the buttons with the screen they act on.  The display is the screen *)
(* drawn last and the values drawn with it; texts are left out.  When the  *)
(* scheduler fires is left open here: Programador models it.               *)
(***************************************************************************)
EXTENDS Integers

CONSTANTS
  HPD, MPH,             \* 24 and 60
  U8MAX,                \* 255
  PORCION_MIN_G, PORCION_MAX_G, PORCION_STEP_G, PorcionInicial,
  CadaInicial,          \* the initial cada_h, cada_m
  Pedidos               \* the h, m of the requests of the app

Horas   == 0 .. HPD - 1
Minutos == 0 .. MPH - 1
U8      == 0 .. U8MAX

ASSUME PanelAssumption ==
  /\ HPD \in Nat \ {0} /\ MPH \in Nat \ {0}
  /\ U8MAX \in Nat /\ U8MAX >= HPD /\ U8MAX >= MPH
  /\ PORCION_STEP_G \in Nat \ {0} /\ PORCION_MIN_G \in Nat /\ PORCION_MAX_G \in Nat
  /\ PorcionInicial \in PORCION_MIN_G .. PORCION_MAX_G
  /\ CadaInicial \in Horas \X Minutos
  /\ Pedidos \subseteq U8 \X U8

EditaHora    == {"DISP_ENX_SET_HORA", "DISP_ENX_SET_MIN", "DISP_ENX_CONFIRMAR"}
EditaCada    == {"CADA_SET_HORA", "CADA_SET_MIN", "CADA_CONFIRMAR"}
EditaPorcion == {"OPCION_ELEGIR_PORCION", "ELEGIR_GRAMOS_PORCION",
                 "CONFIRMAR_GRAMOS_PORCION"}
EnReposo     == {"INICIO", "PANTALLA_HORA", "MENU"}
Estados == EditaHora \cup EditaCada \cup EditaPorcion \cup EnReposo
             \cup {"OPCION_DISPENSAR", "OPCION_DISP_EN_X", "OPCION_DISP_CADA_X"}

(* The items of the menu, in order, and the screens they lead to.          *)
ITEM_COUNT == 4
OpcionDe == [i \in 0 .. ITEM_COUNT - 1 |->
               CASE i = 0 -> "OPCION_DISPENSAR"   [] i = 1 -> "OPCION_DISP_EN_X"
                 [] i = 2 -> "OPCION_DISP_CADA_X" [] i = 3 -> "OPCION_ELEGIR_PORCION"]

VARIABLES
  pc,                     \* "esp", "sched" or "ui"
  estado, estado_prev,    \* estado_prev is "ninguno" at first
  menu_sel, menu_sel_prev,
  disp_edit,              \* disp_edit_h, disp_edit_m
  disp_prog_activo, disp_prog,   \* disp_prog_hora, disp_prog_min
  cada_activo, cada,      \* cada_h, cada_m
  porcion_g,
  pantalla,               \* the display: [que, val]
  botones,                \* the events of the last iteration
  \* history
  porcion_antes           \* porcion_g when its editing began, or since it ended

valores == <<disp_edit, disp_prog_activo, disp_prog, cada_activo, cada, porcion_g>>
menu == <<menu_sel, menu_sel_prev>>
vars == <<pc, estado, estado_prev, menu, valores, pantalla, botones, porcion_antes>>

-----------------------------------------------------------------------------
(* The display *)

(* What the screen of e shows with the present values (the ON ENTER switch *)
(* and the ui_dibujar functions).                                          *)
Dibujo(e) ==
  [que |-> e,
   val |-> CASE e \in EditaHora    -> disp_edit
             [] e \in EditaCada    -> cada
             [] e \in EditaPorcion -> <<porcion_g>>
             [] e = "MENU"         -> <<menu_sel>>
             [] OTHER              -> <<>>]

(* What a toast or a dispense leaves on the display: ui_pedir_redibujar is *)
(* never set, so nothing draws the screen again.                           *)
Aviso == [que |-> "aviso", val |-> <<>>]

(* ON ENTER *)
Vista == IF estado # estado_prev THEN Dibujo(estado) ELSE pantalla

-----------------------------------------------------------------------------
(* esp_handler and scheduler_check, as far as the panel sees them *)

Recorta(x, tope) == IF x > tope THEN tope ELSE x

Fase(a, b) == pc = a /\ pc' = b /\ UNCHANGED <<estado, estado_prev, menu, botones,
                                               porcion_antes, disp_edit, porcion_g>>

esp_nada ==
  /\ Fase("esp", "sched")
  /\ UNCHANGED <<disp_prog_activo, disp_prog, cada_activo, cada, pantalla>>

(* A ping, an immediate dispense or a request without its parameters.      *)
esp_aviso ==
  /\ Fase("esp", "sched")
  /\ pantalla' = Aviso
  /\ UNCHANGED <<disp_prog_activo, disp_prog, cada_activo, cada>>

api_programar_una_vez(h, m) ==
  /\ Fase("esp", "sched")
  /\ disp_prog' = <<Recorta(h, HPD - 1), Recorta(m, MPH - 1)>>
  /\ disp_prog_activo' = TRUE
  /\ pantalla' = Aviso
  /\ UNCHANGED <<cada_activo, cada>>

cada_set_intervalo(h, m) ==
  IF h = 0 /\ m = 0
  THEN cada_activo' = FALSE /\ UNCHANGED cada
  ELSE cada_activo' = TRUE /\ cada' = <<h, m>>

\* Mutant: the request of the app is not announced.
api_cada_calla(h, m) ==
  /\ Fase("esp", "sched")
  /\ cada_set_intervalo(h, m)
  /\ UNCHANGED <<disp_prog_activo, disp_prog, pantalla>>

api_cada_intervalo(h, m) ==
  /\ Fase("esp", "sched")
  /\ cada_set_intervalo(h, m)
  /\ pantalla' = Aviso
  /\ UNCHANGED <<disp_prog_activo, disp_prog>>

sched_nada ==
  /\ Fase("sched", "ui")
  /\ UNCHANGED <<disp_prog_activo, disp_prog, cada_activo, cada, pantalla>>

(* scheduler_disparar, for the request or for the repetition. *)
sched_disparar ==
  /\ Fase("sched", "ui")
  /\ \/ disp_prog_activo /\ disp_prog_activo' = FALSE
     \/ cada_activo /\ UNCHANGED disp_prog_activo
  /\ pantalla' = Aviso
  /\ UNCHANGED <<disp_prog, cada_activo, cada>>

-----------------------------------------------------------------------------
(* The buttons and the screens *)

\* Mutant: boton_evento reports a button for as long as it is held.
Eventos_todos == SUBSET {"ok", "up", "down"}

(* boton_evento never reports the same button in two calls in a row        *)
(* (Boton!NoSeguidos).                                                     *)
Eventos == {evs \in SUBSET {"ok", "up", "down"} : evs \cap botones = {}}

Turno(e, evs) ==
  /\ pc = "ui" /\ pc' = "esp"
  /\ estado = e /\ estado_prev' = e
  /\ botones' = evs

(* From e with OK to a, otherwise with Down to MENU, otherwise stay. *)
Elige(evs, e, a) ==
  estado' = IF "ok" \in evs THEN a ELSE IF "down" \in evs THEN "MENU" ELSE e

\* Mutant: the welcome screen does not look at the inactivity.
inicio_fijo(evs, inactivo) ==
  /\ Turno("INICIO", evs)
  /\ estado' = IF "ok" \in evs THEN "MENU" ELSE "INICIO"
  /\ pantalla' = Vista
  /\ UNCHANGED <<menu, valores, porcion_antes>>

(* inactivo() is never TRUE in an iteration with an event. *)
inicio(evs, inactivo) ==
  /\ Turno("INICIO", evs)
  /\ estado' = IF inactivo THEN "PANTALLA_HORA"
               ELSE IF "ok" \in evs THEN "MENU" ELSE "INICIO"
  /\ pantalla' = Vista
  /\ UNCHANGED <<menu, valores, porcion_antes>>

pantalla_hora(evs, refresca) ==
  /\ Turno("PANTALLA_HORA", evs)
  /\ estado' = IF "ok" \in evs THEN "MENU"
               ELSE IF evs # {} THEN "INICIO" ELSE "PANTALLA_HORA"
  /\ pantalla' = IF refresca THEN Dibujo("PANTALLA_HORA") ELSE Vista
  /\ UNCHANGED <<menu, valores, porcion_antes>>

MenuSel(evs) ==
  IF "up" \in evs THEN (menu_sel + ITEM_COUNT - 1) % ITEM_COUNT
  ELSE IF "down" \in evs THEN (menu_sel + 1) % ITEM_COUNT ELSE menu_sel

(* ON ENTER leaves menu_sel_prev at menu_sel. *)
MenuSelPrev == IF estado # estado_prev THEN menu_sel ELSE menu_sel_prev

menu_elegir(evs, inactivo, refresca) ==
  /\ Turno("MENU", evs)
  /\ IF inactivo
     THEN /\ estado' = "PANTALLA_HORA"
          /\ menu_sel_prev' = MenuSelPrev
          /\ pantalla' = Vista
          /\ UNCHANGED menu_sel
     ELSE /\ menu_sel' = MenuSel(evs)
          /\ menu_sel_prev' = menu_sel'
          /\ pantalla' = IF refresca \/ menu_sel' # MenuSelPrev
                         THEN Dibujo("MENU")' ELSE Vista
          /\ estado' = IF "ok" \in evs THEN OpcionDe[menu_sel'] ELSE "MENU"
  /\ UNCHANGED <<valores, porcion_antes>>

opcion_dispensar(evs) ==
  /\ Turno("OPCION_DISPENSAR", evs)
  /\ estado' = IF evs \cap {"ok", "down"} # {} THEN "MENU" ELSE "OPCION_DISPENSAR"
  /\ pantalla' = IF "ok" \in evs THEN Aviso ELSE Vista
  /\ UNCHANGED <<menu, valores, porcion_antes>>

(* The pending request, or the present time, is edited in a copy.          *)
opcion_disp_en_x(evs, ahora) ==
  /\ Turno("OPCION_DISP_EN_X", evs)
  /\ Elige(evs, "OPCION_DISP_EN_X", "DISP_ENX_SET_HORA")
  /\ disp_edit' = IF "ok" \notin evs THEN disp_edit
                  ELSE IF disp_prog_activo THEN disp_prog ELSE ahora
  /\ pantalla' = Vista
  /\ UNCHANGED <<menu, disp_prog_activo, disp_prog, cada_activo, cada, porcion_g,
                 porcion_antes>>

(* A digit of the hour, counted modulo. *)
Gira(x, evs, mod) ==
  IF "up" \in evs THEN (x + 1) % mod
  ELSE IF "down" \in evs THEN (x + mod - 1) % mod ELSE x

Arrastra(evs) == evs \cap {"up", "down"} # {}

disp_enx_set_hora(evs) ==
  /\ Turno("DISP_ENX_SET_HORA", evs)
  /\ disp_edit' = <<Gira(disp_edit[1], evs, HPD), disp_edit[2]>>
  /\ pantalla' = IF Arrastra(evs) THEN Dibujo("DISP_ENX_SET_HORA")' ELSE Vista
  /\ estado' = IF "ok" \in evs THEN "DISP_ENX_SET_MIN" ELSE "DISP_ENX_SET_HORA"
  /\ UNCHANGED <<menu, disp_prog_activo, disp_prog, cada_activo, cada, porcion_g,
                 porcion_antes>>

disp_enx_set_min(evs) ==
  /\ Turno("DISP_ENX_SET_MIN", evs)
  /\ disp_edit' = <<disp_edit[1], Gira(disp_edit[2], evs, MPH)>>
  /\ pantalla' = IF Arrastra(evs) THEN Dibujo("DISP_ENX_SET_MIN")' ELSE Vista
  /\ estado' = IF "ok" \in evs THEN "DISP_ENX_CONFIRMAR" ELSE "DISP_ENX_SET_MIN"
  /\ UNCHANGED <<menu, disp_prog_activo, disp_prog, cada_activo, cada, porcion_g,
                 porcion_antes>>

(* OK saves, Up edits again, Down goes back to the menu. *)
Confirma(evs, e, otra) ==
  estado' = IF "ok" \in evs THEN "MENU" ELSE IF "up" \in evs THEN otra
            ELSE IF "down" \in evs THEN "MENU" ELSE e

disp_enx_confirmar(evs) ==
  /\ Turno("DISP_ENX_CONFIRMAR", evs)
  /\ Confirma(evs, "DISP_ENX_CONFIRMAR", "DISP_ENX_SET_HORA")
  /\ IF "ok" \in evs
     THEN disp_prog_activo' = TRUE /\ disp_prog' = disp_edit /\ pantalla' = Aviso
     ELSE pantalla' = Vista /\ UNCHANGED <<disp_prog_activo, disp_prog>>
  /\ UNCHANGED <<menu, disp_edit, cada_activo, cada, porcion_g, porcion_antes>>

opcion_disp_cada_x(evs) ==
  /\ Turno("OPCION_DISP_CADA_X", evs)
  /\ Elige(evs, "OPCION_DISP_CADA_X", "CADA_SET_HORA")
  /\ pantalla' = Vista
  /\ UNCHANGED <<menu, valores, porcion_antes>>

(* A digit of the period, which stops at its ends. *)
\* Mutant: it does not stop at the upper end.
Mueve_sin_tope(x, evs, max) ==
  IF "up" \in evs THEN x + 1
  ELSE IF "down" \in evs /\ x > 0 THEN x - 1 ELSE x

Mueve(x, evs, max) ==
  IF "up" \in evs THEN IF x < max THEN x + 1 ELSE x
  ELSE IF "down" \in evs /\ x > 0 THEN x - 1 ELSE x

cada_set_hora(evs) ==
  /\ Turno("CADA_SET_HORA", evs)
  /\ cada' = <<Mueve(cada[1], evs, HPD - 1), cada[2]>>
  /\ pantalla' = IF Arrastra(evs) THEN Dibujo("CADA_SET_HORA")' ELSE Vista
  /\ estado' = IF "ok" \in evs THEN "CADA_SET_MIN" ELSE "CADA_SET_HORA"
  /\ UNCHANGED <<menu, disp_edit, disp_prog_activo, disp_prog, cada_activo,
                 porcion_g, porcion_antes>>

cada_set_min(evs) ==
  /\ Turno("CADA_SET_MIN", evs)
  /\ cada' = <<cada[1], Mueve(cada[2], evs, MPH - 1)>>
  /\ pantalla' = IF Arrastra(evs) THEN Dibujo("CADA_SET_MIN")' ELSE Vista
  /\ estado' = IF "ok" \in evs THEN "CADA_CONFIRMAR" ELSE "CADA_SET_MIN"
  /\ UNCHANGED <<menu, disp_edit, disp_prog_activo, disp_prog, cada_activo,
                 porcion_g, porcion_antes>>

cada_confirmar(evs) ==
  /\ Turno("CADA_CONFIRMAR", evs)
  /\ Confirma(evs, "CADA_CONFIRMAR", "CADA_SET_HORA")
  /\ IF "ok" \in evs
     THEN cada_set_intervalo(cada[1], cada[2]) /\ pantalla' = Aviso
     ELSE pantalla' = Vista /\ UNCHANGED <<cada_activo, cada>>
  /\ UNCHANGED <<menu, disp_edit, disp_prog_activo, disp_prog, porcion_g,
                 porcion_antes>>

opcion_elegir_porcion(evs) ==
  /\ Turno("OPCION_ELEGIR_PORCION", evs)
  /\ Elige(evs, "OPCION_ELEGIR_PORCION", "ELEGIR_GRAMOS_PORCION")
  /\ pantalla' = Vista
  /\ porcion_antes' = porcion_g
  /\ UNCHANGED <<menu, valores>>

Porcion(evs) ==
  IF "up" \in evs
  THEN IF porcion_g + PORCION_STEP_G <= PORCION_MAX_G
       THEN porcion_g + PORCION_STEP_G ELSE porcion_g
  ELSE IF "down" \in evs /\ porcion_g >= PORCION_MIN_G + PORCION_STEP_G
       THEN porcion_g - PORCION_STEP_G ELSE porcion_g

elegir_gramos_porcion(evs) ==
  /\ Turno("ELEGIR_GRAMOS_PORCION", evs)
  /\ porcion_g' = Porcion(evs)
  /\ pantalla' = IF Arrastra(evs) THEN Dibujo("ELEGIR_GRAMOS_PORCION")' ELSE Vista
  /\ estado' = IF "ok" \in evs THEN "CONFIRMAR_GRAMOS_PORCION"
               ELSE "ELEGIR_GRAMOS_PORCION"
  /\ UNCHANGED <<menu, disp_edit, disp_prog_activo, disp_prog, cada_activo, cada,
                 porcion_antes>>

confirmar_gramos_porcion(evs) ==
  /\ Turno("CONFIRMAR_GRAMOS_PORCION", evs)
  /\ estado' = IF evs \cap {"ok", "down"} # {} THEN "MENU"
               ELSE IF "up" \in evs THEN "ELEGIR_GRAMOS_PORCION"
               ELSE "CONFIRMAR_GRAMOS_PORCION"
  /\ pantalla' = IF "ok" \in evs THEN Aviso ELSE Vista
  /\ porcion_antes' = IF estado' = "MENU" THEN porcion_g ELSE porcion_antes
  /\ UNCHANGED <<menu, valores>>

-----------------------------------------------------------------------------
Init ==
  /\ pc = "esp" /\ estado = "INICIO" /\ estado_prev = "ninguno"
  /\ menu_sel = 0 /\ menu_sel_prev = -1
  /\ disp_edit = <<HPD \div 2, 0>>
  /\ disp_prog_activo = FALSE /\ disp_prog = <<HPD \div 2, 0>>
  /\ cada_activo = FALSE /\ cada = CadaInicial
  /\ porcion_g = PorcionInicial /\ porcion_antes = PorcionInicial
  /\ pantalla = Aviso /\ botones = {}

Esp ==
  \/ esp_nada
  \/ esp_aviso
  \/ \E p \in Pedidos :
       api_programar_una_vez(p[1], p[2]) \/ api_cada_intervalo(p[1], p[2])

Sched == sched_nada \/ sched_disparar

(* The screens on which time alone does something. *)
Reposo(evs, inactivo, refresca) ==
  \/ inicio(evs, inactivo)
  \/ pantalla_hora(evs, refresca)
  \/ menu_elegir(evs, inactivo, refresca)

Ui ==
  \E evs \in Eventos :
    \/ \E inactivo, refresca \in BOOLEAN :
         (inactivo => evs = {}) /\ Reposo(evs, inactivo, refresca)
    \/ opcion_dispensar(evs)
    \/ \E ahora \in Horas \X Minutos : opcion_disp_en_x(evs, ahora)
    \/ disp_enx_set_hora(evs)
    \/ disp_enx_set_min(evs)
    \/ disp_enx_confirmar(evs)
    \/ opcion_disp_cada_x(evs)
    \/ cada_set_hora(evs)
    \/ cada_set_min(evs)
    \/ cada_confirmar(evs)
    \/ opcion_elegir_porcion(evs)
    \/ elegir_gramos_porcion(evs)
    \/ confirmar_gramos_porcion(evs)

Next == Esp \/ Sched \/ Ui

Spec == Init /\ [][Next]_vars

(* The loop never waits for anybody, and time passes: again and again the  *)
(* refresh of the clock is due, and if nobody touches the buttons for long *)
(* enough inactivo() becomes TRUE.                                         *)
Fairness ==
  /\ WF_vars(Next)
  /\ SF_vars(Reposo({}, TRUE, TRUE))

FairSpec == Spec /\ Fairness

-----------------------------------------------------------------------------
(* Properties *)

(* Type invariant.  The editors stay in their ranges: the hour and minute  *)
(* a request is saved with are ones the RTC reaches, and the portion is    *)
(* one of its steps.                                                       *)
TypeOK ==
  /\ pc \in {"esp", "sched", "ui"}
  /\ estado \in Estados /\ estado_prev \in Estados \cup {"ninguno"}
  /\ menu_sel \in 0 .. ITEM_COUNT - 1 /\ menu_sel_prev \in -1 .. ITEM_COUNT - 1
  /\ disp_edit \in Horas \X Minutos /\ disp_prog \in Horas \X Minutos
  /\ cada \in U8 \X U8
  /\ disp_prog_activo \in BOOLEAN /\ cada_activo \in BOOLEAN
  /\ porcion_g \in PORCION_MIN_G .. PORCION_MAX_G
  /\ porcion_antes \in PORCION_MIN_G .. PORCION_MAX_G
  /\ pantalla.que \in Estados \cup {"aviso"}
  /\ botones \subseteq {"ok", "up", "down"}

EsAviso == pantalla = Aviso

(* The display is never wrong about the screen and the values it shows: a  *)
(* value of the screen that is showing is only changed by code that draws  *)
(* it again or that puts a notice over it (the app and the panel share     *)
(* cada_h and cada_m, ui.c:379-380 and 825-847).                           *)
PantallaAlDia == estado = estado_prev => EsAviso \/ pantalla = Dibujo(estado)

(* The screens on which an OK moves food or saves something. *)
Decide == {"OPCION_DISPENSAR", "DISP_ENX_CONFIRMAR", "CADA_CONFIRMAR",
           "CONFIRMAR_GRAMOS_PORCION"}

(* An OK that dispenses or saves answers a screen that was already drawn   *)
(* by an earlier iteration, with the values it acts on, or that a notice   *)
(* covered since: the events are read before ON ENTER draws (ui.c:548-557),*)
(* so this rests on the order of the screens and on boton_evento.          *)
ConfirmaLoVisto ==
  [][ (pc = "ui" /\ estado \in Decide /\ "ok" \in botones') =>
        /\ estado_prev = estado
        /\ EsAviso \/ pantalla = Dibujo(estado) ]_vars

(* On a screen where time alone acts, a notice does not stay for ever: the *)
(* refresh or the inactivity draws over it, or a button is pressed.        *)
AvisoPasa == (EsAviso /\ estado \in EnReposo) ~> (~EsAviso \/ botones # {})

(* ui.c:913 "cancelar" (and the screen, ui.c:365 "Abajo: cancel"): leaving *)
(* the confirmation of the portion with Down keeps the old portion.        *)
CancelarPorcion ==
  [][ (estado = "CONFIRMAR_GRAMOS_PORCION" /\ estado' = "MENU" /\ "ok" \notin botones')
        => porcion_g' = porcion_antes ]_vars

-----------------------------------------------------------------------------
(* The inductive invariant of the proofs. *)

(* A screen that decides is only entered with OK; on the menu the item that *)
(* was drawn last is the selected one.                                     *)
VistoInv ==
  /\ estado \in Decide /\ estado # estado_prev => "ok" \in botones
  /\ estado = "MENU" /\ estado_prev = "MENU" => menu_sel_prev = menu_sel

PanelInv == TypeOK /\ PantallaAlDia /\ VistoInv

=============================================================================
