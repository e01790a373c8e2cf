---------------------------- MODULE Panel_proof ----------------------------
(* Proofs about Panel: its types, that the display is never wrong, and     *)
(* that an OK answers a screen that was shown, for every length of the day *)
(* and the hour, every portion and every request of the app.               *)
EXTENDS Panel, TLAPS

-----------------------------------------------------------------------------
(* The editors stay in their ranges. *)

LEMMA RecortaRango ==
  ASSUME NEW x \in Nat, NEW tope \in Nat
  PROVE  Recorta(x, tope) \in 0 .. tope
BY DEF Recorta

LEMMA GiraRango ==
  ASSUME NEW mod \in Nat \ {0}, NEW x \in 0 .. mod - 1, NEW evs
  PROVE  Gira(x, evs, mod) \in 0 .. mod - 1
BY DEF Gira

LEMMA MueveRango ==
  ASSUME NEW max \in Nat, max <= U8MAX, NEW x \in U8, NEW evs
  PROVE  Mueve(x, evs, max) \in U8
BY PanelAssumption DEF Mueve, U8

LEMMA PorcionRango ==
  ASSUME porcion_g \in PORCION_MIN_G .. PORCION_MAX_G, NEW evs
  PROVE  Porcion(evs) \in PORCION_MIN_G .. PORCION_MAX_G
BY PanelAssumption DEF Porcion

LEMMA MenuRango ==
  ASSUME menu_sel \in 0 .. ITEM_COUNT - 1, NEW evs
  PROVE  MenuSel(evs) \in 0 .. ITEM_COUNT - 1
BY DEF MenuSel, ITEM_COUNT

(* Without Up and Down an editor leaves its value alone. *)
LEMMA Quieto ==
  ASSUME NEW evs, ~Arrastra(evs), NEW x, NEW n
  PROVE  Gira(x, evs, n) = x /\ Mueve(x, evs, n) = x
BY DEF Arrastra, Gira, Mueve

LEMMA PorcionQuieta ==
  ASSUME NEW evs, ~Arrastra(evs)
  PROVE  Porcion(evs) = porcion_g
BY DEF Arrastra, Porcion

-----------------------------------------------------------------------------
(* The display *)

LEMMA DibujoQue == \A e : Dibujo(e).que = e
BY DEF Dibujo

(* A screen is drawn in the same way while its values are the same. *)
LEMMA DibujoIgual ==
  ASSUME UNCHANGED <<disp_edit, cada, porcion_g, menu_sel>>
  PROVE  \A e : Dibujo(e)' = Dibujo(e)
BY DEF Dibujo

(* After ON ENTER the display is right about the screen. *)
LEMMA VistaAlDia ==
  ASSUME PantallaAlDia
  PROVE  Vista = Aviso \/ Vista = Dibujo(estado)
BY DEF PantallaAlDia, Vista, EsAviso

LEMMA VistaQue ==
  ASSUME TypeOK
  PROVE  Vista.que \in Estados \cup {"aviso"}
BY DibujoQue DEF Vista, TypeOK

-----------------------------------------------------------------------------
(* Types *)

LEMMA TiposInit == Init => TypeOK
<1> SUFFICES ASSUME Init
             PROVE  TypeOK
  OBVIOUS
<1> USE PanelAssumption DEF Init, Horas, Minutos, U8
<1>1. HPD \div 2 \in Horas
  OBVIOUS
<1>2. disp_edit \in Horas \X Minutos /\ disp_prog \in Horas \X Minutos
  BY <1>1
<1>3. cada \in U8 \X U8
  OBVIOUS
<1>4. estado \in Estados
  BY DEF Estados, EnReposo
<1>5. pantalla.que \in Estados \cup {"aviso"}
  BY DEF Aviso
<1>6. menu_sel \in 0 .. ITEM_COUNT - 1 /\ menu_sel_prev \in -1 .. ITEM_COUNT - 1
  BY DEF ITEM_COUNT
<1> QED BY <1>2, <1>3, <1>4, <1>5, <1>6 DEF TypeOK

(* The requests of the app. *)
LEMMA TiposEsp == TypeOK /\ Esp => TypeOK'
<1> SUFFICES ASSUME TypeOK, Esp
             PROVE  TypeOK'
  OBVIOUS
<1> USE DEF TypeOK, Fase, menu
<1>1. CASE esp_nada
  BY <1>1 DEF esp_nada
<1>2. CASE esp_aviso
  BY <1>2 DEF esp_aviso, Aviso
<1>3. ASSUME NEW p \in Pedidos, api_programar_una_vez(p[1], p[2])
      PROVE  TypeOK'
  <2>1. p[1] \in Nat /\ p[2] \in Nat
    BY PanelAssumption DEF U8
  <2>2. /\ Recorta(p[1], HPD - 1) \in Horas
        /\ Recorta(p[2], MPH - 1) \in Minutos
    <3>1. HPD - 1 \in Nat /\ MPH - 1 \in Nat
      BY PanelAssumption
    <3> QED BY <2>1, <3>1, RecortaRango DEF Horas, Minutos
  <2> QED BY <1>3, <2>2 DEF api_programar_una_vez, Aviso
<1>4. ASSUME NEW p \in Pedidos, api_cada_intervalo(p[1], p[2])
      PROVE  TypeOK'
  <2>1. p[1] \in U8 /\ p[2] \in U8
    BY PanelAssumption
  <2>2. cada_activo' \in BOOLEAN
    BY <1>4, Zenon DEF api_cada_intervalo, cada_set_intervalo
  <2>3. cada' \in U8 \X U8
    BY <1>4, <2>1 DEF api_cada_intervalo, cada_set_intervalo
  <2> QED BY <1>4, <2>2, <2>3 DEF api_cada_intervalo, Aviso
<1> QED BY <1>1, <1>2, <1>3, <1>4 DEF Esp

LEMMA TiposSched == TypeOK /\ Sched => TypeOK'
<1> SUFFICES ASSUME TypeOK, Sched
             PROVE  TypeOK'
  OBVIOUS
<1> USE DEF TypeOK, Fase, menu
<1>1. CASE sched_nada
  BY <1>1 DEF sched_nada
<1>2. CASE sched_disparar
  <2>1. disp_prog_activo' \in BOOLEAN
    BY <1>2 DEF sched_disparar
  <2> QED BY <1>2, <2>1 DEF sched_disparar, Aviso
<1> QED BY <1>1, <1>2 DEF Sched

-----------------------------------------------------------------------------
(* The other two phases of the loop put a notice over what they change.    *)

LEMMA AlDiaFuera ==
  ASSUME PanelInv, Esp \/ Sched
  PROVE  PantallaAlDia' /\ VistoInv'
<1>1. UNCHANGED <<estado, estado_prev, menu_sel, menu_sel_prev, botones,
                  disp_edit, porcion_g>>
  BY DEF Esp, Sched, esp_nada, esp_aviso, api_programar_una_vez, api_cada_intervalo,
         sched_nada, sched_disparar, Fase, menu
<1>2. VistoInv'
  BY <1>1 DEF PanelInv, VistoInv
<1>3. CASE pantalla' = Aviso
  BY <1>2, <1>3 DEF PantallaAlDia, EsAviso, Aviso
<1>4. CASE UNCHANGED <<pantalla, cada>>
  <2>1. \A e : Dibujo(e)' = Dibujo(e)
    BY <1>1, <1>4, DibujoIgual
  <2> QED BY <1>1, <1>2, <1>4, <2>1 DEF PanelInv, PantallaAlDia, EsAviso, Aviso
<1>5. pantalla' = Aviso \/ UNCHANGED <<pantalla, cada>>
  BY DEF Esp, Sched, esp_nada, esp_aviso, api_programar_una_vez, api_cada_intervalo,
         sched_nada, sched_disparar
<1> QED BY <1>3, <1>4, <1>5

-----------------------------------------------------------------------------
(* The display after a step of a screen *)

(* A screen that changes none of the values it shows. *)
LEMMA Fija ==
  ASSUME PanelInv, estado_prev' = estado,
         UNCHANGED <<disp_edit, cada, porcion_g, menu_sel>>,
         pantalla' = Vista \/ pantalla' = Aviso \/ pantalla' = Dibujo(estado)
  PROVE  PantallaAlDia' /\ pantalla'.que \in Estados \cup {"aviso"}
<1>1. \A e : Dibujo(e)' = Dibujo(e)
  BY DibujoIgual
<1>2. pantalla' = Aviso \/ pantalla' = Dibujo(estado)
  BY VistaAlDia DEF PanelInv
<1>3. pantalla'.que \in Estados \cup {"aviso"}
  BY <1>2, DibujoQue DEF PanelInv, TypeOK, Aviso
<1>4. CASE estado' = estado
  BY <1>1, <1>2, <1>3, <1>4 DEF PantallaAlDia, EsAviso, Aviso
<1> QED BY <1>3, <1>4 DEF PantallaAlDia

(* An editor, which draws its screen again when a button changes the value. *)
LEMMA Edita ==
  ASSUME PanelInv, NEW e, NEW evs, estado = e, estado_prev' = e,
         pantalla' = IF Arrastra(evs) THEN Dibujo(e)' ELSE Vista,
         ~Arrastra(evs) => UNCHANGED <<disp_edit, cada, porcion_g, menu_sel>>
  PROVE  PantallaAlDia' /\ pantalla'.que \in Estados \cup {"aviso"}
<1>1. CASE Arrastra(evs)
  <2>1. Dibujo(e)'.que = e
    BY DEF Dibujo
  <2>2. pantalla' = Dibujo(e)'
    BY <1>1
  <2>3. estado' = estado_prev' => pantalla' = Dibujo(estado)'
    BY <2>2
  <2> QED BY <2>1, <2>2, <2>3 DEF PanelInv, TypeOK, PantallaAlDia, EsAviso
<1>2. CASE ~Arrastra(evs)
  BY <1>2, Fija
<1> QED BY <1>1, <1>2

-----------------------------------------------------------------------------
(* One step of every screen *)

LEMMA QuietasInv ==
  ASSUME PanelInv, NEW evs \in Eventos, NEW inactivo \in BOOLEAN, NEW refresca \in BOOLEAN,
         \/ inicio(evs, inactivo)
         \/ pantalla_hora(evs, refresca)
         \/ opcion_dispensar(evs)
         \/ opcion_disp_cada_x(evs)
  PROVE  PanelInv'
<1> USE DEF PanelInv, Turno, Elige, menu, valores
<1>1. /\ estado_prev' = estado /\ botones' = evs /\ pc' = "esp"
      /\ UNCHANGED <<menu, valores, porcion_antes>>
      /\ pantalla' = Vista \/ pantalla' = Aviso \/ pantalla' = Dibujo(estado)
  BY DEF inicio, pantalla_hora, opcion_dispensar, opcion_disp_cada_x
<1>2. PantallaAlDia' /\ pantalla'.que \in Estados \cup {"aviso"}
  BY <1>1, Fija
<1>3. /\ estado' \in {"INICIO", "PANTALLA_HORA", "MENU", "OPCION_DISPENSAR",
                      "OPCION_DISP_CADA_X", "CADA_SET_HORA"}
      /\ estado' = "OPCION_DISPENSAR" => estado = "OPCION_DISPENSAR"
      /\ estado # "MENU"
  BY DEF inicio, pantalla_hora, opcion_dispensar, opcion_disp_cada_x
<1>4. estado' \in Estados
  BY <1>3 DEF Estados, EnReposo, EditaCada
<1>5. TypeOK'
  BY <1>1, <1>2, <1>4 DEF TypeOK, Eventos
<1>6. VistoInv'
  BY <1>1, <1>3 DEF VistoInv, Decide
<1> QED BY <1>2, <1>5, <1>6

LEMMA MenuInv ==
  ASSUME PanelInv, NEW evs \in Eventos, NEW inactivo \in BOOLEAN, NEW refresca \in BOOLEAN,
         menu_elegir(evs, inactivo, refresca)
  PROVE  PanelInv'
<1> USE DEF PanelInv, Turno, menu, valores
<1>1. /\ estado = "MENU" /\ estado_prev' = "MENU" /\ botones' = evs /\ pc' = "esp"
      /\ UNCHANGED <<disp_edit, disp_prog_activo, disp_prog, cada_activo, cada,
                     porcion_g, porcion_antes>>
  BY DEF menu_elegir
<1>2. MenuSelPrev = menu_sel
  BY <1>1 DEF VistoInv, MenuSelPrev
<1>3. CASE inactivo
  <2>1. /\ estado' = "PANTALLA_HORA" /\ pantalla' = Vista
        /\ menu_sel' = menu_sel /\ menu_sel_prev' = menu_sel
    BY <1>2, <1>3 DEF menu_elegir
  <2>2. PantallaAlDia' /\ pantalla'.que \in Estados \cup {"aviso"}
    BY <1>1, <2>1, Fija
  <2>3. TypeOK'
    BY <1>1, <2>1, <2>2 DEF TypeOK, Eventos, Estados, EnReposo, ITEM_COUNT
  <2>4. VistoInv'
    BY <2>1 DEF VistoInv, Decide
  <2> QED BY <2>2, <2>3, <2>4
<1>4. CASE ~inactivo
  <2>1. /\ menu_sel' = MenuSel(evs) /\ menu_sel_prev' = menu_sel'
        /\ estado' = IF "ok" \in evs THEN OpcionDe[menu_sel'] ELSE "MENU"
        /\ pantalla' = IF refresca \/ menu_sel' # menu_sel
                       THEN Dibujo("MENU")' ELSE Vista
    BY <1>2, <1>4 DEF menu_elegir
  <2>2. menu_sel' \in 0 .. ITEM_COUNT - 1
    BY <2>1, MenuRango DEF TypeOK
  <2>3. OpcionDe[menu_sel'] \in {"OPCION_DISPENSAR", "OPCION_DISP_EN_X",
                                 "OPCION_DISP_CADA_X", "OPCION_ELEGIR_PORCION"}
    BY <2>2 DEF OpcionDe, ITEM_COUNT
  <2>4. estado' \in Estados
    BY <2>1, <2>3 DEF Estados, EnReposo, EditaPorcion
  <2>5. PantallaAlDia' /\ pantalla'.que \in Estados \cup {"aviso"}
    <3>1. CASE refresca \/ menu_sel' # menu_sel
      <4>1. Dibujo("MENU")'.que = "MENU"
        BY DEF Dibujo
      <4>2. pantalla' = Dibujo("MENU")'
        BY <2>1, <3>1
      <4>3. estado' = estado_prev' => pantalla' = Dibujo(estado)'
        BY <1>1, <4>2
      <4> QED BY <4>1, <4>2, <4>3 DEF PantallaAlDia, EsAviso, Estados, EnReposo
    <3>2. CASE ~(refresca \/ menu_sel' # menu_sel)
      BY <1>1, <2>1, <3>2, Fija
    <3> QED BY <3>1, <3>2
  <2>6. TypeOK'
    BY <1>1, <2>1, <2>2, <2>4, <2>5 DEF TypeOK, Eventos, Estados, EnReposo, ITEM_COUNT
  <2>7. VistoInv'
    BY <1>1, <2>1, <2>3 DEF VistoInv
  <2> QED BY <2>5, <2>6, <2>7
<1> QED BY <1>3, <1>4

(* The present time or the pending request is taken to the editor. *)
LEMMA DispEnXInv ==
  ASSUME PanelInv, NEW evs \in Eventos, NEW ahora \in Horas \X Minutos,
         opcion_disp_en_x(evs, ahora)
  PROVE  PanelInv'
<1> USE DEF PanelInv, Turno, Elige, menu, valores
<1>1. /\ estado = "OPCION_DISP_EN_X" /\ estado_prev' = estado
      /\ botones' = evs /\ pc' = "esp" /\ pantalla' = Vista
      /\ UNCHANGED <<menu_sel, menu_sel_prev, disp_prog_activo, disp_prog, cada_activo,
                     cada, porcion_g, porcion_antes>>
      /\ estado' \in {"DISP_ENX_SET_HORA", "MENU", "OPCION_DISP_EN_X"}
  BY DEF opcion_disp_en_x
<1>2. disp_edit' \in Horas \X Minutos
  BY DEF opcion_disp_en_x, TypeOK
<1>3. Dibujo("OPCION_DISP_EN_X")' = Dibujo("OPCION_DISP_EN_X")
  BY DEF Dibujo, EditaHora, EditaCada, EditaPorcion
<1>4. pantalla' = Aviso \/ pantalla' = Dibujo("OPCION_DISP_EN_X")
  BY <1>1, VistaAlDia
<1>5. estado' = estado_prev' => pantalla' = Aviso \/ pantalla' = Dibujo(estado)'
  BY <1>1, <1>3, <1>4
<1>6. PantallaAlDia'
  BY <1>5 DEF PantallaAlDia, EsAviso, Aviso
<1>7. pantalla'.que \in Estados \cup {"aviso"}
  BY <1>1, <1>4, DibujoQue DEF TypeOK, Aviso
<1>8. estado' \in Estados
  BY <1>1 DEF Estados, EditaHora, EnReposo
<1>9. TypeOK'
  BY <1>1, <1>2, <1>7, <1>8 DEF TypeOK, Eventos
<1>10. VistoInv'
  BY <1>1 DEF VistoInv, Decide
<1> QED BY <1>6, <1>9, <1>10

(* An editor e, which OK leaves for the screen sig. *)
LEMMA EditorInv ==
  ASSUME PanelInv, NEW e \in Estados, NEW sig \in Estados, NEW evs \in Eventos,
         Turno(e, evs), e # "MENU",
         estado' = IF "ok" \in evs THEN sig ELSE e,
         pantalla' = IF Arrastra(evs) THEN Dibujo(e)' ELSE Vista,
         UNCHANGED <<menu, disp_prog_activo, disp_prog, cada_activo, porcion_antes>>,
         disp_edit' \in Horas \X Minutos, cada' \in U8 \X U8,
         porcion_g' \in PORCION_MIN_G .. PORCION_MAX_G,
         ~Arrastra(evs) => UNCHANGED <<disp_edit, cada, porcion_g>>
  PROVE  PanelInv'
<1> USE DEF PanelInv, Turno, menu
<1>1. PantallaAlDia' /\ pantalla'.que \in Estados \cup {"aviso"}
  BY Edita
<1>2. TypeOK'
  BY <1>1 DEF TypeOK, Eventos
<1>3. VistoInv'
  BY DEF VistoInv
<1> QED BY <1>1, <1>2, <1>3

LEMMA EditoresInv ==
  ASSUME PanelInv, NEW evs \in Eventos,
         \/ disp_enx_set_hora(evs) \/ disp_enx_set_min(evs)
         \/ cada_set_hora(evs) \/ cada_set_min(evs)
         \/ elegir_gramos_porcion(evs)
  PROVE  PanelInv'
<1> USE DEF PanelInv
<1>1. HPD \in Nat \ {0} /\ MPH \in Nat \ {0} /\ HPD - 1 \in Nat /\ MPH - 1 \in Nat
      /\ HPD - 1 <= U8MAX /\ MPH - 1 <= U8MAX
  BY PanelAssumption
<1>2. /\ disp_edit \in Horas \X Minutos /\ cada \in U8 \X U8
      /\ porcion_g \in PORCION_MIN_G .. PORCION_MAX_G
      /\ disp_edit = <<disp_edit[1], disp_edit[2]>>
      /\ cada = <<cada[1], cada[2]>>
  BY DEF TypeOK
<1>3. CASE disp_enx_set_hora(evs)
  <2>1. Gira(disp_edit[1], evs, HPD) \in Horas
    BY <1>1, <1>2, GiraRango DEF Horas
  <2>2. disp_edit' \in Horas \X Minutos
    BY <1>2, <1>3, <2>1 DEF disp_enx_set_hora
  <2>3. ~Arrastra(evs) => disp_edit' = disp_edit
    BY <1>2, <1>3, Quieto DEF disp_enx_set_hora
  <2>4. "DISP_ENX_SET_HORA" \in Estados /\ "DISP_ENX_SET_MIN" \in Estados
    BY DEF Estados, EditaHora
  <2> QED BY <1>2, <1>3, <2>2, <2>3, <2>4, EditorInv DEF disp_enx_set_hora
<1>4. CASE disp_enx_set_min(evs)
  <2>1. Gira(disp_edit[2], evs, MPH) \in Minutos
    BY <1>1, <1>2, GiraRango DEF Minutos
  <2>2. disp_edit' \in Horas \X Minutos
    BY <1>2, <1>4, <2>1 DEF disp_enx_set_min
  <2>3. ~Arrastra(evs) => disp_edit' = disp_edit
    BY <1>2, <1>4, Quieto DEF disp_enx_set_min
  <2>4. "DISP_ENX_SET_MIN" \in Estados /\ "DISP_ENX_CONFIRMAR" \in Estados
    BY DEF Estados, EditaHora
  <2> QED BY <1>2, <1>4, <2>2, <2>3, <2>4, EditorInv DEF disp_enx_set_min
<1>5. CASE cada_set_hora(evs)
  <2>1. Mueve(cada[1], evs, HPD - 1) \in U8
    BY <1>1, <1>2, MueveRango
  <2>2. cada' \in U8 \X U8
    BY <1>2, <1>5, <2>1 DEF cada_set_hora
  <2>3. ~Arrastra(evs) => cada' = cada
    BY <1>2, <1>5, Quieto DEF cada_set_hora
  <2>4. "CADA_SET_HORA" \in Estados /\ "CADA_SET_MIN" \in Estados
    BY DEF Estados, EditaCada
  <2> QED BY <1>2, <1>5, <2>2, <2>3, <2>4, EditorInv DEF cada_set_hora
<1>6. CASE cada_set_min(evs)
  <2>1. Mueve(cada[2], evs, MPH - 1) \in U8
    BY <1>1, <1>2, MueveRango
  <2>2. cada' \in U8 \X U8
    BY <1>2, <1>6, <2>1 DEF cada_set_min
  <2>3. ~Arrastra(evs) => cada' = cada
    BY <1>2, <1>6, Quieto DEF cada_set_min
  <2>4. "CADA_SET_MIN" \in Estados /\ "CADA_CONFIRMAR" \in Estados
    BY DEF Estados, EditaCada
  <2> QED BY <1>2, <1>6, <2>2, <2>3, <2>4, EditorInv DEF cada_set_min
<1>7. CASE elegir_gramos_porcion(evs)
  <2>1. porcion_g' \in PORCION_MIN_G .. PORCION_MAX_G
    BY <1>2, <1>7, PorcionRango DEF elegir_gramos_porcion
  <2>2. ~Arrastra(evs) => porcion_g' = porcion_g
    BY <1>7, PorcionQuieta DEF elegir_gramos_porcion
  <2>3. "ELEGIR_GRAMOS_PORCION" \in Estados /\ "CONFIRMAR_GRAMOS_PORCION" \in Estados
    BY DEF Estados, EditaPorcion
  <2> QED BY <1>2, <1>7, <2>1, <2>2, <2>3, EditorInv DEF elegir_gramos_porcion
<1> QED BY <1>3, <1>4, <1>5, <1>6, <1>7

(* The confirmations, and the choice of the portion, whose old value is    *)
(* history.                                                                *)
LEMMA ConfirmacionesInv ==
  ASSUME PanelInv, NEW evs \in Eventos,
         \/ disp_enx_confirmar(evs) \/ cada_confirmar(evs)
         \/ opcion_elegir_porcion(evs) \/ confirmar_gramos_porcion(evs)
  PROVE  PanelInv'
<1> USE DEF PanelInv, Turno, menu, valores
<1>1. /\ estado_prev' = estado /\ estado # "MENU" /\ botones' = evs /\ pc' = "esp"
      /\ UNCHANGED <<menu_sel, menu_sel_prev, disp_edit, porcion_g>>
      /\ pantalla' = Vista \/ pantalla' = Aviso
  BY DEF disp_enx_confirmar, cada_confirmar, opcion_elegir_porcion,
         confirmar_gramos_porcion
<1>2. cada \in U8 \X U8 /\ cada = <<cada[1], cada[2]>>
  BY DEF TypeOK
<1>3. cada' = cada
  BY <1>2 DEF disp_enx_confirmar, cada_confirmar, cada_set_intervalo,
              opcion_elegir_porcion, confirmar_gramos_porcion
<1>4. PantallaAlDia' /\ pantalla'.que \in Estados \cup {"aviso"}
  BY <1>1, <1>3, Fija
<1>5. disp_prog' \in Horas \X Minutos
  BY DEF disp_enx_confirmar, cada_confirmar, opcion_elegir_porcion,
         confirmar_gramos_porcion, TypeOK
<1>6. disp_prog_activo' \in BOOLEAN
  BY Zenon DEF disp_enx_confirmar, cada_confirmar, opcion_elegir_porcion,
         confirmar_gramos_porcion, TypeOK
<1>7. cada_activo' \in BOOLEAN
  BY Zenon DEF disp_enx_confirmar, cada_confirmar, cada_set_intervalo,
         opcion_elegir_porcion, confirmar_gramos_porcion, TypeOK
<1>8. porcion_antes' \in PORCION_MIN_G .. PORCION_MAX_G
  BY DEF disp_enx_confirmar, cada_confirmar, opcion_elegir_porcion,
         confirmar_gramos_porcion, TypeOK
<1>9. /\ estado' \in {"MENU", estado, "DISP_ENX_SET_HORA", "CADA_SET_HORA",
                      "ELEGIR_GRAMOS_PORCION"}
  BY DEF disp_enx_confirmar, cada_confirmar, opcion_elegir_porcion,
         confirmar_gramos_porcion, Confirma, Elige
<1>10. estado' \in Estados
  BY <1>9 DEF TypeOK, Estados, EnReposo, EditaHora, EditaCada, EditaPorcion
<1>11. TypeOK'
  BY <1>1, <1>3, <1>4, <1>5, <1>6, <1>7, <1>8, <1>10 DEF TypeOK, Eventos
<1>12. VistoInv'
  BY <1>1, <1>9 DEF VistoInv, Decide
<1> QED BY <1>4, <1>11, <1>12

-----------------------------------------------------------------------------
(* Theorems *)

LEMMA InitInv == Init => PanelInv
BY TiposInit DEF Init, PanelInv, PantallaAlDia, VistoInv, Decide

LEMMA UiInv == PanelInv /\ Ui => PanelInv'
<1> SUFFICES ASSUME PanelInv, Ui
             PROVE  PanelInv'
  OBVIOUS
<1>1. PICK evs \in Eventos :
        \/ \E inactivo, refresca \in BOOLEAN : Reposo(evs, inactivo, refresca)
        \/ opcion_dispensar(evs)
        \/ \E ahora \in Horas \X Minutos : opcion_disp_en_x(evs, ahora)
        \/ disp_enx_set_hora(evs) \/ disp_enx_set_min(evs)
        \/ disp_enx_confirmar(evs)
        \/ opcion_disp_cada_x(evs)
        \/ cada_set_hora(evs) \/ cada_set_min(evs)
        \/ cada_confirmar(evs)
        \/ opcion_elegir_porcion(evs) \/ elegir_gramos_porcion(evs)
        \/ confirmar_gramos_porcion(evs)
  BY Zenon DEF Ui
<1>2. ASSUME NEW inactivo \in BOOLEAN, NEW refresca \in BOOLEAN,
             Reposo(evs, inactivo, refresca)
      PROVE  PanelInv'
  BY <1>2, QuietasInv, MenuInv DEF Reposo
<1>3. CASE opcion_dispensar(evs) \/ opcion_disp_cada_x(evs)
  BY <1>3, QuietasInv
<1>4. ASSUME NEW ahora \in Horas \X Minutos, opcion_disp_en_x(evs, ahora)
      PROVE  PanelInv'
  BY <1>4, DispEnXInv
<1> QED BY <1>1, <1>2, <1>3, <1>4, EditoresInv, ConfirmacionesInv

LEMMA NextInv == PanelInv /\ [Next]_vars => PanelInv'
<1> SUFFICES ASSUME PanelInv, [Next]_vars
             PROVE  PanelInv'
  OBVIOUS
<1>1. CASE Esp
  BY <1>1, TiposEsp, AlDiaFuera DEF PanelInv
<1>2. CASE Sched
  BY <1>2, TiposSched, AlDiaFuera DEF PanelInv
<1>3. CASE Ui
  BY <1>3, UiInv
<1>4. CASE UNCHANGED vars
  <2>1. \A e : Dibujo(e)' = Dibujo(e)
    BY <1>4, DibujoIgual DEF vars, valores, menu
  <2> QED BY <1>4, <2>1 DEF vars, valores, menu, PanelInv, TypeOK, PantallaAlDia,
             VistoInv, EsAviso, Aviso
<1> QED BY <1>1, <1>2, <1>3, <1>4 DEF Next

(* The values the panel edits stay in their ranges, whatever the order of  *)
(* the buttons, the requests of the app and the dispenses.                 *)
THEOREM Tipos == Spec => []TypeOK
<1>1. PanelInv => TypeOK
  BY DEF PanelInv
<1> QED BY InitInv, NextInv, <1>1, PTL DEF Spec

(* The display is never wrong about the screen and the values it shows: a  *)
(* change by another phase of the loop always leaves a notice on it.       *)
THEOREM SiempreAlDia == Spec => []PantallaAlDia
<1>1. PanelInv => PantallaAlDia
  BY DEF PanelInv
<1> QED BY InitInv, NextInv, <1>1, PTL DEF Spec

(* An OK that dispenses or saves answers a screen drawn by an earlier      *)
(* iteration.  From VistoInv: a screen that decides is entered with OK,    *)
(* and boton_evento does not report the same OK twice in a row.            *)
THEOREM SoloLoVisto == Spec => ConfirmaLoVisto
<1> DEFINE Paso == (pc = "ui" /\ estado \in Decide /\ "ok" \in botones') =>
                     /\ estado_prev = estado
                     /\ EsAviso \/ pantalla = Dibujo(estado)
<1>1. PanelInv /\ [Next]_vars => [Paso]_vars
  <2> SUFFICES ASSUME PanelInv, Next, pc = "ui", estado \in Decide, "ok" \in botones'
               PROVE  estado_prev = estado /\ (EsAviso \/ pantalla = Dibujo(estado))
    OBVIOUS
  <2>1. "ok" \notin botones
    BY DEF Next, Esp, Sched, esp_nada, esp_aviso, api_programar_una_vez,
           api_cada_intervalo, sched_nada, sched_disparar, Fase, Ui, Eventos, Reposo,
           inicio, pantalla_hora, menu_elegir, opcion_dispensar, opcion_disp_en_x,
           disp_enx_set_hora, disp_enx_set_min, disp_enx_confirmar, opcion_disp_cada_x,
           cada_set_hora, cada_set_min, cada_confirmar, opcion_elegir_porcion,
           elegir_gramos_porcion, confirmar_gramos_porcion, Turno
  <2> QED BY <2>1 DEF PanelInv, VistoInv, PantallaAlDia
<1> QED BY InitInv, NextInv, <1>1, PTL DEF Spec, ConfirmaLoVisto

=============================================================================
