-------------------------- MODULE Aplicacion_proof --------------------------
(***************************************************************************)
(* What Aplicacion promises, for every number of requests, visits and      *)
(* changes, every interval and every time.  The invariants keep what the   *)
(* properties forget: which requests the firmware has taken, that an       *)
(* answered one is among them, that the visits of the requests only grow,  *)
(* and which portions are still to come.                                   *)
(***************************************************************************)
EXTENDS Aplicacion, FiniteSetTheorems, TLAPS

(* The link: the last event, and the one that is handled, are of requests   *)
(* that were sent, and a connection is not answered for an older request.  *)
EnlaceInv ==
  /\ rotos \subseteq 1 .. enviados
  /\ ultimo \in [r : 0 .. enviados, conn : 0 .. enviados]
  /\ ultimo.conn <= ultimo.r
  /\ rotos = {} => ultimo.conn = ultimo.r
  /\ curso = Libre \/ (curso = ultimo /\ ultimo.conn # 0)

(* The requests: only a dispense is asked for on the home screen, and a    *)
(* newer request is not from an older visit.                               *)
PedidosInv ==
  /\ pagina \in {0, visitas}
  /\ \A r \in 1 .. enviados :
       /\ pedidos[r].que = "dispensar" <=> pedidos[r].visita = 0
       /\ pedidos[r].que # "programar" => pedidos[r].val \in Tiempos
       /\ pedidos[r].visita <= visitas
  /\ \A r, s \in 1 .. enviados :
       r < s /\ pedidos[s].visita # 0 => pedidos[r].visita <= pedidos[s].visita

(* The requests whose handling is over or under way, all taken.            *)
Contestada(r) == r \in respuestas \/ suerte[r] = "ok" \/ r = curso.conn

ContestadasInv == \A r \in 1 .. enviados : Contestada(r) => r <= ultimo.r

(* What the firmware holds is what the newest answered request asked for.  *)
CadaInv ==
  \A r \in 1 .. enviados :
    /\ UltimoCada(r) /\ Contestada(r) /\ Cabe(pedidos[r].val)
    /\ rotos = {} /\ "cada" \notin pisada
    => cada = pedidos[r].val

CitaInv ==
  \A r \in 1 .. enviados :
    /\ UltimaCita(r) /\ Contestada(r) /\ Cabe(pedidos[r].val)
    /\ rotos = {} /\ "cita" \notin pisada
    => cita \subseteq {Recorta(pedidos[r].val)}

(* While the summary is known to be of the newest request, that request's  *)
(* visit is over.                                                          *)
AlDiaInv ==
  al_dia =>
    /\ "cada" \notin pisada
    /\ \E r \in 1 .. enviados :
         /\ UltimoCada(r) /\ suerte[r] = "ok" /\ Cabe(pedidos[r].val)
         /\ resumen = pedidos[r].val
         /\ pagina = 0 \/ pagina > pedidos[r].visita

(* The portions served, the one pending and those on their way.            *)
EnCamino == {r \in 1 .. enviados : r > ultimo.r /\ pedidos[r].que # "cada"}
Pendientes == IF cita = {} THEN 0 ELSE 1
PorcionesInv == servidas + Pendientes + Cardinality(EnCamino) <= toques

AppInv ==
  /\ TypeOK /\ EnlaceInv /\ PedidosInv /\ ContestadasInv
  /\ CadaInv /\ CitaInv /\ AlDiaInv /\ PorcionesInv

-----------------------------------------------------------------------------
(* The steps, the requests of the app taken together.                      *)

Pedir(que, val) ==
  /\ Pide(que, val)
  /\ que \in {"dispensar", "cada", "programar", "cancelar_unico"}
  /\ val \in Tiempos \cup Horas
  /\ que = "dispensar" <=> pagina = 0
  /\ que # "programar" => val \in Tiempos
  /\ toques' = IF que = "cada" THEN toques ELSE toques + 1
  /\ al_dia' = IF que = "cada" THEN FALSE ELSE al_dia

Borrar ==
  /\ pagina # 0 /\ Pop(Cero) /\ al_dia' = FALSE
  /\ UNCHANGED <<enlace, visitas, pedidos, suerte, respuestas, firmware,
                 toques, servidas, manual, pisada>>

(* A step is one of these.                                                 *)
LEMMA Pasos ==
  ASSUME [Next]_vars
  PROVE  \/ \E que, val : Pedir(que, val)
         \/ Borrar \/ AbrirConfigurar \/ Volver
         \/ \E r \in 1 .. enviados : Respuesta(r)
         \/ \E r \in 1 .. enviados : Vence(r)
         \/ \E e \in Sucesos : esp_handler(e)
         \/ esp_send_http_ok \/ scheduler_check
         \/ \E t \in Intervalos : cada_confirmar(t)
         \/ \E t \in Citas : disp_enx_confirmar(t)
         \/ \E r \in 1 .. enviados : Perder(r)
         \/ UNCHANGED vars
<1>0. Cero \in Tiempos
  BY AplicacionAssumption
<1>1. ASSUME dispensarAhora PROVE Pedir("dispensar", Cero)
  BY <1>0, <1>1 DEF dispensarAhora, Pedir
<1>2. ASSUME cancelarPeriodico PROVE Pedir("cada", Cero)
  BY <1>0, <1>2 DEF cancelarPeriodico, Pedir
<1>3. ASSUME cancelarUnico PROVE Pedir("cancelar_unico", Cero)
  BY <1>0, <1>3 DEF cancelarUnico, Pedir
<1>4. ASSUME NEW t \in Tiempos, confirmarPeriodico(t) PROVE Borrar \/ Pedir("cada", t)
  <2>1. CASE t = Cero
    BY <1>4, <2>1 DEF confirmarPeriodico, Borrar
  <2>2. CASE t # Cero
    BY <1>4, <2>2 DEF confirmarPeriodico, Pedir
  <2> QED BY <2>1, <2>2
<1>5. ASSUME NEW t \in Horas, confirmarUnico(t) PROVE Pedir("programar", t)
  BY <1>5 DEF confirmarUnico, Pedir
<1> QED
  BY <1>1, <1>2, <1>3, <1>4, <1>5 DEF Next, App, Firmware

LEMMA Agrega ==
  ASSUME NEW S, NEW s \in Seq(S), NEW e \in S
  PROVE  /\ Append(s, e) \in Seq(S) /\ Len(Append(s, e)) = Len(s) + 1
         /\ Append(s, e)[Len(s) + 1] = e
         /\ \A r \in 1 .. Len(s) : Append(s, e)[r] = s[r]
  OBVIOUS

LEMMA Numeros ==
  /\ U8MAX \in Nat /\ HMAX \in Nat /\ MMAX \in Nat /\ MaxVisitas \in Nat
  /\ Cero \in Tiempos /\ Tiempos \cup Horas \subseteq Nat \X Nat
  BY AplicacionAssumption

LEMMA Enviado ==
  ASSUME TypePedidos
  PROVE  enviados \in Nat /\ \A r \in 1 .. enviados : pedidos[r] \in Pedido
<1>1. ASSUME NEW S, NEW s \in Seq(S), NEW r \in 1 .. Len(s) PROVE s[r] \in S
  BY <1>1
<1>2. pedidos \in Seq(Pedido) /\ enviados = Len(pedidos)
  BY DEF TypePedidos
<1> QED
  BY <1>1, <1>2

(* The requests sent before stay what they were.                           *)
LEMMA Crece ==
  ASSUME TypeOK, NEW que, NEW val, Pedir(que, val)
  PROVE  /\ enviados \in Nat /\ enviados' = enviados + 1
         /\ pedidos' \in Seq(Pedido) /\ Len(pedidos') = enviados'
         /\ suerte' \in Seq({"espera", "ok", "error"}) /\ Len(suerte') = enviados'
         /\ pedidos'[enviados + 1] = [que |-> que, val |-> val, visita |-> pagina]
         /\ suerte'[enviados + 1] = "espera"
         /\ \A r \in 1 .. enviados : pedidos'[r] = pedidos[r] /\ suerte'[r] = suerte[r]
<1> DEFINE p == [que |-> que, val |-> val, visita |-> pagina]
<1>1. p \in Pedido
  BY Numeros DEF TypeOK, TypeApp, Pedir, Pedido
<1>2. /\ pedidos \in Seq(Pedido) /\ Len(pedidos) = enviados /\ pedidos' = Append(pedidos, p)
      /\ suerte \in Seq({"espera", "ok", "error"}) /\ Len(suerte) = enviados
      /\ suerte' = Append(suerte, "espera") /\ enviados' = enviados + 1
  BY DEF TypeOK, TypePedidos, Pedir, Pide, Enviar
<1>3. enviados \in Nat
  BY <1>2
<1> HIDE DEF p
<1>4. /\ pedidos' \in Seq(Pedido) /\ Len(pedidos') = enviados'
      /\ pedidos'[enviados + 1] = p
      /\ \A r \in 1 .. enviados : pedidos'[r] = pedidos[r]
  BY <1>1, <1>2, Agrega
<1>5. /\ suerte' \in Seq({"espera", "ok", "error"}) /\ Len(suerte') = enviados'
      /\ suerte'[enviados + 1] = "espera"
      /\ \A r \in 1 .. enviados : suerte'[r] = suerte[r]
  BY <1>2, Agrega
<1> QED
  BY <1>2, <1>3, <1>4, <1>5 DEF p

(* An interval or a time that is taken.                                    *)
LEMMA RecortaTipo ==
  ASSUME NEW t \in Nat \X Nat
  PROVE  Recorta(t) \in (0 .. HMAX) \X (0 .. MMAX)
  BY Numeros DEF Recorta, Menor

-----------------------------------------------------------------------------
(* Types                                                                   *)

(* The three results that a screen can get, or none.                       *)
LEMMA RespuestaPaso ==
  ASSUME AppInv, NEW r \in 1 .. enviados, Respuesta(r)
  PROVE  /\ r \in respuestas /\ suerte' = [suerte EXCEPT ![r] = "ok"]
         /\ respuestas' = respuestas \ {r}
         /\ UNCHANGED <<enviados, rotos, curso, ultimo, visitas, pedidos, cada, cita,
                        toques, servidas, manual, pisada>>
         /\ \/ /\ Montada(r) /\ pedidos[r].que = "cada"
               /\ pagina' = 0 /\ resumen' = pedidos[r].val
               /\ al_dia' = IF UltimoCada(r)
                            THEN Cabe(pedidos[r].val) /\ "cada" \notin pisada
                            ELSE al_dia
            \/ pagina' = 0 /\ resumen' = resumen /\ al_dia' = al_dia
            \/ pagina' = 0 /\ resumen' = Cero /\ al_dia' = FALSE
            \/ UNCHANGED <<pagina, resumen, al_dia>>
<1>1. pedidos[r].que \in {"dispensar", "cada", "programar", "cancelar_unico"}
  BY Enviado DEF AppInv, TypeOK, Pedido
<1>2. Montada(r) => pedidos[r].que # "dispensar"
  BY DEF AppInv, PedidosInv, Montada
<1>3. /\ r \in respuestas /\ suerte' = [suerte EXCEPT ![r] = "ok"]
      /\ respuestas' = respuestas \ {r}
      /\ UNCHANGED <<enviados, rotos, curso, ultimo, visitas, pedidos, cada, cita,
                     toques, servidas, manual, pisada>>
  BY DEF Respuesta, enlace, firmware
<1>4. CASE ~Montada(r)
  BY <1>3, <1>4 DEF Respuesta
<1>5. CASE Montada(r) /\ pedidos[r].que = "cada"
  BY <1>3, <1>5 DEF Respuesta, Pop
<1>6. CASE Montada(r) /\ pedidos[r].que = "programar"
  BY <1>3, <1>6 DEF Respuesta, Pop
<1>7. CASE Montada(r) /\ pedidos[r].que = "cancelar_unico"
  BY <1>3, <1>7 DEF Respuesta, Pop
<1> QED
  BY <1>1, <1>2, <1>4, <1>5, <1>6, <1>7

LEMMA TypeAppPaso ==
  ASSUME AppInv, [Next]_vars
  PROVE  TypeApp'
<1>0. TypeApp /\ TypePedidos /\ PedidosInv /\ Cero \in Tiempos /\ MaxVisitas \in Nat
  BY Numeros DEF AppInv, TypeOK
<1>1. CASE AbrirConfigurar
  BY <1>0, <1>1 DEF TypeApp, AbrirConfigurar
<1>2. ASSUME NEW r \in 1 .. enviados, Respuesta(r) PROVE TypeApp'
  <2>1. pagina' \in {pagina, 0} /\ visitas' = visitas
    BY <1>2, RespuestaPaso
  <2>2. resumen' \in Tiempos
    BY <1>0, <1>2, RespuestaPaso DEF TypeApp, PedidosInv
  <2> QED BY <1>0, <2>1, <2>2 DEF TypeApp
<1>3. ASSUME visitas' = visitas, pagina' \in {pagina, 0}, resumen' \in {resumen, Cero}
      PROVE  TypeApp'
  BY <1>0, <1>3 DEF TypeApp
<1> QED
  BY <1>1, <1>2, <1>3, Pasos
  DEF Pedir, Pide, Borrar, Pop, Volver, Vence, esp_handler, esp_send_http_ok,
      scheduler_check, cada_confirmar, disp_enx_confirmar, Panel, Perder, vars, app

LEMMA TypePedidosPaso ==
  ASSUME AppInv, [Next]_vars
  PROVE  TypePedidos'
<1>0. TypePedidos /\ TypeOK /\ EnlaceInv
  BY DEF AppInv, TypeOK
<1>1. enviados \in Nat
  BY <1>0 DEF TypePedidos
<1>2. ASSUME NEW que, NEW val, Pedir(que, val) PROVE TypePedidos'
  <2>1. /\ enviados' = enviados + 1
        /\ pedidos' \in Seq(Pedido) /\ Len(pedidos') = enviados'
        /\ suerte' \in Seq({"espera", "ok", "error"}) /\ Len(suerte') = enviados'
        /\ \A r \in 1 .. enviados : suerte'[r] = suerte[r]
    BY <1>0, <1>2, Crece
  <2>2. respuestas' = respuestas
    BY <1>2 DEF Pedir, Pide
  <2>3. respuestas' \subseteq {r \in 1 .. enviados' : suerte'[r] = "espera"}
    BY <1>0, <1>1, <2>1, <2>2 DEF TypePedidos
  <2> QED
    BY <2>1, <2>3 DEF TypePedidos
<1>3. ASSUME NEW r \in 1 .. enviados, Respuesta(r) \/ Vence(r) PROVE TypePedidos'
  <2>1. UNCHANGED <<enviados, pedidos>> /\ respuestas' = respuestas \ {r}
    BY <1>3 DEF Respuesta, Vence, enlace
  <2>2. PICK x \in {"ok", "error"} : suerte' = [suerte EXCEPT ![r] = x]
    BY <1>3 DEF Respuesta, Vence
  <2>3. /\ suerte' \in Seq({"espera", "ok", "error"}) /\ enviados = Len(suerte')
        /\ \A s \in 1 .. enviados : s # r => suerte'[s] = suerte[s]
    BY <1>0, <2>2 DEF TypePedidos
  <2>4. respuestas' \subseteq {s \in 1 .. enviados : suerte'[s] = "espera"}
    BY <1>0, <2>1, <2>3 DEF TypePedidos
  <2> QED
    BY <1>0, <2>1, <2>3, <2>4 DEF TypePedidos
<1>4. CASE esp_send_http_ok
  <2>1. UNCHANGED <<enviados, pedidos, suerte>>
    BY <1>4 DEF esp_send_http_ok, Terminar
  <2>2. curso.conn \in 1 .. enviados
    BY <1>0, <1>1, <1>4 DEF esp_send_http_ok, Terminar, EnlaceInv, Libre
  <2>3. respuestas' \subseteq {r \in 1 .. enviados : suerte[r] = "espera"}
    BY <1>0, <1>4, <2>2 DEF esp_send_http_ok, TypePedidos
  <2> QED
    BY <1>0, <2>1, <2>3 DEF TypePedidos
<1>5. ASSUME UNCHANGED <<enviados, pedidos, suerte, respuestas>> PROVE TypePedidos'
  BY <1>0, <1>5 DEF TypePedidos
<1> QED
  BY <1>2, <1>3, <1>4, <1>5, Pasos
  DEF Borrar, AbrirConfigurar, Volver, esp_handler, Atender, scheduler_check, cada_confirmar,
      disp_enx_confirmar, Panel, Perder, Estropear, vars, enlace, app

LEMMA TypeFirmwarePaso ==
  ASSUME AppInv, [Next]_vars
  PROVE  TypeFirmware'
<1> USE Numeros
<1>0. TypeFirmware /\ TypePedidos /\ PedidosInv
  BY DEF AppInv, TypeOK
<1>1. ASSUME NEW e \in Sucesos, esp_handler(e) PROVE TypeFirmware'
  <2>1. PICK p \in Pedido : Efecto(p) /\ (p.que # "programar" => p.val \in Tiempos)
    <3>1. e.r \in 1 .. enviados /\ Efecto(pedidos[e.r])
      BY <1>1 DEF esp_handler, Sucesos
    <3>2. pedidos[e.r] \in Pedido
      BY <1>0, <3>1, Enviado
    <3> QED BY <1>0, <3>1, <3>2 DEF PedidosInv
  <2>2. p.val \in Nat \X Nat /\ (p.que = "cada" => p.val \in Tiempos)
    BY <2>1 DEF Pedido
  <2>3. cada' \in Tiempos \cap ((0 .. U8MAX) \X (0 .. U8MAX))
    <3>1. CASE cada' = cada
      BY <1>0, <3>1 DEF TypeFirmware
    <3>2. CASE cada' = p.val /\ p.que = "cada" /\ Cabe(p.val)
      BY <2>2, <3>2 DEF Cabe
    <3> QED BY <2>1, <3>1, <3>2 DEF Efecto, PideCada
  <2>4. cita' = cita \/ cita' = {Recorta(p.val)}
    BY <2>1 DEF Efecto
  <2>5. Recorta(p.val) \in (0 .. HMAX) \X (0 .. MMAX)
    BY <2>2, RecortaTipo
  <2> QED
    BY <1>0, <2>3, <2>4, <2>5 DEF TypeFirmware
<1>2. CASE scheduler_check
  BY <1>0, <1>2 DEF TypeFirmware, scheduler_check
<1>3. ASSUME NEW t \in Intervalos, cada_confirmar(t) PROVE TypeFirmware'
  <2>1. t \in Tiempos \cap ((0 .. U8MAX) \X (0 .. U8MAX))
    BY DEF Intervalos, Cabe
  <2> QED BY <1>0, <1>3, <2>1 DEF TypeFirmware, cada_confirmar
<1>4. ASSUME NEW t \in Citas, disp_enx_confirmar(t) PROVE TypeFirmware'
  <2>1. t \in (0 .. HMAX) \X (0 .. MMAX)
    BY RecortaTipo DEF Citas
  <2> QED BY <1>0, <1>4, <2>1 DEF TypeFirmware, disp_enx_confirmar
<1>5. ASSUME UNCHANGED firmware PROVE TypeFirmware'
  BY <1>0, <1>5 DEF TypeFirmware, firmware
<1> QED
  BY <1>1, <1>2, <1>3, <1>4, <1>5, Pasos
  DEF Pedir, Pide, Borrar, AbrirConfigurar, Volver, Respuesta, Vence, esp_send_http_ok,
      Perder, vars

LEMMA TypeHistoriaPaso ==
  ASSUME AppInv, [Next]_vars
  PROVE  TypeHistoria'
<1>0. TypeHistoria
  BY DEF AppInv, TypeOK
<1>1. toques' \in {toques, toques + 1} /\ manual' \in {manual, manual + 1}
  BY Pasos
  DEF Pedir, Pide, Borrar, AbrirConfigurar, Volver, Respuesta, Vence, esp_handler,
      esp_send_http_ok, scheduler_check, cada_confirmar, disp_enx_confirmar, Panel, Perder,
      vars, historia
<1>4. servidas' \in {servidas, servidas + 1}
  <2>1. ASSUME NEW e \in Sucesos, esp_handler(e) PROVE servidas' \in {servidas, servidas + 1}
    BY <1>0, <2>1 DEF TypeHistoria, esp_handler, Efecto, Porciones
  <2> QED
    BY <2>1, Pasos
    DEF Pedir, Pide, Borrar, AbrirConfigurar, Volver, Respuesta, Vence,
        esp_send_http_ok, scheduler_check, cada_confirmar, disp_enx_confirmar, Panel, Perder,
        vars, historia
<1>2. pisada' \subseteq pisada \cup {"cada", "cita"}
  BY Pasos
  DEF Pedir, Pide, Borrar, AbrirConfigurar, Volver, Respuesta, Vence, esp_handler, Efecto, Porciones,
      esp_send_http_ok, scheduler_check, cada_confirmar, disp_enx_confirmar, Panel, Perder,
      vars, historia
<1>3. al_dia' \in BOOLEAN
  <2>1. ASSUME NEW r \in 1 .. enviados, Respuesta(r) PROVE al_dia' \in BOOLEAN
    BY <1>0, <2>1, RespuestaPaso DEF TypeHistoria
  <2>2. ASSUME al_dia' = al_dia \/ al_dia' = FALSE PROVE al_dia' \in BOOLEAN
    BY <1>0, <2>2 DEF TypeHistoria
  <2> QED
    BY <2>1, <2>2, Pasos
    DEF Pedir, Pide, Borrar, AbrirConfigurar, Volver, Vence, esp_handler, esp_send_http_ok,
        scheduler_check, cada_confirmar, disp_enx_confirmar, Perder, vars, historia
<1> QED
  BY <1>0, <1>1, <1>2, <1>3, <1>4 DEF TypeHistoria

LEMMA TiposPaso ==
  ASSUME AppInv, [Next]_vars
  PROVE  TypeOK'
  BY TypeAppPaso, TypePedidosPaso, TypeFirmwarePaso, TypeHistoriaPaso DEF TypeOK

-----------------------------------------------------------------------------
(* The link and the requests                                               *)

LEMMA EnlacePaso ==
  ASSUME AppInv, [Next]_vars
  PROVE  EnlaceInv'
<1>0. EnlaceInv /\ enviados \in Nat
  BY Enviado DEF AppInv, TypeOK
<1>1. ASSUME NEW que, NEW val, Pedir(que, val) PROVE EnlaceInv'
  BY <1>0, <1>1 DEF EnlaceInv, Pedir, Pide, Enviar, Libre
<1>2. ASSUME UNCHANGED enlace PROVE EnlaceInv'
  BY <1>0, <1>2 DEF EnlaceInv, enlace, Libre
<1>3. ASSUME NEW e \in Sucesos, Atender(e) PROVE EnlaceInv'
  BY <1>0, <1>3 DEF EnlaceInv, Atender, Sucesos, Libre
<1>4. ASSUME Terminar PROVE EnlaceInv'
  BY <1>0, <1>4 DEF EnlaceInv, Terminar, Libre
<1>5. ASSUME NEW r \in 1 .. enviados, Estropear(r) PROVE EnlaceInv'
  BY <1>0, <1>5 DEF EnlaceInv, Estropear, Libre
<1> QED
  BY <1>1, <1>2, <1>3, <1>4, <1>5, Pasos
  DEF Borrar, AbrirConfigurar, Volver, Respuesta, Vence, esp_handler, esp_send_http_ok,
      scheduler_check, cada_confirmar, disp_enx_confirmar, Panel, Perder, vars

LEMMA PedidosPaso ==
  ASSUME AppInv, [Next]_vars
  PROVE  PedidosInv'
<1>0. /\ TypeOK /\ PedidosInv /\ enviados \in Nat /\ visitas \in Nat
      /\ \A r \in 1 .. enviados : pedidos[r].visita \in Nat
  BY Numeros, Enviado DEF AppInv, TypeOK, TypeApp, Pedido
<1>1. ASSUME NEW que, NEW val, Pedir(que, val) PROVE PedidosInv'
  <2>1. /\ enviados' = enviados + 1 /\ pagina' = pagina /\ visitas' = visitas
        /\ pedidos'[enviados + 1] = [que |-> que, val |-> val, visita |-> pagina]
        /\ \A r \in 1 .. enviados : pedidos'[r] = pedidos[r]
    BY <1>0, <1>1, Crece DEF Pedir, Pide
  <2>2. /\ que = "dispensar" <=> pagina = 0
        /\ que # "programar" => val \in Tiempos
    BY <1>1 DEF Pedir
  <2>3. \A r \in 1 .. enviados' : r \in 1 .. enviados \/ r = enviados + 1
    BY <1>0, <2>1
  <2>5. ASSUME NEW r \in 1 .. enviados'
        PROVE  /\ pedidos'[r].que = "dispensar" <=> pedidos'[r].visita = 0
               /\ pedidos'[r].que # "programar" => pedidos'[r].val \in Tiempos
               /\ pedidos'[r].visita <= visitas'
    <3>1. CASE r \in 1 .. enviados
      BY <1>0, <2>1, <3>1 DEF PedidosInv
    <3>2. CASE r = enviados + 1
      BY <1>0, <2>1, <2>2, <3>2 DEF PedidosInv
    <3> QED BY <2>3, <3>1, <3>2
  <2>6. ASSUME NEW r \in 1 .. enviados', NEW s \in 1 .. enviados', r < s,
               pedidos'[s].visita # 0
        PROVE  pedidos'[r].visita <= pedidos'[s].visita
    <3>1. r \in 1 .. enviados
      BY <1>0, <2>1, <2>6
    <3>2. CASE s \in 1 .. enviados
      BY <1>0, <2>1, <2>6, <3>1, <3>2 DEF PedidosInv
    <3>3. CASE s = enviados + 1
      BY <1>0, <2>1, <2>6, <3>1, <3>3 DEF PedidosInv
    <3> QED BY <2>3, <3>2, <3>3
  <2> QED
    BY <1>0, <2>1, <2>5, <2>6 DEF PedidosInv
<1>2. ASSUME NEW r \in 1 .. enviados, Respuesta(r) PROVE PedidosInv'
  BY <1>0, <1>2, RespuestaPaso DEF PedidosInv
<1>3. CASE AbrirConfigurar
  <2>1. /\ UNCHANGED <<enviados, pedidos>> /\ pagina' = visitas' /\ visitas' = visitas + 1
    BY <1>3 DEF AbrirConfigurar, enlace
  <2> QED BY <1>0, <2>1 DEF PedidosInv
<1>4. ASSUME UNCHANGED <<enviados, pedidos, visitas>>, pagina' \in {pagina, 0} PROVE PedidosInv'
  BY <1>0, <1>4 DEF PedidosInv
<1> QED
  BY <1>1, <1>2, <1>3, <1>4, Pasos
  DEF Borrar, Pop, Volver, Vence, esp_handler, Atender, esp_send_http_ok, Terminar,
      scheduler_check, cada_confirmar, disp_enx_confirmar, Panel, Perder, Estropear,
      vars, enlace, app

LEMMA ContestadasPaso ==
  ASSUME AppInv, [Next]_vars
  PROVE  ContestadasInv'
<1>0. TypeOK /\ EnlaceInv /\ ContestadasInv /\ enviados \in Nat
  BY Enviado DEF AppInv, TypeOK
<1>1. ASSUME NEW que, NEW val, Pedir(que, val) PROVE ContestadasInv'
  <2>1. /\ enviados' = enviados + 1 /\ suerte'[enviados + 1] = "espera"
        /\ \A r \in 1 .. enviados : suerte'[r] = suerte[r]
        /\ UNCHANGED <<respuestas, ultimo, curso>>
    BY <1>0, <1>1, Crece DEF Pedir, Pide, Enviar
  <2>2. respuestas \subseteq 1 .. enviados /\ curso.conn \in 0 .. enviados
    BY <1>0 DEF TypeOK, TypePedidos, EnlaceInv, Libre
  <2>3. \A r \in 1 .. enviados' : r \in 1 .. enviados \/ r = enviados + 1
    BY <1>0, <2>1
  <2> QED
    BY <1>0, <2>1, <2>2, <2>3 DEF ContestadasInv, Contestada
<1>2. ASSUME NEW r \in 1 .. enviados, Respuesta(r) \/ Vence(r) PROVE ContestadasInv'
  <2>1. /\ UNCHANGED <<enviados, ultimo, curso>> /\ respuestas' = respuestas \ {r}
        /\ \/ suerte' = [suerte EXCEPT ![r] = "ok"] /\ r \in respuestas
           \/ suerte' = [suerte EXCEPT ![r] = "error"]
    BY <1>2 DEF Respuesta, Vence, enlace
  <2>2. \A s \in 1 .. enviados :
          suerte'[s] = "ok" => suerte[s] = "ok" \/ (s = r /\ r \in respuestas)
    BY <1>0, <2>1 DEF TypeOK, TypePedidos
  <2> QED
    BY <1>0, <2>1, <2>2 DEF ContestadasInv, Contestada
<1>3. ASSUME NEW e \in Sucesos, esp_handler(e) PROVE ContestadasInv'
  BY <1>0, <1>3 DEF ContestadasInv, Contestada, esp_handler, Atender, app, Sucesos, EnlaceInv
<1>4. CASE esp_send_http_ok
  BY <1>0, <1>4 DEF ContestadasInv, Contestada, esp_send_http_ok, Terminar, Libre
<1>5. ASSUME UNCHANGED <<enviados, curso, ultimo, suerte, respuestas>> PROVE ContestadasInv'
  BY <1>0, <1>5 DEF ContestadasInv, Contestada
<1> QED
  BY <1>1, <1>2, <1>3, <1>4, <1>5, Pasos
  DEF Borrar, AbrirConfigurar, Volver, scheduler_check, cada_confirmar, disp_enx_confirmar,
      Panel, Perder, Estropear, vars, enlace, app

-----------------------------------------------------------------------------
(* What the firmware holds                                                 *)

(* A step that neither asks nor handles keeps which requests are newest,    *)
(* and makes none of them answered.                                        *)
Quieto ==
  /\ UNCHANGED <<enviados, pedidos>>
  /\ rotos \subseteq rotos'
  /\ \A r \in 1 .. enviados : Contestada(r)' => Contestada(r)

LEMMA QuietoPaso ==
  ASSUME AppInv, [Next]_vars,
         ~ \E que, val : Pedir(que, val), ~ \E e \in Sucesos : esp_handler(e)
  PROVE  Quieto
<1>0. TypePedidos /\ enviados \in Nat /\ suerte \in Seq({"espera", "ok", "error"}) /\ Len(suerte) = enviados
  BY Enviado DEF AppInv, TypeOK, TypePedidos
<1>1. ASSUME NEW r \in 1 .. enviados, Respuesta(r) \/ Vence(r) PROVE Quieto
  <2>1. /\ UNCHANGED <<enviados, pedidos, rotos, curso>> /\ respuestas' = respuestas \ {r}
        /\ \/ suerte' = [suerte EXCEPT ![r] = "ok"] /\ r \in respuestas
           \/ suerte' = [suerte EXCEPT ![r] = "error"]
    BY <1>1 DEF Respuesta, Vence, enlace
  <2>2. \A s \in 1 .. enviados :
          suerte'[s] = "ok" => suerte[s] = "ok" \/ (s = r /\ r \in respuestas)
    BY <1>0, <2>1
  <2> QED BY <2>1, <2>2 DEF Quieto, Contestada
<1>2. CASE esp_send_http_ok
  BY <1>0, <1>2 DEF Quieto, Contestada, esp_send_http_ok, Terminar, Libre
<1>3. ASSUME NEW r \in 1 .. enviados, Perder(r) PROVE Quieto
  BY <1>3 DEF Quieto, Contestada, Perder, Estropear, app
<1>4. ASSUME UNCHANGED <<enviados, pedidos, rotos, suerte, respuestas, curso>> PROVE Quieto
  BY <1>4 DEF Quieto, Contestada
<1> QED
  BY <1>1, <1>2, <1>3, <1>4, Pasos
  DEF Borrar, AbrirConfigurar, Volver, scheduler_check, cada_confirmar, disp_enx_confirmar,
      Panel, vars, enlace, app

(* A new request is not answered; if it is of the kind looked at, none of  *)
(* the others is the newest.                                               *)
LEMMA PedirContestada ==
  ASSUME AppInv, NEW que, NEW val, Pedir(que, val), NEW r \in 1 .. enviados',
         Contestada(r)'
  PROVE  /\ r \in 1 .. enviados /\ Contestada(r) /\ pedidos'[r] = pedidos[r]
         /\ UltimoCada(r)' => UltimoCada(r) /\ que # "cada"
         /\ UltimaCita(r)' => UltimaCita(r)
<1>0. TypeOK /\ TypePedidos /\ EnlaceInv /\ enviados \in Nat
  BY Enviado DEF AppInv, TypeOK
<1>1. /\ enviados' = enviados + 1 /\ suerte'[enviados + 1] = "espera"
      /\ pedidos'[enviados + 1] = [que |-> que, val |-> val, visita |-> pagina]
      /\ \A s \in 1 .. enviados : pedidos'[s] = pedidos[s] /\ suerte'[s] = suerte[s]
      /\ UNCHANGED <<respuestas, curso>>
  BY <1>0, Crece DEF Pedir, Pide, Enviar
<1>2. respuestas \subseteq 1 .. enviados /\ curso.conn \in 0 .. enviados
  BY <1>0 DEF TypePedidos, EnlaceInv, Libre
<1>3. r # enviados + 1
  BY <1>0, <1>1, <1>2 DEF Contestada
<1>4. r \in 1 .. enviados
  BY <1>0, <1>1, <1>3
<1>5. Contestada(r) /\ pedidos'[r] = pedidos[r]
  BY <1>1, <1>4 DEF Contestada
<1>6. ASSUME UltimoCada(r)' PROVE UltimoCada(r) /\ que # "cada"
  BY <1>0, <1>1, <1>4, <1>6 DEF UltimoCada
<1>7. ASSUME UltimaCita(r)' PROVE UltimaCita(r)
  BY <1>0, <1>1, <1>4, <1>7 DEF UltimaCita
<1> QED BY <1>4, <1>5, <1>6, <1>7

(* Handling takes a request that is newer than every answered one.         *)
LEMMA Atendida ==
  ASSUME AppInv, NEW e \in Sucesos, esp_handler(e), rotos' = {},
         NEW r \in 1 .. enviados, Contestada(r)'
  PROVE  /\ e.r \in 1 .. enviados /\ e.r = e.conn
         /\ r = e.r \/ (r < e.r /\ Contestada(r))
<1>1. ContestadasInv /\ enviados \in Nat /\ ultimo.r \in Nat
  BY Enviado DEF AppInv, TypeOK, EnlaceInv
<1>2. /\ rotos = {} /\ e.r > ultimo.r /\ e.r = e.conn /\ curso' = e
      /\ UNCHANGED <<respuestas, suerte>> /\ e.r \in 1 .. enviados
  BY DEF esp_handler, Atender, app, Sucesos
<1>3. CASE r = e.conn
  BY <1>2, <1>3
<1>4. CASE r # e.conn
  <2>1. Contestada(r)
    BY <1>2, <1>4 DEF Contestada
  <2>2. r <= ultimo.r
    BY <1>1, <2>1 DEF ContestadasInv
  <2> QED BY <1>1, <1>2, <2>1, <2>2
<1> QED BY <1>3, <1>4

LEMMA Entre ==
  ASSUME NEW n \in Nat, NEW a \in 1 .. n, NEW b \in 1 .. n, a < b
  PROVE  b \in a + 1 .. n
  OBVIOUS

LEMMA CadaPaso ==
  ASSUME AppInv, [Next]_vars
  PROVE  CadaInv'
<1>0. CadaInv /\ enviados \in Nat
  BY Enviado DEF AppInv, TypeOK
<1> SUFFICES ASSUME NEW r \in 1 .. enviados',
                    UltimoCada(r)', Contestada(r)', Cabe(pedidos[r].val)',
                    rotos' = {}, "cada" \notin pisada'
             PROVE  cada' = pedidos'[r].val
  BY DEF CadaInv
<1>1. ASSUME NEW que, NEW val, Pedir(que, val) PROVE cada' = pedidos'[r].val
  <2>1. UNCHANGED <<cada, rotos, pisada>>
    BY <1>1 DEF Pedir, Pide, Enviar, firmware
  <2>2. /\ r \in 1 .. enviados /\ Contestada(r) /\ pedidos'[r] = pedidos[r] /\ UltimoCada(r)
    BY <1>1, PedirContestada
  <2> QED BY <1>0, <2>1, <2>2 DEF CadaInv, Cabe
<1>2. ASSUME NEW e \in Sucesos, esp_handler(e) PROVE cada' = pedidos'[r].val
  <2>1. /\ UNCHANGED <<enviados, rotos, pedidos>> /\ Efecto(pedidos[e.r])
        /\ UltimoCada(r) /\ Cabe(pedidos[r].val)
    BY <1>2 DEF esp_handler, Atender, app, UltimoCada, Cabe
  <2>2. /\ e.r \in 1 .. enviados
        /\ r = e.r \/ (r < e.r /\ Contestada(r))
    BY <1>2, <2>1, Atendida
  <2>3. CASE r = e.r
    BY <2>1, <2>3 DEF Efecto, PideCada, UltimoCada
  <2>4. CASE r < e.r /\ Contestada(r)
    <3>1. pedidos[e.r].que # "cada"
      <4>1. e.r \in r + 1 .. enviados
        BY <1>0, <2>1, <2>2, <2>4, Entre
      <4> QED BY <2>1, <4>1 DEF UltimoCada
    <3>2. cada' = cada /\ "cada" \notin pisada
      BY <2>1, <3>1 DEF Efecto, PideCada
    <3> QED BY <1>0, <2>1, <2>4, <3>2 DEF CadaInv
  <2> QED BY <2>2, <2>3, <2>4
<1>3. ASSUME Quieto, cada' = cada \/ "cada" \in pisada', pisada \subseteq pisada'
      PROVE  cada' = pedidos'[r].val
  BY <1>0, <1>3 DEF Quieto, CadaInv, Cabe, UltimoCada
<1> QED
  BY <1>1, <1>2, <1>3, Pasos, QuietoPaso
  DEF Borrar, AbrirConfigurar, Volver, Respuesta, Vence, esp_send_http_ok, scheduler_check,
      cada_confirmar, disp_enx_confirmar, Panel, Perder, vars, firmware, historia

LEMMA CitaPaso ==
  ASSUME AppInv, [Next]_vars
  PROVE  CitaInv'
<1>0. CitaInv /\ enviados \in Nat
  BY Enviado DEF AppInv, TypeOK
<1> SUFFICES ASSUME NEW r \in 1 .. enviados',
                    UltimaCita(r)', Contestada(r)', Cabe(pedidos[r].val)',
                    rotos' = {}, "cita" \notin pisada'
             PROVE  cita' \subseteq {Recorta(pedidos'[r].val)}
  BY DEF CitaInv, Recorta
<1>1. ASSUME NEW que, NEW val, Pedir(que, val)
      PROVE  cita' \subseteq {Recorta(pedidos'[r].val)}
  <2>1. UNCHANGED <<cita, rotos, pisada>>
    BY <1>1 DEF Pedir, Pide, Enviar, firmware
  <2>2. /\ r \in 1 .. enviados /\ Contestada(r) /\ pedidos'[r] = pedidos[r] /\ UltimaCita(r)
    BY <1>1, PedirContestada
  <2> QED BY <1>0, <2>1, <2>2 DEF CitaInv, Cabe
<1>2. ASSUME NEW e \in Sucesos, esp_handler(e)
      PROVE  cita' \subseteq {Recorta(pedidos'[r].val)}
  <2>1. /\ UNCHANGED <<enviados, rotos, pedidos>> /\ Efecto(pedidos[e.r])
        /\ UltimaCita(r) /\ Cabe(pedidos[r].val)
    BY <1>2 DEF esp_handler, Atender, app, UltimaCita, DeCita, Cabe
  <2>2. /\ e.r \in 1 .. enviados
        /\ r = e.r \/ (r < e.r /\ Contestada(r))
    BY <1>2, <2>1, Atendida
  <2>3. CASE r = e.r
    BY <2>1, <2>3 DEF Efecto, PideCita, UltimaCita
  <2>4. CASE r < e.r /\ Contestada(r)
    <3>1. ~DeCita(pedidos[e.r])
      <4>1. e.r \in r + 1 .. enviados
        BY <1>0, <2>1, <2>2, <2>4, Entre
      <4> QED BY <2>1, <4>1 DEF UltimaCita
    <3>2. cita' = cita /\ "cita" \notin pisada
      BY <2>1, <3>1 DEF Efecto, PideCita
    <3> QED BY <1>0, <2>1, <2>4, <3>2 DEF CitaInv
  <2> QED BY <2>2, <2>3, <2>4
<1>3. ASSUME Quieto, cita' \subseteq cita \/ "cita" \in pisada', pisada \subseteq pisada'
      PROVE  cita' \subseteq {Recorta(pedidos'[r].val)}
  BY <1>0, <1>3 DEF Quieto, CitaInv, Cabe, UltimaCita, DeCita
<1> QED
  BY <1>1, <1>2, <1>3, Pasos, QuietoPaso
  DEF Borrar, AbrirConfigurar, Volver, Respuesta, Vence, esp_send_http_ok, scheduler_check,
      cada_confirmar, disp_enx_confirmar, Panel, Perder, vars, firmware, historia

-----------------------------------------------------------------------------
(* The summary                                                             *)

AlDia(r) ==
  /\ UltimoCada(r) /\ suerte[r] = "ok" /\ Cabe(pedidos[r].val)
  /\ resumen = pedidos[r].val
  /\ pagina = 0 \/ pagina > pedidos[r].visita

LEMMA AlDiaPaso ==
  ASSUME AppInv, [Next]_vars
  PROVE  AlDiaInv'
<1>0. /\ AlDiaInv /\ PedidosInv /\ TypePedidos /\ TypeOK /\ enviados \in Nat
      /\ pagina \in Nat /\ visitas \in Nat /\ pagina <= visitas
      /\ \A r \in 1 .. enviados : pedidos[r].visita \in Nat
      /\ suerte \in Seq({"espera", "ok", "error"}) /\ Len(suerte) = enviados
  <2>1. AlDiaInv /\ PedidosInv /\ TypePedidos /\ TypeOK /\ TypeApp
    BY DEF AppInv, TypeOK
  <2>2. enviados \in Nat /\ \A r \in 1 .. enviados : pedidos[r] \in Pedido
    BY <2>1, Enviado
  <2>3. pagina \in Nat /\ visitas \in Nat /\ pagina <= visitas
    BY <2>1, Numeros DEF TypeApp
  <2>4. suerte \in Seq({"espera", "ok", "error"}) /\ Len(suerte) = enviados
    BY <2>1 DEF TypePedidos
  <2> QED BY <2>1, <2>2, <2>3, <2>4 DEF Pedido
<1>a. ASSUME "cada" \notin pisada', \E r \in 1 .. enviados' : AlDia(r)' PROVE AlDiaInv'
  BY <1>a DEF AlDiaInv, AlDia
<1>b. ASSUME al_dia PROVE "cada" \notin pisada /\ \E r \in 1 .. enviados : AlDia(r)
  BY <1>0, <1>b DEF AlDiaInv, AlDia
<1> SUFFICES ASSUME al_dia' PROVE AlDiaInv'
  BY DEF AlDiaInv
<1>1. ASSUME NEW que, NEW val, Pedir(que, val) PROVE AlDiaInv'
  <2>1. al_dia /\ que # "cada" /\ UNCHANGED <<pisada, pagina, resumen>>
    BY <1>1 DEF Pedir, Pide
  <2>2. PICK r \in 1 .. enviados : AlDia(r)
    BY <1>b, <2>1
  <2>3. /\ enviados' = enviados + 1
        /\ pedidos'[enviados + 1] = [que |-> que, val |-> val, visita |-> pagina]
        /\ \A s \in 1 .. enviados : pedidos'[s] = pedidos[s] /\ suerte'[s] = suerte[s]
    BY <1>0, <1>1, Crece
  <2>4. UltimoCada(r)'
    <3>1. ASSUME NEW s \in r + 1 .. enviados' PROVE pedidos'[s].que # "cada"
      <4>1. s \in r + 1 .. enviados \/ s = enviados + 1
        BY <1>0, <2>3
      <4>2. CASE s \in r + 1 .. enviados
        BY <1>0, <2>2, <2>3, <4>2 DEF AlDia, UltimoCada
      <4>3. CASE s = enviados + 1
        BY <2>1, <2>3, <4>3
      <4> QED BY <4>1, <4>2, <4>3
    <3> QED BY <2>2, <2>3, <3>1 DEF AlDia, UltimoCada
  <2>5. r \in 1 .. enviados' /\ AlDia(r)'
    BY <1>0, <2>1, <2>2, <2>3, <2>4 DEF AlDia, Cabe
  <2> QED BY <1>a, <1>b, <2>1, <2>5
<1>2. ASSUME NEW r \in 1 .. enviados, Respuesta(r) PROVE AlDiaInv'
  <2>1. /\ UNCHANGED <<enviados, pedidos, pisada>>
        /\ suerte'[r] = "ok" /\ \A s \in 1 .. enviados : s # r => suerte'[s] = suerte[s]
    <3>1. suerte' = [suerte EXCEPT ![r] = "ok"] /\ UNCHANGED <<enviados, pedidos, pisada>>
      BY <1>2, RespuestaPaso
    <3> QED BY <1>0, <3>1
  <2>2. CASE /\ Montada(r) /\ UltimoCada(r) /\ Cabe(pedidos[r].val)
             /\ pagina' = 0 /\ resumen' = pedidos[r].val /\ "cada" \notin pisada
    <3>1. AlDia(r)'
      BY <2>1, <2>2 DEF AlDia, UltimoCada, Cabe
    <3> QED BY <1>a, <2>1, <2>2, <3>1
  <2>3. CASE al_dia /\ pagina' \in {pagina, 0} /\ resumen' = resumen
    <3>1. PICK u \in 1 .. enviados : AlDia(u)
      BY <1>b, <2>3
    <3>2. AlDia(u)'
      BY <2>1, <2>3, <3>1 DEF AlDia, UltimoCada, Cabe
    <3> QED BY <1>a, <1>b, <2>1, <2>3, <3>2
  <2>4. ~(al_dia /\ Montada(r) /\ pedidos[r].que = "cada" /\ ~UltimoCada(r))
    <3> SUFFICES ASSUME al_dia, Montada(r), pedidos[r].que = "cada", ~UltimoCada(r)
                 PROVE  FALSE
      OBVIOUS
    <3>1. PICK u \in 1 .. enviados : AlDia(u)
      BY <1>b
    <3>2. r \notin u + 1 .. enviados /\ r # u
      BY <3>1 DEF AlDia, UltimoCada
    <3>3. r < u
      BY <1>0, <3>2
    <3>4. pedidos[u].visita # 0 /\ pedidos[r].visita <= pedidos[u].visita
      BY <1>0, <3>1, <3>3 DEF PedidosInv, AlDia, UltimoCada
    <3> QED BY <1>0, <3>1, <3>4 DEF Montada, AlDia
  <2> QED BY <1>2, <2>2, <2>3, <2>4, RespuestaPaso
<1>3. ASSUME UNCHANGED <<enviados, pedidos, resumen>>, al_dia, "cada" \notin pisada \/ ~al_dia',
             "cada" \in pisada' => "cada" \in pisada,
             \A s \in 1 .. enviados : suerte[s] = "ok" => suerte'[s] = "ok",
             pagina' \in {pagina, 0, visitas + 1}
      PROVE  AlDiaInv'
  <2>1. PICK u \in 1 .. enviados : AlDia(u)
    BY <1>b, <1>3
  <2>2. pedidos[u].visita <= visitas
    BY <1>0 DEF PedidosInv
  <2>3. AlDia(u)'
    BY <1>0, <1>3, <2>1, <2>2 DEF AlDia, UltimoCada, Cabe
  <2> QED BY <1>a, <1>b, <1>3, <2>3
<1>4. ASSUME NEW r \in 1 .. enviados, Vence(r) PROVE AlDiaInv'
  <2>1. UNCHANGED <<enviados, pagina, resumen, pedidos, pisada, al_dia>>
    BY <1>4 DEF Vence, enlace, historia
  <2>2. \A s \in 1 .. enviados : suerte[s] = "ok" => suerte'[s] = "ok"
    BY <1>0, <1>4 DEF Vence
  <2> QED BY <1>3, <1>b, <2>1, <2>2
<1>5. ASSUME NEW e \in Sucesos, esp_handler(e) PROVE AlDiaInv'
  <2>1. UNCHANGED <<enviados, pagina, resumen, pedidos, suerte, al_dia>>
    BY <1>5 DEF esp_handler, Atender, app
  <2>2. pisada' \subseteq pisada
    BY <1>5 DEF esp_handler, Efecto
  <2> QED BY <1>3, <1>b, <2>1, <2>2
<1>6. ASSUME NEW t \in Citas, disp_enx_confirmar(t) PROVE AlDiaInv'
  <2>1. /\ UNCHANGED <<enviados, pagina, resumen, pedidos, suerte, al_dia>>
        /\ pisada' = pisada \cup {"cita"}
    BY <1>6 DEF disp_enx_confirmar, Panel, enlace, app
  <2> QED BY <1>3, <1>b, <2>1
<1>7. ASSUME UNCHANGED <<enviados, resumen, pedidos, suerte, pisada, al_dia>>,
             pagina' \in {pagina, 0, visitas + 1}
      PROVE  AlDiaInv'
  BY <1>3, <1>7, <1>b
<1>8. Borrar => ~al_dia'
  BY DEF Borrar
<1>9. \A t : cada_confirmar(t) => ~al_dia'
  BY DEF cada_confirmar
<1> QED
  BY <1>1, <1>2, <1>4, <1>5, <1>6, <1>7, <1>8, <1>9, Pasos
  DEF AbrirConfigurar, Volver, esp_send_http_ok, Terminar, scheduler_check, Perder,
      Estropear, vars, enlace, app, historia

-----------------------------------------------------------------------------
(* The portions                                                            *)

LEMMA Finito ==
  ASSUME NEW n \in Nat, NEW S, S \subseteq 1 .. n
  PROVE  IsFiniteSet(S) /\ Cardinality(S) \in Nat
<1>1. IsFiniteSet(1 .. n)
  BY FS_Interval
<1>2. IsFiniteSet(S)
  BY <1>1, FS_Subset
<1> QED BY <1>2, FS_CardinalityType

(* The sum is kept when what comes in and what goes out agree.             *)
LEMMA Suma ==
  ASSUME NEW s, NEW p \in {0, 1}, NEW c \in Nat, NEW t \in Nat, s \in Nat,
         NEW s1, NEW p1 \in {0, 1}, NEW c1 \in Nat, NEW t1 \in Nat, s1 \in Nat,
         s + p + c <= t,
         \/ s1 = s /\ p1 = p /\ c1 <= c + 1 /\ t1 = t + 1
         \/ s1 = s /\ p1 <= p /\ c1 <= c /\ t1 >= t
         \/ s1 = s /\ c1 <= c /\ t1 = t + 1
         \/ s1 + p1 = s + p /\ c1 <= c /\ t1 = t
         \/ s1 + p1 <= s + p + 1 /\ c1 <= c - 1 /\ t1 = t
  PROVE  s1 + p1 + c1 <= t1
  OBVIOUS

LEMMA PorcionesPaso ==
  ASSUME AppInv, [Next]_vars
  PROVE  PorcionesInv'
<1>0. /\ PorcionesInv /\ TypePedidos /\ EnlaceInv /\ enviados \in Nat
      /\ servidas \in Nat /\ toques \in Nat
  BY Enviado DEF AppInv, TypeOK, TypeHistoria
<1>a. TypePedidos' /\ servidas' \in Nat /\ toques' \in Nat
  BY TiposPaso DEF TypeOK, TypeHistoria
<1>b. /\ IsFiniteSet(EnCamino) /\ Cardinality(EnCamino) \in Nat
      /\ Pendientes \in {0, 1} /\ Pendientes' \in {0, 1}
  <2>1. EnCamino \subseteq 1 .. enviados
    BY DEF EnCamino
  <2> QED BY <1>0, <2>1, Finito DEF Pendientes
<1>c. Cardinality(EnCamino') \in Nat
  <2>1. EnCamino' \subseteq 1 .. enviados' /\ enviados' \in Nat
    BY <1>a DEF EnCamino, TypePedidos
  <2> QED BY <2>1, Finito
<1> DEFINE Pasa ==
      \/ /\ servidas' = servidas /\ Pendientes' = Pendientes
         /\ Cardinality(EnCamino') <= Cardinality(EnCamino) + 1 /\ toques' = toques + 1
      \/ /\ servidas' = servidas /\ Pendientes' <= Pendientes
         /\ Cardinality(EnCamino') <= Cardinality(EnCamino) /\ toques' >= toques
      \/ /\ servidas' = servidas
         /\ Cardinality(EnCamino') <= Cardinality(EnCamino) /\ toques' = toques + 1
      \/ /\ servidas' + Pendientes' = servidas + Pendientes
         /\ Cardinality(EnCamino') <= Cardinality(EnCamino) /\ toques' = toques
      \/ /\ servidas' + Pendientes' <= servidas + Pendientes + 1
         /\ Cardinality(EnCamino') <= Cardinality(EnCamino) - 1 /\ toques' = toques
<1>d. ASSUME Pasa PROVE PorcionesInv'
  <2>1. servidas' + Pendientes' + Cardinality(EnCamino') <= toques'
    <3>1. PICK s \in Nat, p \in {0, 1}, c \in Nat, t \in Nat :
            s = servidas /\ p = Pendientes /\ c = Cardinality(EnCamino) /\ t = toques
      BY <1>0, <1>b
    <3>2. PICK s1 \in Nat, p1 \in {0, 1}, c1 \in Nat, t1 \in Nat :
            s1 = servidas' /\ p1 = Pendientes' /\ c1 = Cardinality(EnCamino') /\ t1 = toques'
      BY <1>a, <1>b, <1>c
    <3>3. s + p + c <= t
      BY <1>0, <3>1 DEF PorcionesInv
    <3>4. s1 + p1 + c1 <= t1
      <4>1. \/ s1 = s /\ p1 = p /\ c1 <= c + 1 /\ t1 = t + 1
            \/ s1 = s /\ p1 <= p /\ c1 <= c /\ t1 >= t
            \/ s1 = s /\ c1 <= c /\ t1 = t + 1
            \/ s1 + p1 = s + p /\ c1 <= c /\ t1 = t
            \/ s1 + p1 <= s + p + 1 /\ c1 <= c - 1 /\ t1 = t
        BY <1>d, <3>1, <3>2
      <4> QED BY <3>3, <4>1, Suma
    <3> QED BY <3>2, <3>4
  <2> QED BY <2>1 DEF PorcionesInv
<1>e. ASSUME EnCamino' \subseteq EnCamino PROVE Cardinality(EnCamino') <= Cardinality(EnCamino)
  BY <1>b, <1>e, FS_Subset
<1>1. ASSUME NEW que, NEW val, Pedir(que, val) PROVE Pasa
  <2>1. /\ enviados' = enviados + 1 /\ UNCHANGED <<ultimo, cita, servidas>>
        /\ pedidos'[enviados + 1] = [que |-> que, val |-> val, visita |-> pagina]
        /\ \A s \in 1 .. enviados : pedidos'[s] = pedidos[s]
    BY <1>0, <1>1, Crece DEF Pedir, Pide, Enviar, firmware, AppInv
  <2>2. Pendientes' = Pendientes
    BY <2>1 DEF Pendientes
  <2>3. \A s \in 1 .. enviados' : s \in 1 .. enviados \/ s = enviados + 1
    BY <1>0, <2>1
  <2>4. CASE que = "cada"
    <3>1. EnCamino' \subseteq EnCamino
      BY <2>1, <2>3, <2>4 DEF EnCamino
    <3>2. toques' = toques
      BY <1>1, <2>4 DEF Pedir
    <3> QED BY <1>0, <1>b, <1>e, <2>1, <2>2, <3>1, <3>2
  <2>5. CASE que # "cada"
    <3>1. EnCamino' \subseteq EnCamino \cup {enviados + 1}
      BY <2>1, <2>3 DEF EnCamino
    <3>2. enviados + 1 \notin EnCamino
      BY <1>0 DEF EnCamino
    <3>3. /\ IsFiniteSet(EnCamino \cup {enviados + 1})
          /\ Cardinality(EnCamino \cup {enviados + 1}) = Cardinality(EnCamino) + 1
      BY <1>b, <3>2, FS_AddElement
    <3>5. Cardinality(EnCamino') <= Cardinality(EnCamino) + 1
      BY <3>1, <3>3, FS_Subset
    <3>6. toques' = toques + 1
      BY <1>1, <2>5 DEF Pedir
    <3> QED BY <2>1, <2>2, <3>5, <3>6
  <2> QED BY <2>4, <2>5
<1>2. ASSUME NEW e \in Sucesos, esp_handler(e) PROVE Pasa
  <2>1. /\ e.r \in 1 .. enviados /\ e.r > ultimo.r /\ ultimo' = e
        /\ UNCHANGED <<enviados, pedidos, toques>> /\ Efecto(pedidos[e.r])
    BY <1>2 DEF esp_handler, Atender, app, Sucesos
  <2>2. ultimo.r \in Nat
    BY <1>0 DEF EnlaceInv
  <2>3. EnCamino' \subseteq EnCamino /\ e.r \notin EnCamino'
    BY <1>0, <2>1, <2>2 DEF EnCamino
  <2>4. CASE pedidos[e.r].que = "cada"
    <3>1. servidas' = servidas /\ Pendientes' = Pendientes
      BY <1>0, <2>1, <2>4 DEF Efecto, Porciones, PideCita, DeCita, Pendientes
    <3> QED BY <1>0, <1>b, <1>e, <2>1, <2>3, <3>1
  <2>5. CASE pedidos[e.r].que # "cada"
    <3>1. e.r \in EnCamino
      BY <2>1, <2>5 DEF EnCamino
    <3>2. /\ IsFiniteSet(EnCamino \ {e.r})
          /\ Cardinality(EnCamino \ {e.r}) = Cardinality(EnCamino) - 1
      BY <1>b, <3>1, FS_RemoveElement
    <3>3. EnCamino' \subseteq EnCamino \ {e.r}
      BY <2>3
    <3>4. Cardinality(EnCamino') <= Cardinality(EnCamino) - 1
      BY <3>2, <3>3, FS_Subset
    <3>5. servidas' + Pendientes' <= servidas + Pendientes + 1
      <4>1. CASE pedidos[e.r].que = "dispensar"
        <5>1. servidas' = servidas + 1 /\ Pendientes' = Pendientes
          BY <2>1, <4>1 DEF Efecto, Porciones, PideCita, DeCita, Pendientes
        <5> QED BY <1>0, <1>b, <5>1
      <4>2. CASE pedidos[e.r].que # "dispensar"
        <5>1. servidas' = servidas
          BY <1>0, <2>1, <4>2 DEF Efecto, Porciones
        <5>2. \A s \in Nat, p, q \in {0, 1} : s + q <= s + p + 1
          OBVIOUS
        <5> QED BY <1>0, <1>b, <5>1, <5>2
      <4> QED BY <4>1, <4>2
    <3> QED BY <2>1, <3>4, <3>5
  <2> QED BY <2>4, <2>5
<1>f. ASSUME UNCHANGED <<enviados, pedidos, ultimo>>
      PROVE  Cardinality(EnCamino') <= Cardinality(EnCamino)
  BY <1>f, <1>e DEF EnCamino
<1>3. ASSUME scheduler_check PROVE Pasa
  <2>1. UNCHANGED <<enviados, pedidos, ultimo, toques>>
    BY <1>3 DEF scheduler_check, enlace, app
  <2>2. servidas' = servidas + 1 /\ Pendientes = 1 /\ Pendientes' = 0
    BY <1>3 DEF scheduler_check, Pendientes
  <2>3. servidas' + Pendientes' = servidas + Pendientes
    BY <1>0, <2>2
  <2>4. Cardinality(EnCamino') <= Cardinality(EnCamino)
    BY <1>f, <2>1
  <2> QED BY <2>1, <2>3, <2>4
<1>4. ASSUME NEW t \in Citas, disp_enx_confirmar(t) PROVE Pasa
  <2>1. UNCHANGED <<enviados, pedidos, ultimo, servidas>> /\ toques' = toques + 1
    BY <1>4 DEF disp_enx_confirmar, Panel, enlace, app
  <2> QED BY <1>f, <2>1
<1>5. ASSUME UNCHANGED <<enviados, pedidos, ultimo, servidas, toques, cita>> PROVE Pasa
  <2>1. Pendientes' = Pendientes
    BY <1>5 DEF Pendientes
  <2> QED BY <1>0, <1>b, <1>f, <1>5, <2>1
<1> HIDE DEF Pasa
<1> QED
  BY <1>1, <1>2, <1>3, <1>4, <1>5, <1>d, Pasos
  DEF Borrar, AbrirConfigurar, Volver, Respuesta, Vence, esp_send_http_ok, Terminar,
      cada_confirmar, Panel, Perder, Estropear, vars, enlace, app, firmware, historia

-----------------------------------------------------------------------------
(* The theorems                                                            *)

LEMMA AlEmpezar ==
  ASSUME Init
  PROVE  AppInv
<1>1. TypeOK
  <2>1. TypeApp /\ TypeHistoria
    <3>1. Cero \in Tiempos /\ MaxVisitas \in Nat
      BY Numeros
    <3>2. TypeApp
      BY <3>1 DEF Init, TypeApp
    <3>3. TypeHistoria
      BY DEF Init, TypeHistoria
    <3> QED BY <3>2, <3>3
  <2>2. TypePedidos
    BY DEF Init, EnlaceInit, TypePedidos
  <2>3. TypeFirmware
    <3>1. Cero \in (0 .. U8MAX) \X (0 .. U8MAX)
      BY Numeros DEF Cero
    <3> QED BY <3>1, Numeros DEF Init, TypeFirmware
  <2> QED BY <2>1, <2>2, <2>3 DEF TypeOK
<1>2. EnlaceInv /\ PedidosInv /\ ContestadasInv /\ CadaInv /\ CitaInv /\ AlDiaInv
  BY DEF Init, EnlaceInit, Libre, EnlaceInv, PedidosInv, ContestadasInv, CadaInv, CitaInv, AlDiaInv
<1>3. PorcionesInv
  <2>1. EnCamino = {}
    BY DEF Init, EnlaceInit, EnCamino
  <2> QED BY <2>1, FS_EmptySet DEF Init, PorcionesInv, Pendientes
<1> QED BY <1>1, <1>2, <1>3 DEF AppInv

(* The invariant the others follow from: what is answered was taken, in     *)
(* order, and every portion served, pending or on its way has its press.   *)
THEOREM Pedidos == Spec => []AppInv
<1>1. Init => AppInv
  BY AlEmpezar
<1>2. AppInv /\ [Next]_vars => AppInv'
  BY TiposPaso, EnlacePaso, PedidosPaso, ContestadasPaso, CadaPaso, CitaPaso, AlDiaPaso,
     PorcionesPaso DEF AppInv
<1> QED
  BY <1>1, <1>2, PTL DEF Spec

(* Types: an interval and an hour the firmware can hold.                   *)
THEOREM Tipos == Spec => []TypeOK
<1>1. AppInv => TypeOK
  BY DEF AppInv
<1> QED
  BY <1>1, Pedidos, PTL

(* One portion at most for each press, in the app and on the panel.        *)
THEOREM Porcion == Spec => []UnaPorToque
<1>1. AppInv => UnaPorToque
  <2> SUFFICES ASSUME AppInv PROVE UnaPorToque
    OBVIOUS
  <2>1. /\ servidas \in Nat /\ toques \in Nat /\ Pendientes \in {0, 1}
        /\ Cardinality(EnCamino) \in Nat
    <3>1. EnCamino \subseteq 1 .. enviados /\ enviados \in Nat
      BY Enviado DEF AppInv, TypeOK, EnCamino
    <3> QED BY <3>1, Finito DEF AppInv, TypeOK, TypeHistoria, Pendientes
  <2> QED BY <2>1 DEF AppInv, PorcionesInv, UnaPorToque
<1> QED
  BY <1>1, Pedidos, PTL

(* The summary of the app is the interval in force.                        *)
THEOREM Resumen == Spec => []ResumenFiel
<1>1. AppInv => ResumenFiel
  BY DEF AppInv, AlDiaInv, CadaInv, Contestada, ResumenFiel
<1> QED
  BY <1>1, Pedidos, PTL

(* The dispense at a time that is pending is the newest that was answered.  *)
THEOREM Cita == Spec => []CitaFiel
<1>1. AppInv => CitaFiel
  BY DEF AppInv, CitaInv, Contestada, CitaFiel
<1> QED
  BY <1>1, Pedidos, PTL
=============================================================================
