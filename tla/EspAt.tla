------------------------------- MODULE EspAt -------------------------------
(***************************************************************************)
(* The link with the app: esp_init_ap_server, esp_poll and the commands of *)
(* esp8266_at.c over the UART of the ESP8266, with their callers, main and *)
(* esp_handler of ui.c.                                                    *)
(*                                                                         *)
(* The module writes bytes into the receive FIFO of the UART, which the    *)
(* program only empties while it polls: bytes that find it full are lost.  *)
(* Bytes are kept as the pieces the code tells apart.  A request arrives   *)
(* as a notice ("0,CONNECT"), the two halves of its header ("+IPD," and    *)
(* "<conn>,<len>:"), and a payload of two pieces, the line "GET /x HTTP/"  *)
(* and the rest.  A piece that lost a byte is not recognised any more, but *)
(* a header whose length has a hole may still be one: the digits on both   *)
(* sides of the hole are read as one number, be the second ones its own or *)
(* of a later header, so that it may announce less or far more than comes. *)
(***************************************************************************)
EXTENDS Integers, Sequences

CONSTANTS
  FIFO,         \* pieces the receive FIFO holds (16 bytes)
  REQBUF,       \* pieces g_reqBuf holds (512 bytes)
  ESPBUF,       \* pieces g_esp_buf holds (1024 bytes)
  Comandos,     \* commands the app sends, numbered in the order in which
                \* parse_http_to_event looks for them
  MaxPedidos,   \* bound: requests sent
  MaxArranque,  \* bound: requests sent while the microcontroller starts
  MaxPerdidas,  \* bound: pieces lost
  LargoMax,     \* the longest payload a header may announce
  Mutilados     \* the lengths a header with a hole in its digits may announce

LargoCuerpo == 2
LargoPedido == LargoCuerpo + 2    \* its header and its payload

ASSUME EspAssumption ==
  /\ FIFO \in Nat \ {0} /\ REQBUF \in Nat /\ REQBUF > LargoCuerpo + 3
  /\ ESPBUF \in Nat /\ ESPBUF > 1
  /\ LargoMax \in Nat /\ LargoMax >= LargoCuerpo /\ Mutilados \subseteq 0 .. LargoMax
  /\ Comandos \subseteq Nat /\ MaxPedidos \in Nat /\ MaxArranque \in Nat /\ MaxPerdidas \in Nat

VARIABLES
  pc,         \* "main" before esp_init_ap_server, "init" in it, "poll" in esp_poll, "atiende" in esp_handler, "cmd" in esp_send_cmd,
              \* "cierra" before CIPCLOSE, "resto" in the rest of the loop
  reqBuf, curConn, curNeed,   \* g_reqBuf with g_reqLen, g_curConn, g_curNeed
  resp,       \* g_esp_buf: how many pieces it holds, and what strstr sees of them
  orden,      \* the command that esp_init_ap_server waits for, Listo after it
  ev,         \* the event esp_poll returned: its request and connection
  \* the module and the UART
  aire,       \* what the module still has to write
  fifo,
  modulo,     \* what the module was told: "nada", "mux" (CIPMUX), then "servidor"
  \* the app
  pedidos,    \* the command of each request sent; r is its number
  \* history
  perdidas, rotos,     \* pieces lost so far; requests that lost one
  ultimo,              \* the last event
  puntual,             \* every command of esp_init_ap_server was answered in time;
                       \* forgotten in the loop
  sinServir, vaciados, \* since the last loss: whole requests esp_poll read and
                       \* did not return, and times it emptied a full buffer
  anunciado            \* what was awaited at the last loss, or what the last
                       \* broken header read since then announced

asm == <<reqBuf, curConn, curNeed>>
linea == <<aire, fifo>>
arranque == <<orden, modulo, puntual>>
historia == <<perdidas, rotos, ultimo, sinServir, vaciados, anunciado>>
vars == <<pc, asm, resp, ev, linea, pedidos, arranque, historia>>

-----------------------------------------------------------------------------
(* Pieces *)

Txt == [t |-> "txt", r |-> 0, n |-> 0]              \* CONNECT, SEND OK...
Ok == [t |-> "ok", r |-> 0, n |-> 0]
Prompt == [t |-> "prompt", r |-> 0, n |-> 0]        \* >
Ipd(r) == [t |-> "ipd", r |-> r, n |-> 0]
Len_(r, n) == [t |-> "len", r |-> r, n |-> n]
Get(r) == [t |-> "get", r |-> r, n |-> 0]
Fin(r) == [t |-> "fin", r |-> r, n |-> 0]

Peticion(r) == <<Txt, Ipd(r), Len_(r, LargoCuerpo), Get(r), Fin(r)>>

NadieMas == 0
SinEvento == [r |-> 0, conn |-> 0]

-----------------------------------------------------------------------------
(* The app and the module *)

Pedir ==
  /\ modulo = "servidor" /\ Len(pedidos) < MaxPedidos
  /\ pc \in {"main", "init"} => Len(pedidos) < MaxArranque
  /\ Len(aire) <= 1
  /\ \E c \in Comandos : pedidos' = Append(pedidos, c)
  /\ aire' = aire \o Peticion(Len(pedidos'))
  /\ UNCHANGED <<pc, asm, resp, ev, fifo, arranque, historia>>

(* The module writes a piece; it is whole if it fits in the FIFO.          *)
Llega ==
  /\ aire # <<>> /\ Len(fifo) < FIFO
  /\ fifo' = Append(fifo, Head(aire))
  /\ aire' = Tail(aire)
  /\ UNCHANGED <<pc, asm, resp, ev, pedidos, arranque, historia>>

(* A piece of r is lost, or is no longer what the module wrote. *)
Rompe(r) ==
  /\ IF r = 0 THEN UNCHANGED <<rotos, sinServir, vaciados, anunciado>>
     ELSE /\ rotos' = rotos \cup {r}
          /\ sinServir' = 0 /\ vaciados' = 0 /\ anunciado' = curNeed
  /\ UNCHANGED ultimo

Pierde(r) ==
  /\ perdidas < MaxPerdidas
  /\ perdidas' = perdidas + 1
  /\ Rompe(r)

(* It finds the FIFO full. *)
Desborda ==
  /\ aire # <<>> /\ Len(fifo) = FIFO
  /\ Pierde(Head(aire).r)
  /\ aire' = Tail(aire)
  /\ UNCHANGED <<pc, asm, resp, ev, fifo, pedidos, arranque>>

(* It fits but for digits of the length (esp8266_at.c:85-90). *)
Mutila ==
  /\ aire # <<>> /\ Len(fifo) = FIFO - 1 /\ Head(aire).t = "len"
  /\ Pierde(Head(aire).r)
  /\ \E n \in Mutilados : fifo' = Append(fifo, Len_(Head(aire).r, n))
  /\ aire' = Tail(aire)
  /\ UNCHANGED <<pc, asm, resp, ev, pedidos, arranque>>

-----------------------------------------------------------------------------
(* esp_send_cmd: it reads everything up to what it waits for, "OK" or ">",  *)
(* requests included.  g_esp_buf keeps what it read; a full buffer keeps   *)
(* its second half, whose terminator then lies before what comes next:     *)
(* strstr does not see that until the buffer is full again.                *)

Esperado == IF pc = "init" THEN "ok" ELSE "prompt"

RespVacia == [n |-> 0, vista |-> "toda"]

Lleno == resp.n = ESPBUF

(* strstr finds it, p being the piece just read. *)
Hallada(p) == IF Lleno THEN resp.vista = "oculta" ELSE resp.vista = "toda" /\ p.t = Esperado

Anota(p) ==
  [n |-> IF Lleno THEN ESPBUF \div 2 + 1 ELSE resp.n + 1,
   vista |-> IF p.t = Esperado THEN "oculta" ELSE IF Lleno THEN "mitad" ELSE resp.vista]

Consume ==
  /\ fifo # <<>> /\ fifo' = Tail(fifo)
  /\ Rompe(Head(fifo).r) /\ UNCHANGED perdidas

Encuentra == Consume /\ Hallada(Head(fifo)) /\ resp' = RespVacia

Olvida ==
  /\ Consume /\ ~Hallada(Head(fifo)) /\ resp' = Anota(Head(fifo))
  /\ UNCHANGED <<pc, asm, ev, aire, pedidos, arranque>>

(* Its timeout passes, whatever is in the FIFO. *)
Vence == resp' = RespVacia /\ UNCHANGED <<fifo, historia>>

-----------------------------------------------------------------------------
(* esp_init_ap_server and main *)

AT == 1             \* three times at most
CWMODE == 4
CIPMUX == 6
CIPSERVER == 7
Listo == 8

(* The command k is written.  The module carries it out and answers, or    *)
(* does neither: it is not up yet, or refuses it.                          *)
Manda(k) ==
  /\ orden' = k
  /\ \/ /\ k # Listo /\ (k = CIPSERVER => modulo # "nada")
        /\ aire' = Append(aire, Ok)
        /\ modulo' = CASE k = CIPMUX /\ modulo = "nada" -> "mux"
                       [] k = CIPSERVER -> "servidor"
                       [] OTHER -> modulo
     \/ UNCHANGED <<aire, modulo>>
  /\ pc' = IF k = Listo THEN "resto" ELSE "init"
  /\ UNCHANGED <<asm, ev, pedidos>>

\* Mutant: what was in the FIFO before is not read away.
Vacia_o_no(f) == TRUE

Vacia(f) == f = <<>>

(* The FIFO is read until it is empty, and the first AT is written. *)
esp_init_vacia ==
  /\ pc = "main" /\ Consume
  /\ UNCHANGED <<pc, asm, resp, ev, aire, pedidos, arranque>>

esp_init_limpia ==
  /\ pc = "main" /\ Vacia(fifo)
  /\ Manda(AT)
  /\ UNCHANGED <<fifo, resp, puntual, historia>>

esp_init_ok ==
  /\ pc = "init" /\ Encuentra
  /\ Manda(IF orden < CWMODE THEN CWMODE ELSE orden + 1)
  /\ UNCHANGED puntual

(* AT is tried three times and then left alone; any other command that is   *)
(* not answered ends esp_init_ap_server, and main goes on all the same.    *)
\* Mutant: a command is sent until it is answered.
TrasVencer_insiste(k) == k

TrasVencer(k) == IF k < CWMODE THEN k + 1 ELSE Listo

esp_init_vence ==
  /\ pc = "init" /\ Vence
  /\ Manda(TrasVencer(orden))
  /\ puntual' = FALSE

esp_init_ap_server ==
  \/ esp_init_vacia \/ esp_init_limpia \/ esp_init_ok \/ esp_init_vence
  \/ pc = "init" /\ Olvida

-----------------------------------------------------------------------------
(* esp_poll: one piece read *)

(* ipd_parse_header looks at the first "+IPD," of the buffer only: where   *)
(* the header ends, or 0 if it is not there or is not well formed.         *)
Cabeceras(buf) ==
  {i \in 1 .. Len(buf) - 1 :
     /\ buf[i].t = "ipd" /\ buf[i + 1].t = "len"
     /\ \A j \in 1 .. i - 1 : buf[j].t # "ipd"}

ipd_parse_header(buf) ==
  IF Cabeceras(buf) = {} THEN 0 ELSE 1 + CHOOSE i \in Cabeceras(buf) : TRUE

(* A piece goes into the buffer; a full buffer is emptied while a header   *)
(* is looked for, and takes no more while a payload is read.               *)
\* Mutant: a full buffer is not emptied.
Acumula_lleno(c) == IF Len(reqBuf) < REQBUF THEN Append(reqBuf, c) ELSE reqBuf

Acumula(c) == IF Len(reqBuf) < REQBUF THEN Append(reqBuf, c) ELSE <<>>
Guarda(c)  == IF Len(reqBuf) < REQBUF THEN Append(reqBuf, c) ELSE reqBuf

Gets(buf) == {buf[i].r : i \in {j \in 1 .. Len(buf) : buf[j].t = "get"}}

(* parse_http_to_event: of the requests in the buffer, the first command   *)
(* in its order.                                                           *)
Elegido(buf) ==
  CHOOSE r \in Gets(buf) :
    \A s \in Gets(buf) : pedidos[r] < pedidos[s] \/ (pedidos[r] = pedidos[s] /\ r <= s)

(* What reading p does to the history, e being the last event by now: a    *)
(* request read to its end, whole, that did not become an event.           *)
Cuenta(p, e) ==
  /\ ultimo' = e
  /\ sinServir' = IF p.t = "fin" /\ p.r \notin rotos /\ p.r # e.r
                  THEN sinServir + 1 ELSE sinServir
  /\ UNCHANGED <<perdidas, rotos>>

Lee(p) == pc = "poll" /\ fifo # <<>> /\ p = Head(fifo) /\ fifo' = Tail(fifo)

(* g_curNeed == 0: a header is looked for. *)
\* Mutant: what came before the payload is not dropped.
Compacta_nada(buf, fin) == buf

Compacta(buf, fin) == SubSeq(buf, fin + 1, Len(buf))

\* Mutant: the header is counted as payload.
Faltan_cabecera(buf, fin) == buf[fin].n - Len(buf)

Faltan(buf, fin) == buf[fin].n - (Len(buf) - fin)

esp_poll_cabecera(p) ==
  /\ Lee(p) /\ curNeed = 0
  /\ LET buf == Acumula(p)
         fin == ipd_parse_header(buf)
     IN
     IF fin # 0
     THEN /\ curConn' = buf[fin].r
          /\ curNeed' = Faltan(buf, fin)
          /\ reqBuf' = Compacta(buf, fin)
          /\ anunciado' = IF curConn' \in rotos THEN curNeed' ELSE anunciado
     ELSE reqBuf' = buf /\ UNCHANGED <<curConn, curNeed, anunciado>>
  /\ vaciados' = IF Acumula(p) = <<>> THEN vaciados + 1 ELSE vaciados
  /\ Cuenta(p, ultimo)
  /\ UNCHANGED <<pc, resp, ev, aire, pedidos, arranque>>

(* g_curNeed pieces of payload are awaited; after the last one the request *)
(* is parsed, the assembler starts again and esp_poll returns, with or     *)
(* without an event.                                                       *)
esp_poll_cuerpo(p) ==
  /\ Lee(p) /\ curNeed # 0
  /\ LET buf == Guarda(p) IN
     IF curNeed # 1
     THEN /\ reqBuf' = buf /\ curNeed' = curNeed - 1
          /\ Cuenta(p, ultimo)
          /\ UNCHANGED <<pc, curConn, ev>>
     ELSE /\ reqBuf' = <<>> /\ curNeed' = 0 /\ curConn' = NadieMas
          /\ IF Gets(buf) # {}
             THEN /\ pc' = "atiende"
                  /\ ev' = [r |-> Elegido(buf), conn |-> curConn]
                  /\ Cuenta(p, ev')
             ELSE /\ pc' = "resto"
                  /\ Cuenta(p, ultimo)
                  /\ UNCHANGED ev
  /\ UNCHANGED <<resp, aire, pedidos, arranque, vaciados, anunciado>>

(* Nothing left to read: no event, the rest of the loop goes on. *)
esp_poll_vacio ==
  /\ pc = "poll" /\ fifo = <<>>
  /\ pc' = "resto"
  /\ UNCHANGED <<asm, resp, ev, linea, pedidos, arranque, historia>>

resto ==
  /\ pc = "resto" /\ pc' = "poll"
  /\ puntual' = FALSE
  /\ UNCHANGED <<asm, resp, ev, linea, pedidos, orden, modulo, historia>>

-----------------------------------------------------------------------------
(* esp_handler: toast and work, esp_send_http_ok, esp_close_conn *)

(* AT+CIPSEND is written; the module answers with its prompt. *)
esp_send_http_ok ==
  /\ pc = "atiende" /\ pc' = "cmd"
  /\ aire' = Append(aire, Prompt)
  /\ UNCHANGED <<asm, resp, ev, fifo, pedidos, arranque, historia>>

(* Its prompt, and the response is written. *)
esp_send_cmd_prompt ==
  /\ pc = "cmd" /\ Encuentra /\ pc' = "cierra"
  /\ aire' = Append(aire, Txt)
  /\ UNCHANGED <<asm, ev, pedidos, arranque>>

(* Its timeout: the response is not written. *)
esp_send_cmd_vence ==
  /\ pc = "cmd" /\ Vence /\ pc' = "cierra"
  /\ UNCHANGED <<asm, ev, aire, pedidos, arranque>>

esp_close_conn ==
  /\ pc = "cierra" /\ pc' = "resto"
  /\ aire' = Append(aire, Txt)
  /\ ev' = SinEvento
  /\ UNCHANGED <<asm, resp, fifo, pedidos, arranque, historia>>

-----------------------------------------------------------------------------
(* The microcontroller may have started anew while the module went on: an   *)
(* answer of before may be in the FIFO, and the module may be serving, so  *)
(* that requests arrive while esp_init_ap_server waits.                    *)
Init ==
  /\ pc = "main" /\ orden = AT /\ puntual = TRUE
  /\ modulo \in {"nada", "servidor"}
  /\ reqBuf = <<>> /\ curConn = NadieMas /\ curNeed = 0
  /\ ev = SinEvento /\ resp = RespVacia
  /\ aire = <<>> /\ fifo \in {<<>>, <<Ok>>} /\ pedidos = <<>>
  /\ perdidas = 0 /\ rotos = {} /\ ultimo = SinEvento
  /\ sinServir = 0 /\ vaciados = 0 /\ anunciado = 0

Modulo == Pedir \/ Llega \/ Desborda \/ Mutila

esp_poll ==
  \/ \E i \in 1 .. Len(fifo) : esp_poll_cabecera(fifo[i]) \/ esp_poll_cuerpo(fifo[i])
  \/ esp_poll_vacio

esp_handler ==
  \/ esp_send_http_ok \/ esp_send_cmd_prompt \/ esp_send_cmd_vence \/ esp_close_conn
  \/ pc = "cmd" /\ Olvida

Next == esp_init_ap_server \/ Modulo \/ esp_poll \/ esp_handler \/ resto

(* The processor goes on, and tickRead with it. *)
Spec == Init /\ [][Next]_vars /\ WF_vars(esp_init_ap_server)

-----------------------------------------------------------------------------
(* Properties *)

Piezas == [t : {"txt", "ok", "prompt", "ipd", "len", "get", "fin"},
           r : 0 .. MaxPedidos, n : 0 .. LargoMax]

TypeUart ==
  /\ fifo \in Seq(Piezas) /\ Len(fifo) <= FIFO /\ aire \in Seq(Piezas)
  /\ pedidos \in Seq(Comandos) /\ Len(pedidos) <= MaxPedidos

TypeAsm ==
  /\ reqBuf \in Seq(Piezas) /\ Len(reqBuf) <= REQBUF
  /\ curConn \in 0 .. MaxPedidos /\ {curNeed, anunciado} \subseteq 0 .. LargoMax

TypeControl ==
  /\ pc \in {"main", "init", "poll", "atiende", "cmd", "cierra", "resto"}
  /\ orden \in AT .. Listo /\ modulo \in {"nada", "mux", "servidor"} /\ puntual \in BOOLEAN
  /\ resp \in [n : 0 .. ESPBUF, vista : {"toda", "mitad", "oculta"}]
  /\ rotos \subseteq 1 .. MaxPedidos
  /\ {ev, ultimo} \subseteq [r : 0 .. MaxPedidos, conn : 0 .. MaxPedidos]

(* Type invariant; the payload awaited is never negative, which would keep *)
(* the assembler reading for ever (esp8266_at.c:308-325).                  *)
TypeOK == TypeUart /\ TypeAsm /\ TypeControl

(* main looks at no result of esp_init_ap_server (main.c:57-60): what it     *)
(* may rely on is that, if no command had to wait for its whole timeout,   *)
(* each OK was the answer to its own command and the server is on, also    *)
(* when answers of before the reset are in the FIFO (esp8266_at.c:192-237).*)
ServidorAnunciado == orden = Listo /\ puntual => modulo = "servidor"

(* The program reaches its loop, with the app or without it (main.c:57-90). *)
Arranca == <>(orden = Listo)

Mayor(a, b) == IF a >= b THEN a ELSE b

(* The assembler finds its way again: whatever was lost, cut short, left in *)
(* the buffer or read by esp_send_cmd, it misses no more of the whole      *)
(* requests than fit in what it still reads of before the loss (the FIFO   *)
(* and the requests cut at its two ends) and in either one buffer, if the  *)
(* first header in it is broken, or what a broken header announced and the *)
(* request cut at its end; and one more each time the full buffer is       *)
(* emptied on a header.  A loss has no other effect on later requests, but *)
(* this one lasts for as long as the joined digits say (esp8266_at.c:85-90, *)
(* 290-325).                                                               *)
RecuperaPronto ==
  LargoPedido * sinServir <=
    FIFO + 2 * (LargoPedido - 1) + Mayor(REQBUF, anunciado + LargoPedido - 1)
    + LargoPedido * vaciados

(* The link implements Enlace: whatever rests of earlier requests are in   *)
(* the buffer, requests are executed in order and at most once, and a whole*)
(* one whose header was recognised is the one that is executed and the one *)
(* whose connection gets the answer (esp8266_at.c:304-341).                *)
E == INSTANCE Enlace WITH enviados <- Len(pedidos), curso <- ev

CumpleEnlace == E!EnlaceSpec

=============================================================================
