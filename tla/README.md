# Verification of the pet-food dispenser (Taller de Proyecto 1)

This directory specifies, model-checks and proves properties of the dispenser's
firmware (EDU-CIAA, C) and of the Flutter application that drives it over Wi-Fi.
Identifiers keep the names of the source, in Spanish where the source has them.

Paths below: `FW` is `src/Codigo/firmware_v3-master/examples/c/sapi`, `APP` is
`src/Codigo/apptaller1/lib`.

## 1. The system

One thread runs everything on the board: `main.c` configures the hardware, sets up
the ESP8266 as an access point with a server, and calls `loop_ui`, which never returns:

    while(1) { esp_handler();  scheduler_check();  <buttons, ON ENTER, screen>; }

Every operation blocks that loop while it lasts: a toast takes 1 to 1.2 s, an AT
command up to 2 s, a dispense up to some 13 s.  The concurrency of the system lies
between this loop and what it does not control: the clocks, the food and its
scale, the fingers on the buttons, the module that writes into a FIFO of 16 bytes,
and the app, which waits 5 s for an answer.

| Component | Code | State it keeps | Operations |
|---|---|---|---|
| scheduler | `FW/ui/src/ui.c` 371-481, and the panel's confirmations | `disp_prog_*` (the dispense at a time), `cada_*` (the repetition), `ultimo_min` | `scheduler_check`, `api_programar_una_vez`, `api_cada_intervalo`, `cada_set_intervalo` |
| dispensing | `ui.c` 156-194, `FW/servo/src/servo.c` | weights and start of a call | `dispensarAlimento_porPeso`, `girarMotor` |
| scale | `FW/balanza/hx711_example/src/loadcell.c` 110-220 | none between calls | `hx711_wait_ready`, `hx711_read_raw`, median of 5, grams |
| buttons | `ui.c` 219-240 | `lectura`, `estable`, `timer` of each | `boton_evento` |
| panel | `ui.c` 244-367, 526-923 | screen, menu, editors, portion | the 15 screens of `loop_ui` |
| display | `FW/pantalla/src/pantalla.c` | what is shown | toasts and lines |
| app link | `FW/wifi/esp8266/at_commands/src/esp8266_at.c` | `g_reqBuf`, `g_curConn`, `g_curNeed`, `g_esp_buf` | `esp_poll`, `esp_send_http_ok`, `esp_close_conn`, `esp_send_cmd`, `esp_init_ap_server` |
| app | `APP/dispenser_service.dart`, `APP/screens/*.dart` | `_resumenIntervalo`, requests that wait | dispense now, program, repeat, cancel |
| start-up | `FW/main/main/src/main.c` | none | a straight line around `esp_init_ap_server` |

They interact by plain calls inside the loop and by shared globals: the app (through
`esp_handler`), the panel and the scheduler write the same request and the same
interval; the app and the scheduler draw over the panel's screen; the app and the board
share nothing but HTTP requests that may be lost, late or cut short.

What makes each part correct, and what is hard about it:

* **scheduler**: a request is served once, in its minute, and never skipped, although
  an iteration may take most of a minute and three variables (`disp_prog_activo`,
  `disp_prog_ejecutado`, `ultimo_min`) left at odd values by earlier requests
  decide it; the repetition keeps its grid and never dies when the counter wraps.
* **dispensing**: the dose, between noise, tolerance, refills, an empty hopper and
  readings that fail; the time a call can block the loop.
* **scale**: the weight survives two spoiled conversions out of five, and a
  disconnected converter does not block for ever.
* **buttons**: one event for each press, however the switch bounces and however long
  the loop stays away.
* **panel**: an OK acts on what its user saw, although others draw and change values.
* **app link**: after bytes are lost in the FIFO the assembler finds its way again,
  and no request is executed twice or answered on another's connection.
* **start-up**: the answers of a module that went on while the board was reset must not be
  taken for the answers to the new commands, and the program must reach its loop whatever
  the module does.
* **app**: one portion for one tap, also when a request is repeated, replaced or answered
  too late; a summary that says what the board does; only the last hour asked for is pending.

`PROJECT.json` lists every component and 39 hazards, each at its line.

## 2. The modules

| Module | Models | Role |
|---|---|---|
| `Agenda` | the promise of the dispense at a time | abstract specification |
| `Programador` | the loop with the scheduler, RTC and tick counter | implements `Agenda` |
| `Programador_proof` | | proofs |
| `Dispensado`, `Dispensado_proof` | one portion by weight | |
| `Pesada` | what a reading may say of a weight | shared by `Dispensado` and `Lectura` |
| `Lectura` | the promise of one reading to its caller | abstract specification |
| `Balanza`, `Balanza_proof` | one reading of the scale | implements `Lectura` |
| `Boton`, `Boton_proof` | debouncing | gives `Panel` its events |
| `Panel`, `Panel_proof` | the screens, editors and display | |
| `Enlace` | the promise of the link with the app | abstract specification |
| `EspAt`, `EspAt_proof`, `EspAtRecupera_proof` | start of the access point, receive FIFO, request assembler, AT commands | implements `Enlace` |
| `Aplicacion`, `Aplicacion_proof` | the app with the effects of the firmware, its scheduler and its panel | composed over `Enlace` |
| `*MC` | small instances | for TLC |

`Dispensado`, `Balanza` and `Boton` are the parts that block or feed the loop;
`Programador` and `Panel` take from them only what they promise (how long a phase
lasts; that a button is never reported in two calls in a row), as a constant or as a
set of inputs.  What `Dispensado` takes of the scale is `Pesada!Lecturas` and how long a reading
lasts; `Lectura` says when these hold and `Balanza` implements it, so the two fit together by a
theorem.  `Aplicacion` uses of the link only `Enlace`, which `EspAt` implements.

### State and actions against the code

* `Programador`: an action is one phase of the loop.  It reads the clocks when it
  begins, as the code does, and they advance by any time up to the phase's longest
  (`DEsp`, `DSched`, `DUi`).  `scheduler_check` is three actions for its three ways
  out; the update of `ultimo_min` and `disp_prog_ejecutado` at its top is part of each of
  them.  The `do { proximo += interval } while (vencido)` is `Siguiente`, in closed form;
  `SinDeriva` compares it with the loop step by step.  `tick` counts modulo
  `TickMod` (64 bits in the build) and is compared with `Medio`, the literal 2^31.
  `firme`, `suprimida`, `repetida` and `seguidas` are history: no action of the code's
  side depends on them except the bound `MaxSeguidas`.
* `Dispensado`: one action for each blocking call inside `dispensarAlimento_porPeso`
  (initial reading, turn, reading with its three outcomes).  A reading is the magnitude
  of what is there plus noise (`fabs`, loadcell.c:194), or -1.
* `Balanza`: the polling loop, the conversion with its sign extension, the very
  exchanges of `sort_and_median5_i32` (its two loops unrolled, `Vuelta1` to `Vuelta4`), and
  the conversion to grams with its rounding.  The sign bit is a constant, `MSB`; `t0`
  is kept modulo 2^32 as the code's `uint32_t`.
* `Boton`: `boton_evento` in one action, over a pin that may take any level until
  the switch has settled.
* `Panel`: one action for each screen, with ON ENTER; the display is the last
  screen drawn with the values drawn, or a notice.
* `EspAt`: bytes are pieces (notice, two halves of a header, request line, rest, OK,
  prompt); a piece that loses a byte is not recognised, but a header whose length has a
  hole may be: `ipd_parse_header` joins the digits on both sides of it, so that it announces
  less than comes or, if the digits after the hole are of a later header, far more
  ("+IPD,0,4" and "423:" give 4423; `Mutila`, `Mutilados`).  An action reads one piece, as
  a turn of the `while` of `esp_poll` reads one byte.  `pc` says which loop reads the UART: the draining and the commands of
  `esp_init_ap_server`, `esp_poll`, or `esp_send_cmd` for `AT+CIPSEND`.
  The command awaited (`orden`) counts the three tries of AT and the commands after it;
  a command not answered ends the function, except AT.  The module may carry out and
  answer each command or do neither, and may be serving from the start: the board was
  reset, the module was not.
  `resp` is what `esp_send_cmd` knows of `g_esp_buf`.  A full buffer keeps its second half
  (esp8266_at.c:53-58) and with it the terminator that was its last byte, so that `strstr`
  ends there and sees nothing of what comes next until the buffer is full again:
  `Hallada` and `Anota` say what is seen when.
* `Aplicacion`: each button of the app, each answer or timeout, and the firmware's
  handler as the effect of the request that `Enlace` delivers.  `cada` and `cita` are what
  the board holds; `scheduler_check` is the moment the pending dispense is served;
  `cada_confirmar` and `disp_enx_confirmar` are the panel's changes between two requests.
  `pisada` and `al_dia` are history: whose change is in force, and whether the newest request
  was answered to a screen that was still there.

## 3. What the runs check

| Run | Module, states | Question and answer |
|---|---|---|
| `cita` | `Programador`, 21 000 | The dispense at a time implements `Agenda`: once, in its minute, never skipped (`NuncaSeSaltea`); confirming it again in the minute it was served does not serve it twice (`NoRepiteDesdeElPanel`); the stale flag dies out (`EjecutadoCaduca`); every request is served or replaced (`ProgramadoSeSirve`). |
| `periodo` | `Programador`, 116 000 | With a counter that wraps several times: lateness is bounded (`AtrasoAcotado`), no drift (`SinDeriva`), the repetition fires again and again (`AutoNoSeDetiene`). |
| `dosis` | `Dispensado`, 637 000 | Lower and upper bound of the dose, length of a call. |
| `lectura` | `Balanza`, 2.7 M | The weight is right in spite of two glitches (`LecturaFiel`), bounded in time, given up only after the timeout; the reading is the one `Dispensado` counts on, never the weight of an earlier call (`CumpleLectura`). |
| `pulsacion` | `Boton`, 3 700 | One event for a press, none without one, none missed if held long enough, never in two calls in a row. |
| `pantalla` | `Panel`, 831 000 | The display is never wrong, an OK answers a screen that was shown, a notice passes. |
| `enlace` | `EspAt`, 10.2 M | From the reset on, `EspAt` implements `Enlace` (`CumpleEnlace`); after bytes were lost, it misses no more whole requests than the queue holds and either one buffer holds or the last broken header announced, and one for each time the full buffer was emptied since (`RecuperaPronto`); if no command of the start waited for its whole timeout the server is on (`ServidorAnunciado`); the start ends (`Arranca`). |
| `app` | `Aplicacion`, 7.1 M | One portion at most for a tap (`UnaPorToque`); the summary agrees with the board when the newest request was answered (`ResumenFiel`); no older hour is pending then, and after "cancel" only midnight (`CitaFiel`). |
| `instante`, `dias49`, `porcion`, `cero` | | The four disagreements of section 6. |

### Bounds, and why they are enough

* `Programador`: days of one or two hours of three minutes of four units.  Three minutes
  are the fewest for which the minute of a request, the one after it and the one after that
  differ, which is all `ultimo_min` can confuse; the phases take 0 or 1 unit, so that
  an iteration takes up to 3 of the 4 units of a minute and every alignment of the
  loop with the clock occurs.  `MaxSeguidas` bounds the requests served in successive
  iterations: with an app that asks for "this minute" in every loop the repetition can be
  put off without end, because a scheduled dispense returns before it is looked at
  (ui.c:429-431).  `periodo` asks for two periods, of 4 and 8 units (like the
  real ones, at least a minute and longer than an iteration), in any order, over a counter
  of 84; `cita` asks for the request that turns the repetition off.
* `Dispensado`: room for four or five turns before the timeout, a hopper of seven grams,
  one gram of noise, a tare that is low, right or high.
* `Balanza`: conversions of 4 bits with loads on both sides of the tare and glitches at
  both ends, five conversions and all their orders.  `W32` is small, so that `dias49`
  crosses it.
* `Boton`: a debounce of 4 with bounces of 3, a loop that is away for up to 6.
* `Panel`: two hours of two minutes, two portions, requests that turn the repetition off
  and ones past the last minute: every editor has both its ends and a carry.
* `EspAt`: a FIFO of one piece, a buffer of one request and a half, five requests of two
  commands, two lost pieces: a loss can hit two requests in a row, and enough whole requests
  can follow for the assembler to reach the bound on the ones it misses.  A damaged header
  announces 1 piece (less than the 2 that come), 10 (those, a later request and part of
  the next) or 22 (those and all four later requests).  With 22 more than the queue and one buffer
  are missed, so that the run would refute a bound without `anunciado`.
  `ESPBUF` of four pieces fills up with the rest of one request; `MaxArranque`
  of 1 puts a request among the answers of the start.  Each command of the start is
  answered or not, so every subset of refusals occurs.
* `Aplicacion`: three requests, two visits to Configurar, and one fault or change from
  outside (`MaxAjenos`: a spoiled request or a change on the panel); an interval that fits, one
  that does not fit in 8 bits, one time that the firmware cuts.  Requests are bounded, so
  the system stops: that run does not look for deadlock.

The theorems of section 4 lift these bounds for every module with an invariant or an
action property; what stays with TLC is listed there.

### Fairness

* `Programador` assumes `WF_vars(Next /\ tick' # tick)`: nothing in `loop_ui` waits for
  an event, every `while` in it ends by a timeout or by what it counts, and `tickRead()`
  is advanced by a timer interrupt, so that again and again a phase takes time.
* `Panel` assumes `WF_vars(Next)` for the same reason, and strong fairness of
  `Reposo({}, TRUE, TRUE)`: on the screens that look at a clock, the refresh falls due
  and, if nobody touches a button, so does the inactivity of 60 s.
* `EspAt` assumes `WF_vars(esp_init_ap_server)`: its draining loop reads what is there and
  each `esp_send_cmd` ends by its timeout, as `tickRead()` advances (esp8266_at.c:43).
  The module needs no fairness: `Arranca` holds with a module that never answers.
* The others have no liveness property.  In particular nothing says that the link
  delivers a request.

## 4. What is proved

TLAPS checks 8031 obligations, for every value of the constants that satisfies the
named assumptions.

**`Programador_proof`** (`RelojAssumption`, `VueltaAssumption`, `AnchoAssumption`).
`NuncaSeSaltea` is not inductive: whether the check comes in time depends on where
in the minute each phase may begin, and on a flag that an older request left set.
`ProgInv` adds both: `FirmeATiempo` (a phase that begins in the request's minute,
before its first check, begins early in it) and `EjecutadoCaduca` (a stale
`disp_prog_ejecutado` lives through the request's own minute and, if `ultimo_min`
happens to equal it, the next one, but not until the minute comes round again; this needs three
minutes in an hour).  From it follow

* `Pedidos`: `Spec => []ProgInv`, and from it `Tipos` and `Caduca` (`EjecutadoCaduca`);
* `NingunoSeSaltea`: `Spec => NuncaSeSaltea`;
* `SinRepeticion`: `Spec => NoRepiteDesdeElPanel`;
* `Refina`: `Spec => CumpleAgenda`, the refinement of `Agenda`, step by step;
* `Atraso`: `Spec => []AtrasoAcotado`, with `CadaInv` and modular arithmetic: while
  2^31 ms and a period fit in the counter, a late instant never looks like a future one;
* `Deriva`: `Spec => SinDeriva`.  The code's `do { proximo += interval } while (vencido)`
  is a loop whose number of turns depends on the lateness; `DoWhile` shows that the closed
  form `Siguiente` is where it stops, `Vencidos` that it makes no more turns than minutes
  of lateness.  Both need `IntervaloVale`: a repetition that is on has a period
  of a minute at least (`cada_set_intervalo` turns it off for 0 h 0 min, ui.c:374), so that the
  loop makes progress.

**`Dispensado_proof`** (`TiempoAssumption`, `PesoAssumption`).  `DispInv` ties the
weights of a call to the food that was there; `Dosis`, `Exceso`
(`DosisMaxima`) and `Duracion` state the bounds, `Tipos` the types.

**`Boton_proof`** (`ReboteAssumption`: a switch settles before the debounce time).
`BotonInv` relates the age of a reading to the time since the finger moved:
`UnEvento`, `Atendida`, `Separados`, `Tipos`.

**`Panel_proof`** (`PanelAssumption`).  `PanelInv` adds `VistoInv` to the types and to
`PantallaAlDia`: a screen that decides is only entered with OK, and on the menu the
item drawn last is the selected one.  `Tipos`, `SiempreAlDia`, `SoloLoVisto`; the last
one uses that `Eventos` never holds a button of the previous iteration, which is
`Boton`'s theorem `Separados`.

**`Balanza_proof`** (`BalanzaAssumption`, `RuidoAssumption`: at most two spoiled
conversions, and loads with their noise within the range).  The argument about the median: an
exchange keeps, for every threshold, how many of the five values are below it
(`IntercambioCuenta`), and the ten exchanges leave them in order; so the third value is
within the noise when three of the five are (`RuidoInv` counts the ones that are not).
`Fiel` is `LecturaFiel`: with the sign extension, the tare, the scale and the rounding, for
every width of the converter.  `Acotada` and `EsperaEntera` rest on `TiempoInv`: the
truncated `t0` is never later than the real start, so a wait may end early (run `dias49`)
but never late.  `Cumple` is `Spec => CumpleLectura`, the refinement of `Lectura`, step by step.  It
gives two constants of `Dispensado` their value: `Ruido` is the noise of one conversion in grams
plus one for the two roundings (`RuidoGramos`), `LectMax` is five timeouts and delays, for
every load on either side of the tare.  `LectMin` is 0, because of `dias49`.

**`EspAt_proof`** (`EspAssumption`).  `EspInv` looks at FIFO and air as one queue of
pieces (`Cola`): the request lines and lengths in it are in the order of the requests
and newer than the last event; the payload of a whole request follows its length at once;
while a payload is awaited (`CuerpoInv`) nothing in the buffer or the queue is older
than its connection, and if that request is whole the payload is exactly where it is
expected.  Losing or cutting a piece, reading it away in `esp_send_cmd` or in the
draining of the start, and writing new ones keep this: one lemma for each.  `Orden_`
is `Spec => []EspInv`, `Tipos` the types, `Enlaza` is `Spec => CumpleEnlace`: the refinement
of `Enlace`, for every number of requests, losses and every size of the FIFO and the
buffers (`g_reqBuf` must hold more than a request).
`Anunciado` is `ServidorAnunciado`, with `RespuestaInv`: while a command of the start
waits, one OK at most is on its way or hidden in `g_esp_buf`, and if there is one, the module
carried out the command that waits.

**`EspAtRecupera_proof`** (`EspAssumption`), on top of `EspAt_proof`.  `Recupera` is
`Spec => []RecuperaPronto`.  A whole request is missed because the buffer or the counter
still waits for pieces that were lost, so the proof keeps an account: `Deuda` is how many pieces the
assembler may still have to read before it finds a header again, in each of its states
(between requests, with a header whose end was lost, in the middle of a payload that a
whole or a broken header announced), and
`RecuperaInv` says that four times the requests missed plus the debt stay within the bound.
A piece read pays one (`LeeCabecera`, `LeeSinCabecera`, `LeePayload`), a loss starts the account anew, and
only the emptying of a full buffer makes a new debt.  What makes it inductive is the
shape of the queue: whole requests are contiguous in it (`Bloques`, `Cerca`) and what remains of
broken ones lies before all later whole ones (`Delante`).  The bound was first thought to be two requests,
whatever the number of losses; the attempt to prove it showed that it is not: the answers of the module
to `AT+CIPSEND` and `AT+CIPCLOSE` stay in `g_reqBuf`, fill it, and its emptying can hit the
header of a request of which no byte was lost.  Hence `vaciados` in the bound.  `anunciado` is
in it because the joined digits of a broken header have no relation to what comes: the
requests it makes the counter swallow are bounded only by what it announced (`Cabida`),
and the theorem holds for every set of such lengths.  A payload may then be longer than
`g_reqBuf`, which keeps its beginning; `EspAt_proof` finds the request that is executed
as the first line in what is kept (`Minimo`, `ElegidoEs`).

**`Aplicacion_proof`** (`AplicacionAssumption`).  `Pedidos` is the inductive invariant:
the link's last event is of a request sent (`EnlaceInv`); a newer request is not from
an older visit to Configurar (`PedidosInv`); a request whose handling is over was taken
(`ContestadasInv`); what the board holds is what the newest taken request asked for, unless
the panel changed it (`CadaInv`, `CitaInv`); the portions served, pending and on their
way are at most the taps.  From it `Tipos`, `Porcion` (`UnaPorToque`), `Resumen`
(`ResumenFiel`) and `Cita` (`CitaFiel`).

`VueltaAssumption` says that an iteration is shorter than a minute.  It holds for a
converter that answers at its rate of 10 per second or not at all: a call is then at most
1.5 s (first reading) + 10 s + 0.08 s + 0.3 s + 1.5 s (`Duracion`); an iteration adds
three of them, one toast, `AT+CIPSEND` with its 2 s, and the 5 s of ui.c:737: 49 s.  A
converter that answered just before the timeout of every conversion would
lengthen the readings to 5 s (`LecturaAcotada`) and the iteration beyond a minute.

Only model-checked: the liveness properties (`ProgramadoSeSirve`, `AutoNoSeDetiene`,
`AvisoPasa`, `Arranca`: the prover has no rule for fairness and `ENABLED`), and the
properties the code violates, which are no theorems.

## 5. What is not modelled

* Of the start-up, the calls that configure pins, display and scale: a straight line run
  once, without state of its own.  `esp_init_ap_server` is modelled; the texts of its
  commands are not.
* `http_get_param_u8` digit by digit (its effect is `Cabe`: a value above 255 is no value),
  the USB bridge, debug echo.
* A word of the module that is cut in two by the terminator inside a full `g_esp_buf`: pieces
  are seen whole or not at all.
* Link ids: `EspAt` tells connections apart by the number of the request, the code by the
  module's ids '0' to '4', which are used again when a client has gone.  That an answer goes
  to the connection of its own request is shown for the former; that the id still
  belongs to the same client when the answer is sent depends on the module.
* A client that disconnects in the middle of a request ("0,CLOSED" in place of the rest).
  For the assembler it is like the loss of the rest, which is modelled, but it needs no
  full FIFO.
* The overflow of `len` in `ipd_parse_header`, with ten digits and more: joined digits have
  up to eight (four of each header), unless the second header is broken as well.
* The requests that `esp_send_cmd` reads away while it waits for the prompt are not
  served.  `Enlace` does not promise that they are, and `RecuperaPronto` counts them as losses:
  what it shows is that the assembler is not confused by what is left of them.
* When the receive FIFO is reset: `esp_setup_uarts` does so (main.c:55, through
  `uartConfig`) just before `esp_init_ap_server`, so that of what a module that went on
  during a reset of the board wrote, only what arrives between the two calls is
  there to drain.  The model lets anything be there.
* What texts look like; the OLED driver and its font.
* Pulses of the motor: `girarMotor` is a step that takes time.
* Code nothing calls: `dispensarAlimento_simple`, `cada_stop`, loadcell.c 10-108,
  `hx711_tarar_raw`.
* The vendored sAPI library and the other examples, FreeRTOS, lwIP, FatFs, the demo of the HX711,
  the earlier prototype `test_completo`, and the platform folders of the app.

The repository is mostly `firmware_v3-master`, a copy of the board's SDK with some
400 000 lines of third-party libraries and examples.  The dispenser's own code is about 2 200
lines, of which the modules stand for those that keep state or decide something.

## 6. Where the code and what it says of itself differ

Four have a run whose counterexample shows them:

1. `instante`: ui.c:794-798 suppresses a dispense confirmed on the panel for the current
   minute "until the minute changes".  `ultimo_min` is only refreshed while a request is
   pending, so the first check after an idle time takes it for a change of minute and
   dispenses at once.
2. `dias49`: loadcell.c:116 keeps the 64 bit tick in 32 bits.  After 49.7 days each
   wait for the converter is over before it began, and no portion is served any more.
3. `porcion`: Down on the confirmation of the portion is labelled "cancel" (ui.c:365,
   913) but the editor changed `porcion_g` itself.
4. `cero`: confirming 0 h 0 min in the app clears its summary (home_screen.dart:114)
   without telling the board, which goes on repeating (configurar_horario.dart:41).

Others came up while modelling and have no run of their own:

* ui.c:28 calls `DISP_TIMEOUT_MS` a total limit of 10 s; the call may go on for a pause,
  a turn and a reading (`DuracionAcotada` gives the real bound).
* esp8266_at.h:26 offers `raw_req` with the event; `esp_poll` has emptied the buffer
  it points to when it returns (esp8266_at.c:337-338).  Nothing reads it.
* A request cut short in the FIFO may stay in the buffer and be executed with the next
  one, on that one's connection (`Enlace` allows it for requests that are not whole).
* A full `g_reqBuf` is emptied whatever it holds (esp8266_at.c:294-301).  The answers of the
  module fill it by themselves, so that now and then a request is lost although every byte of
  it arrived.
* Cancelling the dispense at a time in the app sends 0:00 (configurar_horario.dart:128-134),
  which programs one for midnight, and clears the summary of the repetition.
* A value above 255 is answered with 200 OK and not applied (ui.c:506-507).
* esp8266_at.c:53-58 means to keep the last 512 bytes of a long answer, but keeps the
  terminator too: an "OK" that arrives after 1023 bytes is seen 512 bytes later or
  not at all, and the command is taken for one that failed.
* An AT whose OK comes after its timeout is sent again (esp8266_at.c:197-204); the late OK is
  then taken for the answer to a later command, and a refusal of that one goes unseen.
  `ServidorAnunciado` therefore speaks only of starts in which nothing was late.

## 7. Plan

Written in the order of importance; done: all but 11 and the second half of 12.

1. `Agenda`, `Programador`: the promise and the loop that keeps it.
2. `Programador_proof`: no request is skipped, the refinement, the lateness.
3. `Dispensado` with proofs: dose and duration.
4. `Balanza` with proofs: what `Dispensado` takes for noise and time.
5. `Boton` with proofs.
6. `Panel` with proofs.
7. `Enlace`, `EspAt`: the promise of the link and the assembler that keeps it.
8. `Aplicacion`: the app over the link.
9. `Aplicacion_proof`: one portion for a tap, the summary, the pending hour.
10. `EspAt_proof`: `EspAt` implements `Enlace`.
11. `http_get_param_u8` and `ipd_parse_header` as functions over digits, against a
    reference, over bounded inputs.
12. The durations of `Balanza` as those of `Dispensado` (`Lectura`, done), and both as the
    origin of `DEsp`, `DSched` and `DUi`.
13. `esp_init_ap_server` with its retries, and a reset of the board alone.

## 8. Running it

    tlc -config Programador_cita.cfg ProgramadorMC.tla
    tlapm Programador_proof.tla

A configuration is named after its module and run.  No run needs more than four
minutes with two workers.
