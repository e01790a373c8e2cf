------------------------------ MODULE Balanza ------------------------------
(***************************************************************************)
(* The scale: balanza_leer_gramos of loadcell.c over the HX711 converter.  *)
(* A reading waits for a conversion (hx711_wait_ready), shifts its bits in *)
(* and extends their sign (hx711_read_raw), does so MED_N times, takes the *)
(* median and turns it into grams.                                         *)
(*                                                                         *)
(* The wait keeps its start in 32 bits and subtracts it from the 64 bit    *)
(* tickRead(); W32 is 2^32.  The converter and its wiring are the          *)
(* environment: it raises DOUT after a conversion is read, lowers it when  *)
(* the next one is done, and may be disconnected.                          *)
(***************************************************************************)
EXTENDS Integers, Sequences

CONSTANTS
  MSB,           \* the sign bit of a conversion (0x800000)
  W32,           \* a uint32_t counts modulo W32
  Espera,        \* hx711_wait_ready(1000)
  Retardo,       \* delay(5)
  Periodo,       \* longest time between two conversions
  Tara,          \* TARA_RAW0
  Num, Den,      \* SCALE_G_PER_COUNT = Num / Den
  Cargas,        \* what the cell really weighs, in counts
  RuidoCuentas,  \* noise of a conversion, in counts
  Picos,         \* conversions spoiled by a glitch, any value
  MaxPicos,      \* spoiled conversions in one reading
  Arranques,     \* values of tickRead() at which a reading may begin
  MaxMal         \* bound: times the converter is disconnected

ASSUME BalanzaAssumption ==
  /\ MSB \in Nat \ {0} /\ W32 \in Nat \ {0} /\ Espera \in Nat /\ Retardo \in Nat
  /\ Periodo \in Nat \ {0} /\ Num \in Nat \ {0} /\ Den \in Nat \ {0}
  /\ Tara \in Int /\ Picos \subseteq Int /\ Arranques \subseteq Nat /\ MaxMal \in Nat

(* The load and its noise are within the range of the converter, and the   *)
(* median of five stands two spoiled conversions.                          *)
ASSUME RuidoAssumption ==
  /\ Cargas \subseteq Int /\ RuidoCuentas \in Nat /\ MaxPicos \in 0 .. 2
  /\ \A c \in Cargas : -MSB <= c - RuidoCuentas /\ c + RuidoCuentas < MSB

MED_N == 5

VARIABLES
  pc,          \* "libre" or "esperar"
  tick,        \* tickRead(), 64 bits
  t0,          \* uint32_t t0 of hx711_wait_ready
  v,           \* conversions read so far
  out_g,       \* what ObtenerPesoDispensador_g last returned
  \* the converter
  proxima,     \* when its next conversion is done
  conectado, cortes,
  carga,
  picos,       \* spoiled conversions of this reading
  \* history
  desde,       \* when the wait began
  inicio       \* when the reading began

vars == <<pc, tick, t0, v, out_g, proxima, conectado, cortes, carga, picos, desde,
          inicio>>

-----------------------------------------------------------------------------
(* Data *)

(* The bits on the wire of a count in two's complement, and what           *)
(* hx711_read_raw makes of them: value & 0x800000 ? value | 0xFF000000.    *)
EnCable(cuenta) == cuenta % (2 * MSB)

\* Mutant: the sign is not extended.
Signo_crudo(dato) == dato

Signo(dato) == IF dato >= MSB THEN dato - 2 * MSB ELSE dato

Cambia(a, i, j) == IF a[j] < a[i] THEN [a EXCEPT ![i] = a[j], ![j] = a[i]] ELSE a

(* The turns of its outer loop: from i on, i gets the least. *)
Vuelta1(a) == Cambia(Cambia(Cambia(Cambia(a, 1, 2), 1, 3), 1, 4), 1, 5)
Vuelta2(a) == Cambia(Cambia(Cambia(a, 2, 3), 2, 4), 2, 5)
Vuelta3(a) == Cambia(Cambia(a, 3, 4), 3, 5)
Vuelta4(a) == Cambia(a, 4, 5)

\* Mutant: the last turns are left out.
Mediana_corta(a) == Vuelta2(Vuelta1(a))[3]

sort_and_median5_i32(a) == Vuelta4(Vuelta3(Vuelta2(Vuelta1(a))))[3]

Valor(x) == IF x < 0 THEN -x ELSE x

(* fabs, and (int32_t)(grams_f + 0.5f). *)
Gramos(raw) == (2 * Num * Valor(raw - Tara) + Den) \div (2 * Den)

-----------------------------------------------------------------------------
ListoYa == conectado /\ tick >= proxima

\* Mutants: gives up one tick early; never gives up.
Vencida_antes == tick - t0 >= Espera
Vencida_nunca == FALSE

(* tickRead() - t0 > timeout_ms, with t0 widened to 64 bits. *)
Vencida == tick - t0 > Espera

(* ObtenerPesoDispensador_g is called, some time later or after a restart.  *)
Pedir ==
  /\ pc = "libre"
  /\ tick' \in Arranques
  /\ proxima' \in tick' .. tick' + Periodo
  /\ carga' \in Cargas
  /\ pc' = "esperar"
  /\ v' = <<>> /\ picos' = 0
  /\ t0' = tick' % W32 /\ desde' = tick' /\ inicio' = tick'
  /\ UNCHANGED <<out_g, conectado, cortes>>

\* Mutant: a reading that is given up returns the weight of the last one.
Sondear_viejo ==
  /\ pc = "esperar" /\ ~ListoYa
  /\ IF Vencida THEN pc' = "libre" /\ tick' = tick ELSE pc' = pc /\ tick' = tick + 1
  /\ UNCHANGED <<out_g, t0, v, proxima, conectado, cortes, carga, picos, desde, inicio>>

(* A turn of the while of hx711_wait_ready, DOUT high. *)
Sondear ==
  /\ pc = "esperar" /\ ~ListoYa
  /\ IF Vencida
     THEN pc' = "libre" /\ out_g' = -1 /\ tick' = tick
     ELSE pc' = pc /\ out_g' = out_g /\ tick' = tick + 1
  /\ UNCHANGED <<t0, v, proxima, conectado, cortes, carga, picos, desde,
                 inicio>>

(* A conversion is shifted in; the next wait begins, or the weight is due. *)
Conversiones ==
  {[cuenta |-> carga + e, pico |-> 0] : e \in -RuidoCuentas .. RuidoCuentas}
    \cup IF picos < MaxPicos THEN {[cuenta |-> x, pico |-> 1] : x \in Picos} ELSE {}

hx711_read_raw ==
  /\ pc = "esperar" /\ ListoYa
  /\ \E c \in Conversiones :
       LET leidas == Append(v, Signo(EnCable(c.cuenta))) IN
       /\ v' = leidas
       /\ picos' = picos + c.pico
       /\ IF Len(leidas) = MED_N
          THEN /\ pc' = "libre"
               /\ out_g' = Gramos(sort_and_median5_i32(leidas))
               /\ UNCHANGED <<t0, desde>>
          ELSE /\ t0' = (tick + Retardo) % W32 /\ desde' = tick + Retardo
               /\ UNCHANGED <<pc, out_g>>
  /\ tick' = tick + Retardo
  /\ proxima' \in tick + 1 .. tick + Periodo
  /\ UNCHANGED <<conectado, cortes, carga, inicio>>

(* The wiring fails, or the converter comes back. *)
Cortar ==
  /\ conectado /\ cortes < MaxMal
  /\ conectado' = FALSE /\ cortes' = cortes + 1
  /\ UNCHANGED <<pc, tick, t0, v, out_g, proxima, carga, picos, desde, inicio>>

Volver ==
  /\ ~conectado /\ conectado' = TRUE
  /\ UNCHANGED <<pc, tick, t0, v, out_g, proxima, cortes, carga, picos, desde,
                 inicio>>

Init ==
  /\ pc = "libre" /\ tick = 0 /\ t0 = 0 /\ v = <<>> /\ out_g = 0
  /\ proxima = 0 /\ conectado = TRUE /\ cortes = 0
  /\ carga \in Cargas /\ picos = 0 /\ desde = 0 /\ inicio = 0

balanza_leer_gramos == Sondear \/ hx711_read_raw

Next == Pedir \/ balanza_leer_gramos \/ Cortar \/ Volver

Spec == Init /\ [][Next]_vars

-----------------------------------------------------------------------------
(* Properties *)

(* Type invariant; in particular a conversion is a count of 24 bits with   *)
(* its sign.                                                               *)
TypeOK ==
  /\ pc \in {"libre", "esperar"}
  /\ tick \in Nat /\ t0 \in 0 .. W32 - 1
  /\ v \in Seq(-MSB .. MSB - 1) /\ Len(v) <= MED_N
  /\ out_g \in Nat \cup {-1}
  /\ proxima \in Nat /\ conectado \in BOOLEAN /\ cortes \in 0 .. MaxMal
  /\ carga \in Cargas /\ picos \in 0 .. MaxPicos
  /\ desde \in Nat /\ inicio \in Nat

(* loadcell.c:114 "Espera a que el HX711 este listo (DOUT = LOW)": a        *)
(* reading is only given up after waiting for the converter longer than    *)
(* the timeout.                                                            *)
FallaTrasEspera ==
  [][ (pc = "esperar" /\ pc' = "libre" /\ out_g' = -1) => tick - desde > Espera ]_vars

(* The weight that is returned is the real one, up to the noise of one     *)
(* conversion and half a gram of rounding, whatever two of the five        *)
(* conversions were: sort, median, sign and scale together keep it.  It is *)
(* what Dispensado calls Ruido.                                            *)
LecturaFiel ==
  pc = "libre" /\ out_g # -1 /\ Len(v) = MED_N =>
    2 * Valor(Den * out_g - Num * Valor(carga - Tara)) <= 2 * Num * RuidoCuentas + Den

(* A reading ends within MED_N timeouts, whatever the converter does: the   *)
(* LectMax that Dispensado and the main loop have to live with.            *)
LecturaAcotada == tick - inicio <= MED_N * (Espera + 1 + Retardo)

(* The noise of a conversion in grams, with what the two roundings add, and *)
(* the grams on the scale.                                                 *)
RuidoGramos == (Num * RuidoCuentas) \div Den + 1
PesoGramos == IF carga < Tara THEN -Gramos(carga) ELSE Gramos(carga)

L == INSTANCE Lectura WITH
       Ruido   <- RuidoGramos,
       LectMin <- 0,
       LectMax <- MED_N * (Espera + 1 + Retardo),
       leyendo <- pc = "esperar",
       ahora   <- tick,
       peso    <- PesoGramos,
       g       <- out_g

(* A reading is the one Dispensado counts on: it answers in time, with the *)
(* weight of this call and not of an earlier one, within the noise that    *)
(* Lecturas allows, or with -1 (loadcell.c:110-205).                       *)
CumpleLectura == L!LecturaSpec

(* What ties the variables of a reading together; with TypeOK it makes the *)
(* properties inductive.  The wait of a conversion is not over late, as    *)
(* the truncated t0 is never after the real one.                           *)
TiempoInv ==
  /\ inicio <= desde /\ desde <= tick /\ t0 = desde % W32
  /\ pc = "esperar" =>
       /\ tick - desde <= Espera + 1
       /\ desde - inicio <= Len(v) * (Espera + 1 + Retardo)
       /\ Len(v) < MED_N

(* A conversion beyond the noise was spoiled. *)
Malo(i) ==
  IF i <= Len(v) /\ Valor(v[i] - carga) > RuidoCuentas THEN 1 ELSE 0

RuidoInv == Malo(1) + Malo(2) + Malo(3) + Malo(4) + Malo(5) <= picos

BalanzaInv == TypeOK /\ TiempoInv /\ RuidoInv /\ LecturaFiel /\ LecturaAcotada

=============================================================================
