-------------------------- MODULE Programador_proof --------------------------
(***************************************************************************)
(* Proofs about Programador, for every size of the day, of the counters,   *)
(* of the blocking times and of the periods that the assumptions allow.    *)
(***************************************************************************)
EXTENDS Programador, TLAPS

(* The periods of the requests fit in the longest one, and only 0:00 is     *)
(* empty (cada_set_intervalo).                                             *)
LEMMA Intervalos ==
  /\ IntervaloMax \in Nat
  /\ \A p \in PedidosCada : Intervalo(p) \in 0 .. IntervaloMax
  /\ \A p \in PedidosCada : Intervalo(p) = 0 => p = <<0, 0>>
  /\ \A p \in PedidosCada : Intervalo(p) # 0 => Intervalo(p) >= TPM
  <1>1. \A a, b, v \in Nat : a <= b => a * v \in Nat /\ a * v <= b * v
    OBVIOUS
  <1>2. \A a, v \in Nat : a * v = 0 => a = 0 \/ v = 0
    OBVIOUS
  <1>3. U8MAX \in Nat /\ MPH \in Nat \ {0} /\ TPM \in Nat \ {0}
    BY RelojAssumption
  <1> DEFINE total == U8MAX * MPH + U8MAX
  <1>4. U8MAX * MPH \in Nat /\ total \in Nat
    BY <1>1, <1>3
  <1>5. IntervaloMax \in Nat
    <2>1. total * TPM \in Nat
      BY <1>1, <1>3, <1>4
    <2> QED BY <2>1 DEF IntervaloMax
  <1>6. ASSUME NEW p \in PedidosCada
        PROVE  /\ Intervalo(p) \in 0 .. IntervaloMax
               /\ Intervalo(p) = 0 => p = <<0, 0>>
               /\ Intervalo(p) # 0 => Intervalo(p) >= TPM
    <2>1. PICK h \in 0 .. U8MAX, m \in 0 .. U8MAX : p = <<h, m>>
      BY AnchoAssumption
    <2>2. h \in Nat /\ m \in Nat /\ h <= U8MAX /\ m <= U8MAX
      BY <1>3
    <2>3. h * MPH \in Nat /\ h * MPH <= U8MAX * MPH
      BY <1>1, <1>3, <2>2
    <2> DEFINE minutos == h * MPH + m
    <2>4. minutos \in Nat /\ minutos <= total
      BY <1>3, <1>4, <2>2, <2>3
    <2>5. minutos = 0 => h = 0 /\ m = 0
      BY <1>2, <1>3, <2>2, <2>3
    <2>6. Intervalo(p) = minutos * TPM
      BY <2>1 DEF Intervalo
    <2>7. IntervaloMax = total * TPM
      BY DEF IntervaloMax
    <2> HIDE DEF minutos, total
    <2>8. minutos * TPM \in Nat /\ minutos * TPM <= total * TPM
      BY <1>1, <1>3, <1>4, <2>4
    <2>9. minutos * TPM = 0 => minutos = 0
      BY <1>2, <1>3, <2>4
    <2>10. Intervalo(p) \in 0 .. IntervaloMax
      BY <1>5, <2>6, <2>7, <2>8
    <2>11. 0 * TPM = 0 /\ 1 * TPM = TPM
      BY <1>3
    <2>12. Intervalo(p) # 0 => TPM <= Intervalo(p)
      BY <1>1, <1>3, <2>4, <2>6, <2>11
    <2>13. Intervalo(p) # 0 => Intervalo(p) >= TPM
      BY <1>3, <1>5, <2>10, <2>12
    <2> QED BY <2>1, <2>5, <2>6, <2>9, <2>10, <2>13
  <1> QED BY <1>5, <1>6

(* The two clocks stay in their ranges (Avanza, Suma). *)
LEMMA RelojTipo ==
  ASSUME NEW r \in Relojes, NEW d \in 0 .. TPM - 1
  PROVE  /\ Avanza(r, d) \in Relojes
         /\ ~CambiaMinuto(r, d) => /\ Avanza(r, d).hour = r.hour
                                   /\ Avanza(r, d).min = r.min
                                   /\ Avanza(r, d).sec = r.sec + d
         /\ CambiaMinuto(r, d) => /\ Avanza(r, d).hour = HoraSig(r)
                                  /\ Avanza(r, d).min = MinSig(r)
                                  /\ Avanza(r, d).sec = r.sec + d - TPM
  <1> USE RelojAssumption DEF Relojes, Horas, Minutos
  <1>1. HoraSig(r) \in Horas /\ MinSig(r) \in Minutos
    BY DEF HoraSig, MinSig
  <1>2. CASE CambiaMinuto(r, d)
    BY <1>1, <1>2 DEF Avanza, CambiaMinuto
  <1>3. CASE ~CambiaMinuto(r, d)
    BY <1>3 DEF Avanza, CambiaMinuto
  <1> QED BY <1>2, <1>3

(* The counter never leaves its width (Suma). *)
LEMMA SumaTipo ==
  ASSUME NEW a \in 0 .. TickMod - 1, NEW b \in 0 .. TickMod
  PROVE  Suma(a, b) \in 0 .. TickMod - 1
  BY Intervalos, AnchoAssumption DEF Suma

(* Every phase is shorter than a minute, and than the counter's width. *)
LEMMA FaseCorta ==
  ASSUME NEW d \in 0 .. DEsp \cup 0 .. DSched \cup 0 .. DUi
  PROVE  d \in 0 .. TPM - 1 /\ d \in 0 .. TickMod
  BY RelojAssumption, VueltaAssumption, Intervalos, AnchoAssumption DEF Vuelta

(* What every operation that lets time pass does to the types. *)
LEMMA PasaTipo ==
  ASSUME TypeOK, NEW d \in 0 .. DEsp \cup 0 .. DSched \cup 0 .. DUi,
         NEW sigue \in BOOLEAN, NEW sup \in BOOLEAN, NEW rep \in BOOLEAN,
         disp_prog_activo' \in BOOLEAN,
         Pasa(d, sigue, sup, rep)
  PROVE  /\ rtc' \in Relojes
         /\ tick' \in 0 .. TickMod - 1
         /\ firme' \in BOOLEAN /\ suprimida' \in BOOLEAN /\ repetida' \in BOOLEAN
  <1>1. rtc' \in Relojes
    BY FaseCorta, RelojTipo DEF Pasa, TypeOK
  <1>2. tick' \in 0 .. TickMod - 1
    BY FaseCorta, SumaTipo DEF Pasa, TypeOK
  <1>3. firme' \in BOOLEAN
    BY DEF Pasa, TypeOK
  <1>4. suprimida' \in BOOLEAN /\ repetida' \in BOOLEAN
    BY DEF Pasa, TypeOK
  <1> QED BY <1>1, <1>2, <1>3, <1>4

(* The do-while of scheduler_check stops at most one period after ahora. *)
LEMMA SiguienteTipo ==
  ASSUME NEW a \in 0 .. TickMod - 1, NEW p \in 0 .. TickMod - 1,
         NEW i \in 1 .. IntervaloMax
  PROVE  \E x \in 1 .. i : Siguiente(a, p, i) = Suma(a, x)
  <1> DEFINE late == Resta(a, p)
  <1>1. late \in Nat
    BY Intervalos, AnchoAssumption DEF Resta
  <1>2. i \in Nat /\ i > 0
    BY Intervalos, AnchoAssumption
  <1> HIDE DEF late
  <1>3. late % i \in 0 .. i - 1
    BY <1>1, <1>2
  <1>4. i - (late % i) \in 1 .. i
    BY <1>2, <1>3
  <1>5. Siguiente(a, p, i) = Suma(a, i - (late % i))
    BY DEF Siguiente, late
  <1> QED BY <1>4, <1>5

-----------------------------------------------------------------------------
(* cada_set_intervalo leaves a period in range. *)
LEMMA CadaTipo ==
  ASSUME TypeOK, NEW p \in PedidosCada, cada_set_intervalo(p)
  PROVE  /\ cada_activo' \in BOOLEAN
         /\ cada_interval_ms' \in 0 .. IntervaloMax
         /\ cada_proximo_ms' \in 0 .. TickMod - 1
         /\ cada_activo' => /\ cada_interval_ms' \in 1 .. IntervaloMax
                            /\ p # <<0, 0>> => cada_interval_ms' >= TPM
                            /\ cada_proximo_ms' = Suma(tick, cada_interval_ms')
  <1>1. CASE p = <<0, 0>>
    BY <1>1 DEF cada_set_intervalo, TypeOK
  <1>2. CASE p # <<0, 0>>
    <2> DEFINE i == Intervalo(p)
    <2>0. i \in 0 .. IntervaloMax /\ i # 0
      BY <1>2, Intervalos
    <2> HIDE DEF i
    <2>a. i \in 1 .. IntervaloMax /\ i \in 0 .. TickMod
      BY <2>0, Intervalos, AnchoAssumption
    <2>1. Intervalo(p) \in 1 .. IntervaloMax /\ Intervalo(p) \in 0 .. TickMod
      BY <2>a DEF i
    <2>2. Suma(tick, Intervalo(p)) \in 0 .. TickMod - 1
      BY <2>1, SumaTipo DEF TypeOK
    <2>3. /\ cada_activo' = TRUE
          /\ cada_interval_ms' = Intervalo(p)
          /\ cada_proximo_ms' = Suma(tick, Intervalo(p))
      BY <1>2 DEF cada_set_intervalo
    <2>4. Intervalo(p) \in 0 .. IntervaloMax
      BY Intervalos
    <2>5. cada_proximo_ms' = Suma(tick, cada_interval_ms')
      BY <2>3
    <2>6. cada_interval_ms' >= TPM
      BY <2>1, <2>3, Intervalos
    <2> QED BY <2>1, <2>2, <2>3, <2>4, <2>5, <2>6
  <1> QED BY <1>1, <1>2

LEMMA ProgInvInit == Init => ProgInv
  <1> SUFFICES ASSUME Init PROVE ProgInv
    OBVIOUS
  <1>1. HPD \div 2 \in Horas /\ 0 \in Minutos
    BY RelojAssumption DEF Horas, Minutos
  <1>2. 0 \in 0 .. TickMod - 1 /\ 0 \in 0 .. IntervaloMax /\ 0 \in 0 .. MaxSeguidas
    BY Intervalos, AnchoAssumption, VueltaAssumption, RelojAssumption DEF Vuelta
  <1>3. rtc \in Relojes
    BY RelojAssumption DEF Init
  <1>4. TypeOK
    BY <1>1, <1>2, <1>3 DEF Init, TypeOK, Fases
  <1> QED
    BY <1>4 DEF Init, ProgInv, PedidoCabe, FirmeATiempo, EjecutadoCaduca, RepetidaSuprimida

-----------------------------------------------------------------------------
(* One lemma per operation of the loop: the types and the room for the     *)
(* request.                                                                *)

TipoInv == TypeOK /\ PedidoCabe

LEMMA TipoEsp == TipoInv /\ Esp => TipoInv'
  <1> SUFFICES ASSUME TipoInv, Esp PROVE TipoInv'
    OBVIOUS
  <1> USE DEF Fases, TipoInv, PedidoCabe
  <1>1. CASE esp_otro
    <2>1. PICK d \in 0 .. DEsp : Pasa(d, TRUE, suprimida, repetida)
      BY <1>1 DEF esp_otro
    <2> QED BY <1>1, <2>1, PasaTipo DEF esp_otro, prog, cada, TypeOK
  <1>2. ASSUME NEW h \in 0 .. U8MAX, NEW m \in 0 .. U8MAX,
               api_programar_una_vez(h, m)
        PROVE  TipoInv'
    <2>1. PICK d \in 0 .. DEsp : Pasa(d, FALSE, FALSE, repetida)
      BY <1>2 DEF api_programar_una_vez
    <2>2. Recorta(h, HPD - 1) \in Horas /\ Recorta(m, MPH - 1) \in Minutos
      BY RelojAssumption DEF Recorta, Horas, Minutos
    <2> QED BY <1>2, <2>1, <2>2, PasaTipo DEF api_programar_una_vez, cada, TypeOK
  <1>3. ASSUME NEW p \in PedidosCada, api_cada_intervalo(p)
        PROVE  TipoInv'
    <2>1. PICK d \in 0 .. DEsp : Pasa(d, TRUE, suprimida, repetida)
      BY <1>3 DEF api_cada_intervalo
    <2>2. cada_set_intervalo(p)
      BY <1>3 DEF api_cada_intervalo
    <2> QED BY <1>3, <2>1, <2>2, CadaTipo, PasaTipo DEF api_cada_intervalo, prog, TypeOK
  <1> QED BY <1>1, <1>2, <1>3 DEF Esp

LEMMA TipoSched == TipoInv /\ scheduler_check => TipoInv'
  <1> SUFFICES ASSUME TipoInv, scheduler_check PROVE TipoInv'
    OBVIOUS
  <1> USE DEF Fases, TipoInv, PedidoCabe
  <1>1. UltimoMin \in Minutos \cup {SinMinuto} /\ Ejecutado \in BOOLEAN
    BY DEF UltimoMin, Ejecutado, TypeOK, Relojes
  <1>2. CASE sched_programado
    <2>1. PICK d \in 0 .. DSched : Pasa(d, FALSE, FALSE, TRUE)
      BY <1>2 DEF sched_programado
    <2>2. seguidas' \in 0 .. MaxSeguidas
      BY <1>2, Intervalos, AnchoAssumption DEF sched_programado, CorrespondeProg, TypeOK
    <2> QED BY <1>1, <1>2, <2>1, <2>2, PasaTipo DEF sched_programado, cada, TypeOK
  <1>3. 0 \in 0 .. MaxSeguidas /\ 0 < MaxSeguidas
    BY Intervalos, AnchoAssumption
  <1>4. CASE sched_auto
    <2>1. PICK d \in 0 .. DSched : Pasa(d, TRUE, suprimida, repetida)
      BY <1>4 DEF sched_auto
    <2>2. tick' \in 0 .. TickMod - 1
      BY <1>4, <2>1, PasaTipo DEF sched_auto, TypeOK
    <2>3. cada_interval_ms \in 1 .. IntervaloMax /\ cada_proximo_ms \in 0 .. TickMod - 1
      BY <1>4 DEF sched_auto, CorrespondeAuto, TypeOK
    <2>4. PICK x \in 1 .. cada_interval_ms : cada_proximo_ms' = Suma(tick', x)
      BY <1>4, <2>2, <2>3, SiguienteTipo DEF sched_auto
    <2>5. x \in 0 .. TickMod
      BY <2>3, Intervalos, AnchoAssumption
    <2>6. cada_proximo_ms' \in 0 .. TickMod - 1
      BY <2>2, <2>4, <2>5, SumaTipo
    <2> QED BY <1>1, <1>3, <1>4, <2>1, <2>6, PasaTipo DEF sched_auto, TypeOK
  <1>5. CASE sched_nada
    <2>1. PICK d \in 0 .. DSched : Pasa(d, TRUE, suprimida, repetida)
      BY <1>5 DEF sched_nada
    <2> QED BY <1>1, <1>3, <1>5, <2>1, PasaTipo DEF sched_nada, cada, TypeOK
  <1> QED BY <1>2, <1>4, <1>5 DEF scheduler_check

LEMMA TipoUi == TipoInv /\ Ui => TipoInv'
  <1> SUFFICES ASSUME TipoInv, Ui PROVE TipoInv'
    OBVIOUS
  <1> USE DEF Fases, TipoInv, PedidoCabe
  <1>1. CASE ui_otro
    <2>1. PICK d \in 0 .. DUi : Pasa(d, TRUE, suprimida, repetida)
      BY <1>1 DEF ui_otro
    <2> QED BY <1>1, <2>1, PasaTipo DEF ui_otro, prog, cada, TypeOK
  <1>2. ASSUME NEW h \in Horas, NEW m \in Minutos, ui_confirma_hora(h, m)
        PROVE  TipoInv'
    <2> DEFINE ahora == rtc.hour = h /\ rtc.min = m
    <2>1. PICK d \in 0 .. DUi : Pasa(d, FALSE, ahora, repetida)
      BY <1>2 DEF ui_confirma_hora
    <2> QED BY <1>2, <2>1, PasaTipo DEF ui_confirma_hora, cada, TypeOK
  <1>3. ASSUME NEW p \in PedidosCada, ui_confirma_cada(p)
        PROVE  TipoInv'
    <2>1. PICK d \in 0 .. DUi : Pasa(d, TRUE, suprimida, repetida)
      BY <1>3 DEF ui_confirma_cada
    <2>2. cada_set_intervalo(p)
      BY <1>3 DEF ui_confirma_cada
    <2> QED BY <1>3, <2>1, <2>2, CadaTipo, PasaTipo DEF ui_confirma_cada, prog, TypeOK
  <1> QED BY <1>1, <1>2, <1>3 DEF Ui

-----------------------------------------------------------------------------
(* The minute after a minute, and the one after that, are other minutes.   *)
LEMMA MinutosDistintos ==
  ASSUME NEW h \in Horas, NEW m \in Minutos,
         NEW p1, p1 = [hour |-> HoraSig([hour |-> h, min |-> m]),
                       min |-> MinSig([hour |-> h, min |-> m])],
         NEW p2, p2 = [hour |-> HoraSig(p1), min |-> MinSig(p1)]
  PROVE  /\ p1.hour \in Horas /\ p1.min \in Minutos /\ p1.min # m
         /\ p2.hour \in Horas /\ p2.min \in Minutos
         /\ p2.min # m /\ p2.min # p1.min
  <1>1. p1.hour \in Horas /\ p1.min \in Minutos /\ p1.min # m
    BY RelojAssumption DEF HoraSig, MinSig, Horas, Minutos
  <1>2. p2.hour \in Horas /\ p2.min \in Minutos /\ p2.min # p1.min
    BY <1>1, RelojAssumption DEF HoraSig, MinSig, Horas, Minutos
  <1>3. p2.min # m
    BY RelojAssumption DEF MinSig, Horas, Minutos
  <1> QED BY <1>1, <1>2, <1>3

(* What a phase does to the minute: it stays, or the next one begins and   *)
(* its second is less than the time the phase took.                        *)
LEMMA PasaMinuto ==
  ASSUME TypeOK, NEW d \in 0 .. DEsp \cup 0 .. DSched \cup 0 .. DUi,
         NEW sigue \in BOOLEAN, NEW sup \in BOOLEAN, NEW rep \in BOOLEAN,
         Pasa(d, sigue, sup, rep)
  PROVE  \/ /\ rtc'.hour = rtc.hour /\ rtc'.min = rtc.min
            /\ rtc'.sec = rtc.sec + d
            /\ firme' = (sigue /\ firme)
            /\ suprimida' = sup /\ repetida' = rep
         \/ /\ rtc'.hour = HoraSig(rtc) /\ rtc'.min = MinSig(rtc)
            /\ rtc'.sec = rtc.sec + d - TPM
            /\ rtc.sec + d >= TPM
            /\ firme' = disp_prog_activo'
            /\ suprimida' = FALSE /\ repetida' = FALSE
  <1>0. d \in 0 .. TPM - 1 /\ rtc \in Relojes
    BY FaseCorta DEF TypeOK
  <1>1. CASE CambiaMinuto(rtc, d)
    BY <1>0, <1>1, RelojTipo DEF Pasa, CambiaMinuto
  <1>2. CASE ~CambiaMinuto(rtc, d)
    BY <1>0, <1>2, RelojTipo DEF Pasa
  <1> QED BY <1>1, <1>2

PedidoInv == FirmeATiempo /\ EjecutadoCaduca /\ RepetidaSuprimida

(* In its minute, a request that waited for it is served by the next check. *)
LEMMA FirmeCorresponde ==
  ASSUME TypeOK, PedidoInv, firme, EnSuMinuto
  PROVE  CorrespondeProg
  <1>1. /\ rtc \in Relojes /\ disp_prog_hora \in Horas /\ disp_prog_min \in Minutos
        /\ disp_prog_activo
    BY DEF TypeOK, PedidoInv, FirmeATiempo
  <1>2. Pedido1.min # disp_prog_min /\ Pedido2.min # disp_prog_min
    BY <1>1, MinutosDistintos DEF Pedido, Pedido1, Pedido2
  <1>3. ~disp_prog_ejecutado
    BY <1>1, <1>2 DEF PedidoInv, EjecutadoCaduca, En, EnSuMinuto, Pedido
  <1> QED BY <1>1, <1>3 DEF CorrespondeProg, Ejecutado

(* A phase that leaves the request and ultimo_min as they are. *)
LEMMA PedidoSigue ==
  ASSUME TypeOK, PedidoInv, UNCHANGED <<prog, ultimo_min>>,
         NEW d \in 0 .. DEsp \cup 0 .. DUi,
         \/ pc = "esp" /\ pc' = "sched" /\ d \in 0 .. DEsp
         \/ pc = "ui" /\ pc' = "esp" /\ d \in 0 .. DUi,
         Pasa(d, TRUE, suprimida, repetida)
  PROVE  PedidoInv'
  <1> USE VueltaAssumption, RelojAssumption DEF Vuelta
  <1>1. /\ rtc \in Relojes /\ disp_prog_hora \in Horas /\ disp_prog_min \in Minutos
        /\ disp_prog_activo \in BOOLEAN /\ disp_prog_ejecutado \in BOOLEAN
        /\ firme \in BOOLEAN /\ suprimida \in BOOLEAN /\ repetida \in BOOLEAN
    BY DEF TypeOK
  <1>2. /\ disp_prog_activo' = disp_prog_activo
        /\ disp_prog_ejecutado' = disp_prog_ejecutado
        /\ disp_prog_hora' = disp_prog_hora /\ disp_prog_min' = disp_prog_min
        /\ ultimo_min' = ultimo_min
    BY DEF prog
  <1>3. Pedido' = Pedido /\ Pedido1' = Pedido1 /\ Pedido2' = Pedido2
    BY <1>2 DEF Pedido, Pedido1, Pedido2
  <1>4. Cota \in Nat /\ Cota' = Cota + (IF pc = "esp" THEN DEsp ELSE DUi)
        /\ Cota' <= TPM - 1
    BY DEF Cota
  <1>5. /\ Pedido1.hour \in Horas /\ Pedido1.min \in Minutos
        /\ Pedido1.min # disp_prog_min
        /\ Pedido2.hour \in Horas /\ Pedido2.min \in Minutos
        /\ Pedido2.min # disp_prog_min /\ Pedido2.min # Pedido1.min
    BY <1>1, MinutosDistintos DEF Pedido, Pedido1, Pedido2
  <1>6. CASE /\ rtc'.hour = rtc.hour /\ rtc'.min = rtc.min
             /\ rtc'.sec = rtc.sec + d
             /\ firme' = firme
             /\ suprimida' = suprimida /\ repetida' = repetida
    <2>1. rtc.sec < Cota => rtc'.sec < Cota'
      BY <1>1, <1>4, <1>6 DEF Relojes
    <2>2. FirmeATiempo'
      BY <1>2, <1>6, <2>1 DEF PedidoInv, FirmeATiempo, EnSuMinuto
    <2>3. EjecutadoCaduca'
      BY <1>2, <1>3, <1>6, <2>1 DEF PedidoInv, EjecutadoCaduca, En
    <2>4. RepetidaSuprimida'
      BY <1>2, <1>6 DEF PedidoInv, RepetidaSuprimida
    <2> QED BY <2>2, <2>3, <2>4 DEF PedidoInv
  <1>7. CASE /\ rtc'.hour = HoraSig(rtc) /\ rtc'.min = MinSig(rtc)
             /\ rtc'.sec = rtc.sec + d - TPM
             /\ rtc.sec + d >= TPM
             /\ firme' = disp_prog_activo'
             /\ suprimida' = FALSE /\ repetida' = FALSE
    <2>1. rtc'.sec < Cota' /\ ~(rtc.sec < Cota)
      BY <1>1, <1>4, <1>7 DEF Relojes
    <2>2. FirmeATiempo'
      BY <1>7, <2>1 DEF FirmeATiempo
    <2>3. /\ En(Pedido) => rtc'.hour = Pedido1.hour /\ rtc'.min = Pedido1.min
          /\ En(Pedido1) => rtc'.hour = Pedido2.hour /\ rtc'.min = Pedido2.min
      BY <1>1, <1>7, SMTT(30) DEF En, Pedido, Pedido1, Pedido2, HoraSig, MinSig, Relojes
    <2>4. EjecutadoCaduca'
      BY <1>2, <1>3, <2>1, <2>3 DEF PedidoInv, EjecutadoCaduca, En
    <2>5. RepetidaSuprimida'
      BY <1>7 DEF RepetidaSuprimida
    <2> QED BY <2>2, <2>4, <2>5 DEF PedidoInv
  <1> QED BY <1>1, <1>6, <1>7, PasaMinuto, ZenonT(20)

(* A phase that sets a request: from the app, ejecutado is cleared; from   *)
(* the panel it is set exactly when the request is for this minute.        *)
LEMMA PedidoNuevo ==
  ASSUME TypeOK, TypeOK', PedidoInv,
         disp_prog_activo' = TRUE, UNCHANGED ultimo_min,
         NEW d \in 0 .. DEsp \cup 0 .. DUi, NEW sup \in BOOLEAN,
         \/ /\ pc = "esp" /\ pc' = "sched" /\ d \in 0 .. DEsp
            /\ disp_prog_ejecutado' = FALSE /\ sup = FALSE
         \/ /\ pc = "ui" /\ pc' = "esp" /\ d \in 0 .. DUi
            /\ disp_prog_ejecutado' = sup
            /\ sup = (rtc.hour = disp_prog_hora' /\ rtc.min = disp_prog_min'),
         Pasa(d, FALSE, sup, repetida)
  PROVE  PedidoInv'
  <1> USE VueltaAssumption, RelojAssumption DEF Vuelta
  <1>1. /\ rtc \in Relojes /\ rtc' \in Relojes
        /\ disp_prog_hora' \in Horas /\ disp_prog_min' \in Minutos
        /\ disp_prog_ejecutado' \in BOOLEAN
        /\ firme \in BOOLEAN /\ suprimida \in BOOLEAN /\ repetida \in BOOLEAN
    BY DEF TypeOK
  <1>2. /\ Cota' \in Nat /\ d <= Cota' /\ d < TPM
        /\ pc = "esp" => d < Cota'
        /\ pc = "ui" => d < Cota'
    BY DEF Cota
  <1>3. CASE /\ rtc'.hour = rtc.hour /\ rtc'.min = rtc.min
             /\ rtc'.sec = rtc.sec + d
             /\ firme' = (FALSE /\ firme)
             /\ suprimida' = sup /\ repetida' = repetida
    <2>1. FirmeATiempo'
      BY <1>3 DEF FirmeATiempo
    <2>2. EjecutadoCaduca'
      BY <1>3 DEF EjecutadoCaduca, En, Pedido
    <2>3. RepetidaSuprimida'
      BY <1>3 DEF PedidoInv, RepetidaSuprimida
    <2> QED BY <2>1, <2>2, <2>3 DEF PedidoInv
  <1>4. CASE /\ rtc'.hour = HoraSig(rtc) /\ rtc'.min = MinSig(rtc)
             /\ rtc'.sec = rtc.sec + d - TPM
             /\ rtc.sec + d >= TPM
             /\ firme' = disp_prog_activo'
             /\ suprimida' = FALSE /\ repetida' = FALSE
    <2>1. rtc'.sec < Cota'
      BY <1>1, <1>2, <1>4 DEF Relojes
    <2>2. FirmeATiempo'
      BY <1>4, <2>1 DEF FirmeATiempo
    <2>3. disp_prog_ejecutado' => En(Pedido1)'
      BY <1>1, <1>4 DEF En, Pedido, Pedido1, HoraSig, MinSig, Relojes
    <2>4. EjecutadoCaduca'
      BY <2>1, <2>3 DEF EjecutadoCaduca
    <2>5. RepetidaSuprimida'
      BY <1>4 DEF RepetidaSuprimida
    <2> QED BY <2>2, <2>4, <2>5 DEF PedidoInv
  <1> QED BY <1>1, <1>3, <1>4, PasaMinuto

(* scheduler_check serves the request. *)
LEMMA PedidoServido ==
  ASSUME TypeOK, PedidoInv, sched_programado
  PROVE  PedidoInv'
  <1>1. PICK d \in 0 .. DSched : Pasa(d, FALSE, FALSE, TRUE)
    BY DEF sched_programado
  <1>2. disp_prog_activo' = FALSE /\ ultimo_min' = rtc.min
    BY DEF sched_programado, CorrespondeProg, UltimoMin
  <1>3. firme' = FALSE /\ suprimida' = FALSE /\ (repetida' => rtc'.min = rtc.min)
    BY <1>1, <1>2, PasaMinuto DEF TypeOK
  <1> QED BY <1>2, <1>3 DEF PedidoInv, FirmeATiempo, EjecutadoCaduca, RepetidaSuprimida

(* scheduler_check does not serve it, and refreshes the flags.             *)
LEMMA PedidoEspera ==
  ASSUME TypeOK, PedidoInv, ~CorrespondeProg,
         pc = "sched", pc' = "ui",
         UNCHANGED <<disp_prog_activo, disp_prog_hora, disp_prog_min>>,
         ultimo_min' = UltimoMin, disp_prog_ejecutado' = Ejecutado,
         NEW d \in 0 .. DSched, Pasa(d, TRUE, suprimida, repetida)
  PROVE  PedidoInv'
  <1> USE VueltaAssumption, RelojAssumption DEF Vuelta
  <1>1. /\ rtc \in Relojes /\ disp_prog_hora \in Horas /\ disp_prog_min \in Minutos
        /\ disp_prog_activo \in BOOLEAN /\ disp_prog_ejecutado \in BOOLEAN
        /\ firme \in BOOLEAN /\ suprimida \in BOOLEAN /\ repetida \in BOOLEAN
    BY DEF TypeOK
  <1>2. Pedido' = Pedido /\ Pedido1' = Pedido1 /\ Pedido2' = Pedido2
    BY DEF Pedido, Pedido1, Pedido2
  <1>3. /\ Pedido1.hour \in Horas /\ Pedido1.min \in Minutos
        /\ Pedido1.min # disp_prog_min
        /\ Pedido2.hour \in Horas /\ Pedido2.min \in Minutos
        /\ Pedido2.min # disp_prog_min /\ Pedido2.min # Pedido1.min
    BY <1>1, MinutosDistintos DEF Pedido, Pedido1, Pedido2
  <1>4. /\ disp_prog_activo => ultimo_min' = rtc.min
        /\ ~disp_prog_activo => ultimo_min' = ultimo_min
        /\ disp_prog_ejecutado' => disp_prog_ejecutado
        /\ disp_prog_activo /\ disp_prog_ejecutado' => ultimo_min = rtc.min
        /\ disp_prog_ejecutado /\ ultimo_min = rtc.min => disp_prog_ejecutado'
    BY <1>1 DEF UltimoMin, Ejecutado
  <1>5. ~(firme /\ EnSuMinuto)
    BY FirmeCorresponde
  <1>6. disp_prog_activo /\ disp_prog_ejecutado' =>
          \/ En(Pedido) /\ ~firme
          \/ En(Pedido1)
    BY <1>3, <1>4 DEF PedidoInv, EjecutadoCaduca, En
  <1>7. Cota' = DSched
    BY DEF Cota
  <1>8. CASE /\ rtc'.hour = rtc.hour /\ rtc'.min = rtc.min
             /\ rtc'.sec = rtc.sec + d
             /\ firme' = firme
             /\ suprimida' = suprimida /\ repetida' = repetida
    <2>1. FirmeATiempo'
      BY <1>5, <1>8 DEF PedidoInv, FirmeATiempo, EnSuMinuto
    <2>2. EjecutadoCaduca'
      BY <1>2, <1>4, <1>6, <1>8 DEF EjecutadoCaduca, En
    <2>3. RepetidaSuprimida'
      BY <1>4, <1>8 DEF PedidoInv, RepetidaSuprimida
    <2> QED BY <2>1, <2>2, <2>3 DEF PedidoInv
  <1>9. CASE /\ rtc'.hour = HoraSig(rtc) /\ rtc'.min = MinSig(rtc)
             /\ rtc'.sec = rtc.sec + d - TPM
             /\ rtc.sec + d >= TPM
             /\ firme' = disp_prog_activo'
             /\ suprimida' = FALSE /\ repetida' = FALSE
    <2>1. rtc'.sec < Cota'
      BY <1>1, <1>7, <1>9 DEF Relojes
    <2>2. FirmeATiempo'
      BY <1>9, <2>1 DEF FirmeATiempo
    <2>3. /\ En(Pedido) => rtc'.hour = Pedido1.hour /\ rtc'.min = Pedido1.min
          /\ En(Pedido1) => rtc'.hour = Pedido2.hour /\ rtc'.min = Pedido2.min
      BY <1>1, <1>9 DEF En, Pedido, Pedido1, Pedido2, HoraSig, MinSig, Relojes
    <2>4. EjecutadoCaduca'
      BY <1>2, <1>4, <1>6, <2>1, <2>3 DEF EjecutadoCaduca, En
    <2>5. RepetidaSuprimida'
      BY <1>9 DEF RepetidaSuprimida
    <2> QED BY <2>2, <2>4, <2>5 DEF PedidoInv
  <1> QED BY <1>1, <1>8, <1>9, PasaMinuto

LEMMA ProgInvNext == ProgInv /\ [Next]_vars => ProgInv'
  <1> SUFFICES ASSUME ProgInv, [Next]_vars PROVE ProgInv'
    OBVIOUS
  <1>0. TipoInv /\ TypeOK /\ PedidoInv
    BY DEF ProgInv, TipoInv, PedidoInv
  <1>1. ASSUME PedidoInv', TipoInv' PROVE ProgInv'
    BY <1>1 DEF ProgInv, TipoInv, PedidoInv
  <1>2. CASE Esp
    <2>1. TipoInv'
      BY <1>0, <1>2, TipoEsp
    <2>2. CASE esp_otro
      <3>1. PICK d \in 0 .. DEsp : Pasa(d, TRUE, suprimida, repetida)
        BY <2>2 DEF esp_otro
      <3> QED BY <1>0, <1>1, <2>1, <2>2, <3>1, PedidoSigue DEF esp_otro
    <2>3. ASSUME NEW h \in 0 .. U8MAX, NEW m \in 0 .. U8MAX,
                 api_programar_una_vez(h, m)
          PROVE  ProgInv'
      <3>1. PICK d \in 0 .. DEsp : Pasa(d, FALSE, FALSE, repetida)
        BY <2>3 DEF api_programar_una_vez
      <3> QED BY <1>0, <1>1, <2>1, <2>3, <3>1, PedidoNuevo
              DEF api_programar_una_vez, TipoInv
    <2>4. ASSUME NEW p \in PedidosCada, api_cada_intervalo(p) PROVE ProgInv'
      <3>1. PICK d \in 0 .. DEsp : Pasa(d, TRUE, suprimida, repetida)
        BY <2>4 DEF api_cada_intervalo
      <3> QED BY <1>0, <1>1, <2>1, <2>4, <3>1, PedidoSigue DEF api_cada_intervalo
    <2> QED BY <1>2, <2>2, <2>3, <2>4 DEF Esp
  <1>3. CASE scheduler_check
    <2>1. TipoInv'
      BY <1>0, <1>3, TipoSched
    <2>2. CASE sched_programado
      BY <1>0, <1>1, <2>1, <2>2, PedidoServido
    <2>3. CASE sched_auto
      <3>1. PICK d \in 0 .. DSched : Pasa(d, TRUE, suprimida, repetida)
        BY <2>3 DEF sched_auto
      <3> QED BY <1>0, <1>1, <2>1, <2>3, <3>1, PedidoEspera DEF sched_auto
    <2>4. CASE sched_nada
      <3>1. PICK d \in 0 .. DSched : Pasa(d, TRUE, suprimida, repetida)
        BY <2>4 DEF sched_nada
      <3> QED BY <1>0, <1>1, <2>1, <2>4, <3>1, PedidoEspera DEF sched_nada
    <2> QED BY <1>3, <2>2, <2>3, <2>4 DEF scheduler_check
  <1>4. CASE Ui
    <2>1. TipoInv'
      BY <1>0, <1>4, TipoUi
    <2>2. CASE ui_otro
      <3>1. PICK d \in 0 .. DUi : Pasa(d, TRUE, suprimida, repetida)
        BY <2>2 DEF ui_otro
      <3> QED BY <1>0, <1>1, <2>1, <2>2, <3>1, PedidoSigue DEF ui_otro
    <2>3. ASSUME NEW h \in Horas, NEW m \in Minutos, ui_confirma_hora(h, m)
          PROVE  ProgInv'
      <3> DEFINE sup == rtc.hour = h /\ rtc.min = m
      <3>1. PICK d \in 0 .. DUi : Pasa(d, FALSE, sup, repetida)
        BY <2>3 DEF ui_confirma_hora
      <3>2. sup = (rtc.hour = disp_prog_hora' /\ rtc.min = disp_prog_min')
        BY <2>3 DEF ui_confirma_hora
      <3>3. disp_prog_ejecutado' = sup
        BY <2>3 DEF ui_confirma_hora
      <3>4. /\ disp_prog_activo' = TRUE /\ ultimo_min' = ultimo_min
            /\ pc = "ui" /\ pc' = "esp"
        BY <2>3 DEF ui_confirma_hora
      <3>5. sup \in BOOLEAN
        OBVIOUS
      <3> HIDE DEF sup
      <3>6. PedidoInv'
        BY <1>0, <2>1, <3>1, <3>2, <3>3, <3>4, <3>5, PedidoNuevo DEF TipoInv
      <3> QED BY <1>1, <2>1, <3>6
    <2>4. ASSUME NEW p \in PedidosCada, ui_confirma_cada(p) PROVE ProgInv'
      <3>1. PICK d \in 0 .. DUi : Pasa(d, TRUE, suprimida, repetida)
        BY <2>4 DEF ui_confirma_cada
      <3> QED BY <1>0, <1>1, <2>1, <2>4, <3>1, PedidoSigue DEF ui_confirma_cada
    <2> QED BY <1>4, <2>2, <2>3, <2>4 DEF Ui
  <1>5. CASE UNCHANGED vars
    BY <1>5 DEF vars, prog, cada, historia, ProgInv, TypeOK, PedidoCabe, FirmeATiempo,
                EjecutadoCaduca, RepetidaSuprimida, EnSuMinuto, En, Cota,
                Pedido, Pedido1, Pedido2
  <1> QED BY <1>2, <1>3, <1>4, <1>5 DEF Next

(* Type correctness, and no stale flag reaches the minute of its request   *)
(* again, for every size of the day, the counters and the blocking times.  *)
THEOREM Pedidos == Spec => []ProgInv
  BY ProgInvInit, ProgInvNext, PTL DEF Spec

(* Every variable of the scheduler, the panel and the clock keeps its type. *)
THEOREM Tipos == Spec => []TypeOK
  <1>1. ProgInv => TypeOK
    BY DEF ProgInv
  <1> QED BY <1>1, Pedidos, PTL

(* A disp_prog_ejecutado left set does not live until the minute of the    *)
(* request comes again: it is gone two minutes after that minute.          *)
THEOREM Caduca == Spec => []EjecutadoCaduca
  <1>1. ProgInv => EjecutadoCaduca
    BY DEF ProgInv
  <1> QED BY <1>1, Pedidos, PTL

-----------------------------------------------------------------------------
(* Every step of the loop is a phase that lets at most its time pass.      *)
LEMMA FasePasa ==
  ASSUME TypeOK, Next
  PROVE  \E d \in 0 .. DEsp \cup 0 .. DSched \cup 0 .. DUi,
            sigue, sup, rep \in BOOLEAN :
           /\ Pasa(d, sigue, sup, rep)
           /\ \/ pc = "esp" /\ d \in 0 .. DEsp
              \/ pc = "sched" /\ d \in 0 .. DSched
              \/ pc = "ui" /\ d \in 0 .. DUi
  <1>0. suprimida \in BOOLEAN /\ repetida \in BOOLEAN
    BY DEF TypeOK
  <1>1. CASE Esp
    BY <1>0, <1>1 DEF Esp, esp_otro, api_programar_una_vez, api_cada_intervalo
  <1>2. CASE scheduler_check
    BY <1>0, <1>2 DEF scheduler_check, sched_programado, sched_auto, sched_nada
  <1>3. CASE Ui
    <2>1. CASE ui_otro \/ \E p \in PedidosCada : ui_confirma_cada(p)
      BY <1>0, <2>1 DEF ui_otro, ui_confirma_cada
    <2>2. ASSUME NEW h \in Horas, NEW m \in Minutos, ui_confirma_hora(h, m)
          PROVE  \E d \in 0 .. DUi, sup \in BOOLEAN :
                   Pasa(d, FALSE, sup, repetida) /\ pc = "ui"
      <3> DEFINE sup == rtc.hour = h /\ rtc.min = m
      <3>1. PICK d \in 0 .. DUi : Pasa(d, FALSE, sup, repetida)
        BY <2>2 DEF ui_confirma_hora
      <3>2. sup \in BOOLEAN /\ pc = "ui"
        BY <2>2 DEF ui_confirma_hora
      <3> QED BY <3>1, <3>2
    <2> QED BY <1>0, <1>3, <2>1, <2>2 DEF Ui
  <1> QED BY <1>1, <1>2, <1>3 DEF Next

(* Leaving the minute of a request that waited for it serves the request.  *)
LEMMA Salteo ==
  ASSUME ProgInv, Next, disp_prog_activo, firme, EnSuMinuto,
         rtc'.hour # rtc.hour \/ rtc'.min # rtc.min
  PROVE  sched_programado
  <1>0. TypeOK /\ PedidoInv /\ rtc \in Relojes
    BY DEF ProgInv, PedidoInv, TypeOK
  <1>1. CorrespondeProg
    BY <1>0, FirmeCorresponde
  <1>2. rtc.sec < Cota
    BY <1>0 DEF PedidoInv, FirmeATiempo
  <1>3. PICK d \in 0 .. DEsp \cup 0 .. DSched \cup 0 .. DUi,
             sigue, sup, rep \in BOOLEAN :
               /\ Pasa(d, sigue, sup, rep)
               /\ \/ pc = "esp" /\ d \in 0 .. DEsp
                  \/ pc = "sched" /\ d \in 0 .. DSched
                  \/ pc = "ui" /\ d \in 0 .. DUi
    BY <1>0, FasePasa
  <1>4. rtc.sec + d >= TPM
    BY <1>0, <1>3, PasaMinuto
  <1>5. pc = "sched"
    BY <1>0, <1>2, <1>3, <1>4, VueltaAssumption, RelojAssumption
       DEF Cota, Vuelta, Relojes, TypeOK, Fases
  <1>6. ~Esp /\ ~Ui
    BY <1>5 DEF Esp, Ui, esp_otro, api_programar_una_vez, api_cada_intervalo,
                ui_otro, ui_confirma_hora, ui_confirma_cada
  <1> QED BY <1>1, <1>6 DEF Next, scheduler_check, sched_auto, sched_nada

(* A request that is pending when its minute begins is served in it: no    *)
(* blocking of the loop within the assumed times makes it miss the minute. *)
THEOREM NingunoSeSaltea == Spec => NuncaSeSaltea
  <1>1. ProgInv /\ [Next]_vars =>
          [ (/\ <<rtc'.hour, rtc'.min>> # <<rtc.hour, rtc.min>>
             /\ disp_prog_activo /\ firme /\ EnSuMinuto)
            => ~disp_prog_activo' ]_vars
    <2> SUFFICES ASSUME ProgInv, Next,
                        <<rtc'.hour, rtc'.min>> # <<rtc.hour, rtc.min>>,
                        disp_prog_activo, firme, EnSuMinuto
                 PROVE  ~disp_prog_activo'
      OBVIOUS
    <2>1. sched_programado
      BY Salteo
    <2> QED BY <2>1 DEF sched_programado
  <1> QED BY <1>1, Pedidos, PTL DEF Spec, NuncaSeSaltea

(* The panel cannot make a served request fire again in its minute.        *)
THEOREM SinRepeticion == Spec => NoRepiteDesdeElPanel
  <1>1. ProgInv /\ [Next]_vars => [Sirve => ~(suprimida /\ repetida)]_vars
    <2> SUFFICES ASSUME ProgInv, Next, Sirve, suprimida, repetida PROVE FALSE
      OBVIOUS
    <2>1. sched_programado
      BY DEF Sirve, Next, Esp, scheduler_check, Ui, esp_otro, api_programar_una_vez,
             api_cada_intervalo, sched_auto, sched_nada, ui_otro, ui_confirma_hora,
             ui_confirma_cada, prog
    <2>2. disp_prog_ejecutado /\ ultimo_min = rtc.min
      BY DEF ProgInv, RepetidaSuprimida
    <2> QED BY <2>1, <2>2 DEF sched_programado, CorrespondeProg, Ejecutado
  <1> QED BY <1>1, Pedidos, PTL DEF Spec, NoRepiteDesdeElPanel

-----------------------------------------------------------------------------
(* The dispense at time X implements Agenda. *)

LEMMA AgendaInicio == Init => A!AgendaInit
  <1> SUFFICES ASSUME Init PROVE A!AgendaInit
    OBVIOUS
  <1>1. rtc \in Relojes /\ disp_prog_activo = FALSE /\ firme = FALSE
    BY RelojAssumption DEF Init
  <1>2. Ahora \in Horas \X Minutos
    BY <1>1 DEF Ahora, Relojes
  <1> QED BY <1>1, <1>2 DEF A!AgendaInit

(* The clock of Agenda follows the RTC through every phase. *)
LEMMA AgendaReloj ==
  ASSUME TypeOK, TypeOK', NEW d \in 0 .. DEsp \cup 0 .. DSched \cup 0 .. DUi,
         NEW sigue \in BOOLEAN, NEW sup \in BOOLEAN, NEW rep \in BOOLEAN,
         Pasa(d, sigue, sup, rep)
  PROVE  A!Reloj(sigue)
  <1> DEFINE p == IF disp_prog_activo
                  THEN <<disp_prog_hora, disp_prog_min>> ELSE <<>>
  <1>0. rtc \in Relojes /\ rtc' \in Relojes
    BY DEF TypeOK
  <1>1. CASE /\ rtc'.hour = rtc.hour /\ rtc'.min = rtc.min
             /\ firme' = (sigue /\ firme)
    BY <1>1 DEF A!Reloj, Ahora
  <1>2. CASE /\ rtc'.hour = HoraSig(rtc) /\ rtc'.min = MinSig(rtc)
             /\ firme' = disp_prog_activo'
    <2>1. Sigue(Ahora, Ahora')
      BY <1>0, <1>2 DEF Sigue, Ahora
    <2>2. firme' = (p' # <<>>)
      <3>1. CASE disp_prog_activo'
        BY <1>2, <3>1 DEF TypeOK
      <3>2. CASE ~disp_prog_activo'
        BY <1>2, <3>2 DEF TypeOK
      <3> QED BY <3>1, <3>2
    <2> QED BY <2>1, <2>2 DEF A!Reloj
  <1> QED BY <1>1, <1>2, PasaMinuto

LEMMA AgendaPaso == ProgInv /\ [Next]_vars => [A!AgendaNext]_(A!agenda)
  <1> SUFFICES ASSUME ProgInv, [Next]_vars PROVE [A!AgendaNext]_(A!agenda)
    OBVIOUS
  <1> DEFINE p == IF disp_prog_activo
                  THEN <<disp_prog_hora, disp_prog_min>> ELSE <<>>
  <1>0. /\ TypeOK /\ PedidoInv /\ rtc \in Relojes
        /\ disp_prog_activo \in BOOLEAN /\ firme \in BOOLEAN
        /\ suprimida \in BOOLEAN /\ repetida \in BOOLEAN
        /\ disp_prog_hora \in Horas /\ disp_prog_min \in Minutos
    BY DEF ProgInv, PedidoInv, TypeOK
  <1>1. CASE UNCHANGED vars
    BY <1>1 DEF vars, prog, historia, A!agenda, Ahora
  <1>2. CASE Next
    <2>1. TypeOK'
      BY <1>2, ProgInvNext DEF ProgInv
    <2>2. CASE sched_programado
      <3>1. PICK d \in 0 .. DSched : Pasa(d, FALSE, FALSE, TRUE)
        BY <2>2 DEF sched_programado
      <3>2. A!Reloj(FALSE)
        BY <1>0, <2>1, <3>1, AgendaReloj
      <3>3. p = Ahora /\ p' = <<>>
        BY <2>2 DEF sched_programado, CorrespondeProg, EnSuMinuto, Ahora
      <3>4. A!Servir
        BY <3>2, <3>3 DEF A!Servir
      <3> QED BY <3>4 DEF A!AgendaNext
    <2>3. ASSUME ~sched_programado
          PROVE  ~(firme /\ p = Ahora /\ Ahora' # Ahora)
      <3> SUFFICES ASSUME firme, p = Ahora, Ahora' # Ahora PROVE FALSE
        OBVIOUS
      <3>1. disp_prog_activo
        BY <1>0 DEF PedidoInv, FirmeATiempo
      <3>2. EnSuMinuto
        BY <3>1 DEF Ahora, EnSuMinuto
      <3>3. rtc'.hour # rtc.hour \/ rtc'.min # rtc.min
        BY DEF Ahora
      <3> QED BY <1>2, <2>3, <3>1, <3>2, <3>3, Salteo
    <2>4. ASSUME NEW d \in 0 .. DEsp \cup 0 .. DSched \cup 0 .. DUi,
                 Pasa(d, TRUE, suprimida, repetida), ~sched_programado,
                 UNCHANGED <<disp_prog_activo, disp_prog_hora, disp_prog_min>>
          PROVE  A!AgendaNext
      <3>1. A!Reloj(TRUE)
        BY <1>0, <2>1, <2>4, AgendaReloj
      <3>2. p' = p
        BY <2>4
      <3>3. A!Esperar
        BY <2>3, <2>4, <3>1, <3>2 DEF A!Esperar
      <3> QED BY <3>3 DEF A!AgendaNext
    <2>5. ASSUME NEW d \in 0 .. DEsp \cup 0 .. DUi, NEW sup \in BOOLEAN,
                 Pasa(d, FALSE, sup, repetida), disp_prog_activo' = TRUE,
                 ~sched_programado
          PROVE  A!AgendaNext
      <3>1. A!Reloj(FALSE)
        BY <1>0, <2>1, <2>5, AgendaReloj
      <3>2. p' \in Horas \X Minutos
        BY <2>1, <2>5 DEF TypeOK
      <3>3. A!Pedir
        BY <2>3, <2>5, <3>1, <3>2 DEF A!Pedir
      <3> QED BY <3>3 DEF A!AgendaNext
    <2>6. CASE esp_otro \/ \E q \in PedidosCada : api_cada_intervalo(q)
      <3>1. /\ UNCHANGED prog /\ pc = "esp"
            /\ \E d \in 0 .. DEsp : Pasa(d, TRUE, suprimida, repetida)
        BY <2>6 DEF esp_otro, api_cada_intervalo
      <3> QED BY <2>4, <3>1 DEF prog, sched_programado
    <2>7. CASE ui_otro \/ \E q \in PedidosCada : ui_confirma_cada(q)
      <3>1. /\ UNCHANGED prog /\ pc = "ui"
            /\ \E d \in 0 .. DUi : Pasa(d, TRUE, suprimida, repetida)
        BY <2>7 DEF ui_otro, ui_confirma_cada
      <3> QED BY <2>4, <3>1 DEF prog, sched_programado
    <2>8. CASE sched_auto \/ sched_nada
      <3>1. /\ UNCHANGED <<disp_prog_activo, disp_prog_hora, disp_prog_min>>
            /\ ~CorrespondeProg
            /\ \E d \in 0 .. DSched : Pasa(d, TRUE, suprimida, repetida)
        BY <2>8 DEF sched_auto, sched_nada
      <3> QED BY <2>4, <3>1 DEF sched_programado
    <2>9. CASE \E h, m \in 0 .. U8MAX : api_programar_una_vez(h, m)
      <3>1. /\ disp_prog_activo' = TRUE /\ pc = "esp"
            /\ \E d \in 0 .. DEsp : Pasa(d, FALSE, FALSE, repetida)
        BY <2>9 DEF api_programar_una_vez
      <3> QED BY <2>5, <3>1 DEF sched_programado
    <2>10. ASSUME NEW h \in Horas, NEW m \in Minutos, ui_confirma_hora(h, m)
           PROVE  A!AgendaNext
      <3> DEFINE sup == rtc.hour = h /\ rtc.min = m
      <3>1. PICK d \in 0 .. DUi : Pasa(d, FALSE, sup, repetida)
        BY <2>10 DEF ui_confirma_hora
      <3>2. sup \in BOOLEAN /\ disp_prog_activo' = TRUE /\ ~sched_programado
        BY <2>10 DEF ui_confirma_hora, sched_programado
      <3> HIDE DEF sup
      <3> QED BY <2>5, <3>1, <3>2
    <2> QED
      BY <1>2, <2>2, <2>6, <2>7, <2>8, <2>9, <2>10 DEF Next, Esp, scheduler_check, Ui
  <1> QED BY <1>1, <1>2

(* The scheduler implements the abstract agenda. *)
THEOREM Refina == Spec => CumpleAgenda
  BY AgendaInicio, AgendaPaso, Pedidos, PTL DEF Spec, CumpleAgenda, A!AgendaSpec

-----------------------------------------------------------------------------
(* The periodic dispense: arithmetic of the counter.                       *)

(* The bound of the lateness, and what a dispense of the scheduler adds.   *)
LEMMA Vueltas ==
  \A a \in 0 .. MaxSeguidas :
    /\ a * Vuelta \in Nat
    /\ a * Vuelta + Vuelta <= (MaxSeguidas + 1) * Vuelta
    /\ (a + 1) * Vuelta = a * Vuelta + Vuelta
  <1>1. Vuelta \in Nat /\ MaxSeguidas \in Nat
    BY VueltaAssumption, Intervalos, AnchoAssumption DEF Vuelta
  <1>2. \A a, b, v \in Nat : a <= b => a * v \in Nat /\ a * v <= b * v
    OBVIOUS
  <1>3. \A a, v \in Nat : (a + 1) * v = a * v + v
    OBVIOUS
  <1> SUFFICES ASSUME NEW a \in 0 .. MaxSeguidas
               PROVE  /\ a * Vuelta \in Nat
                      /\ a * Vuelta + Vuelta <= (MaxSeguidas + 1) * Vuelta
                      /\ (a + 1) * Vuelta = a * Vuelta + Vuelta
    OBVIOUS
  <1> HIDE DEF Vuelta
  <1>4. a \in Nat /\ a <= MaxSeguidas
    BY <1>1
  <1>5. a * Vuelta \in Nat /\ a * Vuelta <= MaxSeguidas * Vuelta
    BY <1>1, <1>2, <1>4
  <1>6. /\ (a + 1) * Vuelta = a * Vuelta + Vuelta
        /\ (MaxSeguidas + 1) * Vuelta = MaxSeguidas * Vuelta + Vuelta
    BY <1>1, <1>3, <1>4
  <1>7. MaxSeguidas * Vuelta \in Nat
    BY <1>1, <1>2
  <1> QED BY <1>1, <1>5, <1>6, <1>7

LEMMA Atrasos ==
  ASSUME TypeOK
  PROVE  AtrasoMax \in Nat /\ AtrasoMax <= (MaxSeguidas + 1) * Vuelta
  <1>1. /\ Vuelta \in Nat /\ DSched <= Vuelta /\ DSched + DUi <= Vuelta
        /\ DSched \in Nat /\ DUi \in Nat
    BY VueltaAssumption DEF Vuelta
  <1>2. /\ seguidas * Vuelta \in Nat
        /\ seguidas * Vuelta + Vuelta <= (MaxSeguidas + 1) * Vuelta
    BY Vueltas DEF TypeOK
  <1> DEFINE base == seguidas * Vuelta
             tope == (MaxSeguidas + 1) * Vuelta
             fase == CASE pc = "ui"    -> DSched
                       [] pc = "esp"   -> DSched + DUi
                       [] pc = "sched" -> Vuelta
  <1>3. fase \in Nat /\ fase <= Vuelta
    BY <1>1 DEF TypeOK, Fases
  <1>4. AtrasoMax = base + fase
    BY DEF AtrasoMax
  <1>5. base \in Nat /\ base + Vuelta <= tope /\ tope \in Nat
    BY <1>1, <1>2, Intervalos, AnchoAssumption
  <1> HIDE DEF base, tope, fase
  <1>6. AtrasoMax \in Nat /\ AtrasoMax <= tope
    BY <1>1, <1>3, <1>4, <1>5
  <1> QED BY <1>6 DEF tope

LEMMA Anchos ==
  /\ TickMod \in Nat /\ Medio \in Nat /\ IntervaloMax \in Nat /\ TPM \in Nat
  /\ Medio + IntervaloMax <= TickMod /\ TPM < Medio /\ IntervaloMax + TPM < Medio
  /\ \A y \in Nat : y <= (MaxSeguidas + 1) * Vuelta => y + TPM < Medio
  <1> DEFINE a == (MaxSeguidas + 1) * Vuelta
  <1>1. a \in Nat
    BY Intervalos, AnchoAssumption, VueltaAssumption DEF Vuelta
  <1>2. /\ TickMod \in Nat /\ Medio \in Nat /\ IntervaloMax \in Nat /\ TPM \in Nat
        /\ IntervaloMax + a + TPM < Medio
        /\ Medio + IntervaloMax <= TickMod
    BY Intervalos, AnchoAssumption, RelojAssumption
  <1> HIDE DEF a
  <1>3. \A y \in Nat : y <= a => y + TPM < Medio
    BY <1>1, <1>2
  <1>4. TPM < Medio /\ IntervaloMax + TPM < Medio
    BY <1>1, <1>2
  <1> QED BY <1>2, <1>3, <1>4 DEF a

(* The instant p seen from t: ahead by x when Resta(p, t) = x, late by y   *)
(* when Resta(t, p) = y; what remains when d units pass.                   *)
LEMMA Acercarse ==
  ASSUME NEW t \in 0 .. TickMod - 1, NEW p \in 0 .. TickMod - 1,
         NEW d \in 0 .. TPM - 1
  PROVE  /\ \A x \in 1 .. IntervaloMax : Resta(p, t) = x =>
              IF d < x THEN Resta(p, Suma(t, d)) = x - d
                       ELSE Resta(Suma(t, d), p) = d - x
         /\ \A y \in Nat : Resta(t, p) = y /\ y + TPM < Medio =>
              Resta(Suma(t, d), p) = y + d
  BY Anchos DEF Resta, Suma

(* An instant x units after t is ahead of it by x. *)
LEMMA Adelante ==
  ASSUME NEW t \in 0 .. TickMod - 1, NEW x \in 1 .. IntervaloMax
  PROVE  Resta(Suma(t, x), t) = x
  BY Anchos DEF Resta, Suma

(* A phase that leaves the period alone and allows at least d more units.  *)
LEMMA CadaSigue ==
  ASSUME TypeOK, CadaInv, UNCHANGED cada,
         NEW d \in 0 .. TPM - 1, tick' = Suma(tick, d),
         NEW D \in Nat, d <= D, AtrasoMax' = AtrasoMax + D
  PROVE  CadaInv'
  <1> SUFFICES ASSUME cada_activo'
               PROVE  CadaInv'
    BY DEF CadaInv, IntervaloVale, AtrasoAcotado
  <1>1. /\ cada_activo /\ cada_interval_ms >= TPM
        /\ cada_interval_ms' = cada_interval_ms /\ cada_proximo_ms' = cada_proximo_ms
        /\ cada_interval_ms \in 1 .. IntervaloMax
        /\ cada_proximo_ms \in 0 .. TickMod - 1 /\ tick \in 0 .. TickMod - 1
    BY Anchos, RelojAssumption DEF cada, CadaInv, IntervaloVale, TypeOK
  <1>2. AtrasoMax \in Nat /\ AtrasoMax + TPM < Medio
    BY Atrasos, Anchos
  <1>3. CASE Resta(cada_proximo_ms, tick) \in 1 .. cada_interval_ms
    <2> DEFINE x == Resta(cada_proximo_ms, tick)
    <2>1. x \in 1 .. IntervaloMax /\ x <= cada_interval_ms
      BY <1>1, <1>3, Anchos
    <2>2. IF d < x THEN Resta(cada_proximo_ms, tick') = x - d
                   ELSE Resta(tick', cada_proximo_ms) = d - x
      BY <1>1, <2>1, Acercarse
    <2> HIDE DEF x
    <2>3. CASE d < x
      <3>1. Resta(cada_proximo_ms, tick') \in 1 .. cada_interval_ms
        BY <1>1, <2>1, <2>2, <2>3
      <3> QED BY <1>1, <3>1 DEF CadaInv, IntervaloVale, AtrasoAcotado
    <2>4. CASE ~(d < x)
      <3>1. Resta(tick', cada_proximo_ms) <= AtrasoMax'
        BY <1>2, <2>1, <2>2, <2>4
      <3> QED BY <1>1, <3>1 DEF CadaInv, IntervaloVale, AtrasoAcotado
    <2> QED BY <2>3, <2>4
  <1>4. CASE Resta(tick, cada_proximo_ms) <= AtrasoMax
    <2> DEFINE y == Resta(tick, cada_proximo_ms)
    <2>1. y \in Nat /\ y + TPM < Medio
      BY <1>1, <1>2, <1>4, Anchos DEF Resta
    <2>2. Resta(tick', cada_proximo_ms) = y + d
      BY <1>1, <2>1, Acercarse
    <2>3. y <= AtrasoMax
      BY <1>4
    <2> HIDE DEF y
    <2>4. Resta(tick', cada_proximo_ms) <= AtrasoMax'
      BY <1>2, <2>1, <2>2, <2>3
    <2> QED BY <1>1, <2>4 DEF CadaInv, IntervaloVale, AtrasoAcotado
  <1> QED BY <1>1, <1>3, <1>4 DEF CadaInv, AtrasoAcotado

(* A phase in which the next dispense was ahead, by at most the period,    *)
(* when it began, and that allows the d units it takes.                    *)
LEMMA CadaAdelante ==
  ASSUME TypeOK, NEW d \in 0 .. TPM - 1, tick' = Suma(tick, d),
         cada_interval_ms' \in 1 .. IntervaloMax, cada_interval_ms' >= TPM,
         cada_proximo_ms' \in 0 .. TickMod - 1,
         Resta(cada_proximo_ms', tick) \in 1 .. cada_interval_ms',
         AtrasoMax' \in Nat, d <= AtrasoMax'
  PROVE  CadaInv'
  <1> DEFINE x == Resta(cada_proximo_ms', tick)
  <1>1. x \in 1 .. IntervaloMax /\ x <= cada_interval_ms' /\ tick \in 0 .. TickMod - 1
    BY Anchos DEF TypeOK
  <1>2. IF d < x THEN Resta(cada_proximo_ms', tick') = x - d
                 ELSE Resta(tick', cada_proximo_ms') = d - x
    BY <1>1, Acercarse
  <1> HIDE DEF x
  <1>3. CASE d < x
    <2>1. Resta(cada_proximo_ms', tick') \in 1 .. cada_interval_ms'
      BY <1>1, <1>2, <1>3
    <2> QED BY <2>1, Anchos DEF CadaInv, IntervaloVale, AtrasoAcotado
  <1>4. CASE ~(d < x)
    <2>1. Resta(tick', cada_proximo_ms') <= AtrasoMax'
      BY <1>1, <1>2, <1>4
    <2> QED BY <2>1, Anchos DEF CadaInv, IntervaloVale, AtrasoAcotado
  <1> QED BY <1>3, <1>4

(* cada_set_intervalo in a phase. *)
LEMMA CadaNueva ==
  ASSUME TypeOK, CadaInv, NEW p \in PedidosCada, cada_set_intervalo(p),
         NEW d \in 0 .. TPM - 1, tick' = Suma(tick, d),
         AtrasoMax' \in Nat, d <= AtrasoMax'
  PROVE  CadaInv'
  <1>1. CASE p = <<0, 0>>
    BY <1>1 DEF cada_set_intervalo, CadaInv, IntervaloVale, AtrasoAcotado
  <1>2. CASE p # <<0, 0>>
    <2>1. /\ cada_interval_ms' \in 1 .. IntervaloMax /\ cada_interval_ms' >= TPM
          /\ cada_proximo_ms' \in 0 .. TickMod - 1
          /\ cada_proximo_ms' = Suma(tick, cada_interval_ms')
      BY <1>2, CadaTipo DEF cada_set_intervalo
    <2>2. Resta(cada_proximo_ms', tick) = cada_interval_ms'
      BY <2>1, Adelante DEF TypeOK
    <2>3. Resta(cada_proximo_ms', tick) \in 1 .. cada_interval_ms'
      BY <2>1, <2>2, Anchos
    <2> QED BY <2>1, <2>3, CadaAdelante
  <1> QED BY <1>1, <1>2

LEMMA CadaInvInit == Init => CadaInv
  BY DEF Init, CadaInv, IntervaloVale, AtrasoAcotado

LEMMA CadaInvNext == ProgInv /\ CadaInv /\ [Next]_vars => CadaInv'
  <1> SUFFICES ASSUME ProgInv, CadaInv, [Next]_vars PROVE CadaInv'
    OBVIOUS
  <1>0. TypeOK /\ TypeOK'
    BY ProgInvNext DEF ProgInv
  <1>1. CASE UNCHANGED vars
    BY <1>1 DEF vars, cada, CadaInv, IntervaloVale, AtrasoAcotado, AtrasoMax
  <1>2. /\ DEsp \in Nat /\ DSched \in Nat /\ DUi \in Nat
        /\ \A d : d \in 0 .. DEsp \/ d \in 0 .. DSched \/ d \in 0 .. DUi =>
             d \in 0 .. TPM - 1
    BY VueltaAssumption, FaseCorta
  <1>3. AtrasoMax \in Nat /\ AtrasoMax' \in Nat
    <2>1. seguidas \in 0 .. MaxSeguidas /\ seguidas' \in 0 .. MaxSeguidas
          /\ pc \in Fases /\ pc' \in Fases
      BY <1>0 DEF TypeOK
    <2>2. Vuelta \in Nat
      BY <1>2 DEF Vuelta
    <2>3. seguidas * Vuelta \in Nat /\ seguidas' * Vuelta \in Nat
      BY <2>1, Vueltas
    <2> HIDE DEF Vuelta
    <2> QED BY <1>2, <2>1, <2>2, <2>3 DEF AtrasoMax, Fases
  <1>4. ASSUME pc = "esp", pc' = "sched", UNCHANGED seguidas
        PROVE  AtrasoMax' = AtrasoMax + DEsp /\ DEsp <= AtrasoMax'
    <2>1. seguidas * Vuelta \in Nat
      BY <1>0, Vueltas DEF TypeOK
    <2> QED BY <1>2, <1>4, <2>1 DEF AtrasoMax, Vuelta
  <1>5. ASSUME pc = "ui", pc' = "esp", UNCHANGED seguidas
        PROVE  AtrasoMax' = AtrasoMax + DUi /\ DUi <= AtrasoMax'
    <2>1. seguidas * Vuelta \in Nat
      BY <1>0, Vueltas DEF TypeOK
    <2> QED BY <1>2, <1>5, <2>1 DEF AtrasoMax
  <1>6. CASE Esp
    <2>1. CASE esp_otro \/ \E h, m \in 0 .. U8MAX : api_programar_una_vez(h, m)
      <3>1. /\ UNCHANGED <<cada, seguidas>> /\ pc = "esp" /\ pc' = "sched"
            /\ \E d \in 0 .. DEsp : tick' = Suma(tick, d)
        BY <2>1 DEF esp_otro, api_programar_una_vez, Pasa
      <3> QED BY <1>0, <1>2, <1>4, <3>1, CadaSigue
    <2>2. ASSUME NEW p \in PedidosCada, api_cada_intervalo(p) PROVE CadaInv'
      <3>1. /\ UNCHANGED seguidas /\ pc = "esp" /\ pc' = "sched"
            /\ cada_set_intervalo(p)
            /\ \E d \in 0 .. DEsp : tick' = Suma(tick, d)
        BY <2>2 DEF api_cada_intervalo, Pasa
      <3>2. PICK d \in 0 .. DEsp : tick' = Suma(tick, d)
        BY <3>1
      <3>3. d <= AtrasoMax' /\ d \in 0 .. TPM - 1
        BY <1>2, <1>3, <1>4, <3>1
      <3> QED BY <1>0, <1>3, <3>1, <3>2, <3>3, CadaNueva
    <2> QED BY <1>6, <2>1, <2>2 DEF Esp
  <1>7. CASE scheduler_check
    <2>1. CASE sched_programado
      <3>1. /\ UNCHANGED cada /\ pc = "sched" /\ pc' = "ui" /\ seguidas' = seguidas + 1
            /\ \E d \in 0 .. DSched : tick' = Suma(tick, d)
        BY <2>1 DEF sched_programado, Pasa
      <3>2. AtrasoMax' = AtrasoMax + DSched
        <4>1. seguidas * Vuelta \in Nat /\ seguidas' * Vuelta = seguidas * Vuelta + Vuelta
          BY <1>0, <3>1, Vueltas DEF TypeOK
        <4>2. AtrasoMax = seguidas * Vuelta + Vuelta
          BY <3>1 DEF AtrasoMax
        <4>3. AtrasoMax' = seguidas' * Vuelta + DSched
          BY <3>1 DEF AtrasoMax
        <4> QED BY <4>1, <4>2, <4>3
      <3> QED BY <1>0, <1>2, <3>1, <3>2, CadaSigue
    <2>2. CASE sched_auto
      <3>1. /\ cada_interval_ms' = cada_interval_ms
            /\ cada_interval_ms \in 1 .. IntervaloMax /\ cada_interval_ms >= TPM
            /\ cada_proximo_ms' = Siguiente(tick', cada_proximo_ms, cada_interval_ms)
        BY <1>0, <2>2, Anchos DEF sched_auto, CorrespondeAuto, TypeOK, CadaInv, IntervaloVale
      <3>2. PICK x \in 1 .. cada_interval_ms : cada_proximo_ms' = Suma(tick', x)
        BY <1>0, <3>1, SiguienteTipo DEF TypeOK
      <3>3. x \in 1 .. IntervaloMax /\ tick' \in 0 .. TickMod - 1
        BY <1>0, <3>1, <3>2, Anchos DEF TypeOK
      <3>4. Resta(cada_proximo_ms', tick') \in 1 .. cada_interval_ms'
        BY <3>1, <3>2, <3>3, Adelante
      <3> QED BY <3>1, <3>4, Anchos DEF CadaInv, IntervaloVale, AtrasoAcotado
    <2>3. CASE sched_nada
      <3>1. /\ UNCHANGED cada /\ pc' = "ui" /\ seguidas' = 0
            /\ ~CorrespondeAuto
            /\ \E d \in 0 .. DSched : tick' = Suma(tick, d)
        BY <2>3 DEF sched_nada, Pasa
      <3>2. CASE ~cada_activo
        BY <3>1, <3>2 DEF cada, CadaInv, IntervaloVale, AtrasoAcotado
      <3>3. CASE cada_activo
        <4>1. /\ cada_interval_ms \in 1 .. IntervaloMax /\ cada_interval_ms >= TPM
              /\ cada_proximo_ms \in 0 .. TickMod - 1
              /\ cada_interval_ms' = cada_interval_ms
              /\ cada_proximo_ms' = cada_proximo_ms
          BY <1>0, <3>1, <3>3, Anchos, RelojAssumption DEF TypeOK, CadaInv, IntervaloVale, cada
        <4>2. ~(Resta(tick, cada_proximo_ms) < Medio)
          BY <3>1, <3>3, <4>1, Anchos DEF CorrespondeAuto, Vencido
        <4>3. AtrasoMax + TPM < Medio
          BY <1>0, Atrasos, Anchos
        <4>4. ~(Resta(tick, cada_proximo_ms) <= AtrasoMax)
          BY <1>0, <1>3, <4>1, <4>2, <4>3, Anchos DEF Resta, TypeOK
        <4>5. Resta(cada_proximo_ms', tick) \in 1 .. cada_interval_ms'
          BY <3>3, <4>1, <4>4 DEF CadaInv, AtrasoAcotado
        <4>6. DSched = AtrasoMax'
          <5>1. 0 * Vuelta = 0
            BY <1>2 DEF Vuelta
          <5> QED BY <1>2, <3>1, <5>1 DEF AtrasoMax
        <4>7. PICK d \in 0 .. DSched : tick' = Suma(tick, d)
          BY <3>1
        <4>8. d \in 0 .. TPM - 1 /\ d <= AtrasoMax'
          BY <1>2, <4>6
        <4> QED BY <1>0, <1>3, <4>1, <4>5, <4>7, <4>8, CadaAdelante
      <3> QED BY <3>2, <3>3
    <2> QED BY <1>7, <2>1, <2>2, <2>3 DEF scheduler_check
  <1>8. CASE Ui
    <2>1. CASE ui_otro \/ \E h \in Horas, m \in Minutos : ui_confirma_hora(h, m)
      <3>1. /\ UNCHANGED <<cada, seguidas>> /\ pc = "ui" /\ pc' = "esp"
            /\ \E d \in 0 .. DUi : tick' = Suma(tick, d)
        BY <2>1 DEF ui_otro, ui_confirma_hora, Pasa
      <3> QED BY <1>0, <1>2, <1>5, <3>1, CadaSigue
    <2>2. ASSUME NEW p \in PedidosCada, ui_confirma_cada(p) PROVE CadaInv'
      <3>1. /\ UNCHANGED seguidas /\ pc = "ui" /\ pc' = "esp"
            /\ cada_set_intervalo(p)
            /\ \E d \in 0 .. DUi : tick' = Suma(tick, d)
        BY <2>2 DEF ui_confirma_cada, Pasa
      <3>2. PICK d \in 0 .. DUi : tick' = Suma(tick, d)
        BY <3>1
      <3>3. d <= AtrasoMax' /\ d \in 0 .. TPM - 1
        BY <1>2, <1>3, <1>5, <3>1
      <3> QED BY <1>0, <1>3, <3>1, <3>2, <3>3, CadaNueva
    <2> QED BY <1>8, <2>1, <2>2 DEF Ui
  <1> QED BY <1>1, <1>6, <1>7, <1>8 DEF Next

(* The periodic dispense is never later than the bound, so the unsigned    *)
(* comparison of scheduler_check never takes a past instant for a future   *)
(* one, for every width of the counter that holds the longest period.      *)
THEOREM Atraso == Spec => []AtrasoAcotado
  <1>1. ProgInv /\ CadaInv /\ [Next]_vars => CadaInv'
    BY CadaInvNext
  <1>2. CadaInv => AtrasoAcotado
    BY DEF CadaInv
  <1> QED BY CadaInvInit, <1>1, <1>2, Pedidos, PTL DEF Spec

-----------------------------------------------------------------------------
(* The do-while of scheduler_check: what its closed form, Siguiente, leaves *)
(* is where the loop stops.                                                *)

LEMMA Modulo ==
  ASSUME NEW x \in 0 .. TickMod - 1
  PROVE  x % TickMod = x /\ (x + TickMod) % TickMod = x
  <1>1. TickMod \in Nat \ {0}
    BY Anchos, RelojAssumption
  <1> QED BY <1>1

LEMMA Division ==
  ASSUME NEW l \in Nat, NEW i \in Nat \ {0}
  PROVE  /\ l \div i \in Nat /\ l % i \in 0 .. i - 1
         /\ l = (l \div i) * i + (l % i)
  OBVIOUS

(* The instant late units before a is on the grid of p when late is; it is *)
(* past, and the first one after a is not.                                 *)
LEMMA Rejilla ==
  ASSUME NEW a \in 0 .. TickMod - 1, NEW p \in 0 .. TickMod - 1,
         NEW y \in Nat, y <= Resta(a, p), Resta(a, p) < Medio
  PROVE  /\ (p + y) % TickMod \in 0 .. TickMod - 1
         /\ Resta(a, (p + y) % TickMod) = Resta(a, p) - y
         /\ Vencido(a, (p + y) % TickMod)
  <1>1. CASE p + y < TickMod
    <2>1. p + y \in 0 .. TickMod - 1
      BY <1>1, Anchos
    <2>2. (p + y) % TickMod = p + y
      BY <2>1, Modulo
    <2> QED BY <1>1, <2>2, Anchos DEF Resta, Vencido
  <1>2. CASE ~(p + y < TickMod)
    <2>1. p + y - TickMod \in 0 .. TickMod - 1
      BY <1>2, Anchos DEF Resta
    <2>2. (p + y - TickMod) + TickMod = p + y
      BY Anchos
    <2>3. (p + y) % TickMod = p + y - TickMod
      BY <2>1, <2>2, Modulo
    <2> QED BY <1>2, <2>1, <2>3, Anchos DEF Resta, Vencido
  <1> QED BY <1>1, <1>2

LEMMA RejillaSigue ==
  ASSUME NEW a \in 0 .. TickMod - 1, NEW p \in 0 .. TickMod - 1,
         NEW x \in 1 .. IntervaloMax, Resta(a, p) < Medio
  PROVE  /\ (p + Resta(a, p) + x) % TickMod = Suma(a, x)
         /\ ~Vencido(a, Suma(a, x))
  <1> DEFINE y == Resta(a, p)
  <1>1. y \in Nat /\ (p + y = a \/ p + y = a + TickMod)
    BY Anchos DEF Resta
  <1>2. Suma(a, x) \in 0 .. TickMod - 1 /\ (Suma(a, x) = a + x \/ Suma(a, x) + TickMod = a + x)
    BY Anchos DEF Suma
  <1>3. (p + y + x) % TickMod = Suma(a, x)
    <2>1. a + x < TickMod + TickMod
      BY Anchos
    <2>2. p + y + x \in {Suma(a, x), Suma(a, x) + TickMod, Suma(a, x) + TickMod + TickMod}
      BY <1>1, <1>2, Anchos
    <2>3. (Suma(a, x) + TickMod + TickMod) % TickMod = Suma(a, x)
      <3>1. TickMod \in Nat \ {0}
        BY Anchos, RelojAssumption
      <3>2. \A z \in 0 .. TickMod - 1 : (z + TickMod + TickMod) % TickMod = z
        BY <3>1
      <3> QED BY <1>2, <3>2
    <2> QED BY <1>2, <2>2, <2>3, Modulo
  <1>4. ~Vencido(a, Suma(a, x))
    BY Anchos DEF Vencido, Resta, Suma
  <1> QED BY <1>3, <1>4

LEMMA DoWhile ==
  ASSUME NEW a \in 0 .. TickMod - 1, NEW p \in 0 .. TickMod - 1,
         NEW i \in 1 .. IntervaloMax, Resta(a, p) < Medio
  PROVE  LET q == Resta(a, p) \div i IN
         /\ q \in Nat /\ q * i <= Resta(a, p)
         /\ Siguiente(a, p, i) = (p + (q + 1) * i) % TickMod
         /\ ~Vencido(a, Siguiente(a, p, i))
         /\ \A j \in 1 .. q : Vencido(a, (p + j * i) % TickMod)
  <1> DEFINE late == Resta(a, p)
             q == late \div i
             r == late % i
             m == q * i
  <1>1. late \in Nat /\ i \in Nat \ {0} /\ i <= IntervaloMax
    BY Anchos DEF Resta
  <1>2. late < Medio
    OBVIOUS
  <1> HIDE DEF late
  <1>3. q \in Nat /\ r \in 0 .. i - 1 /\ late = m + r
    BY <1>1, Division
  <1> HIDE DEF r, q
  <1>4. \A j \in Nat : j * i \in Nat /\ (j + 1) * i = j * i + i
    BY <1>1
  <1>5. m \in Nat /\ (q + 1) * i = m + i
    BY <1>3, <1>4
  <1>6. \A j \in 1 .. q : j * i \in Nat /\ j * i <= m
    <2>1. \A j, k, v \in Nat : j <= k => j * v \in Nat /\ j * v <= k * v
      OBVIOUS
    <2> QED BY <1>1, <1>3, <2>1
  <1> HIDE DEF m
  <1>7. i - r \in 1 .. IntervaloMax /\ p + m + i = p + late + (i - r)
    BY <1>1, <1>3, <1>5, Anchos
  <1>8. Siguiente(a, p, i) = Suma(a, i - r)
    BY DEF Siguiente, late, r
  <1>9. /\ (p + late + (i - r)) % TickMod = Suma(a, i - r)
        /\ ~Vencido(a, Suma(a, i - r))
    BY <1>2, <1>7, RejillaSigue DEF late
  <1>10. Siguiente(a, p, i) = (p + (q + 1) * i) % TickMod
    <2>1. p + (q + 1) * i = p + m + i
      BY <1>1, <1>5, Anchos
    <2> QED BY <1>7, <1>8, <1>9, <2>1
  <1>11. ASSUME NEW j \in 1 .. q
         PROVE  Vencido(a, (p + j * i) % TickMod)
    <2>1. j * i \in Nat /\ j * i <= late
      BY <1>3, <1>5, <1>6
    <2> QED BY <1>2, <2>1, Rejilla DEF late
  <1>12. m <= late
    BY <1>1, <1>3, <1>5
  <1> QED BY <1>3, <1>8, <1>9, <1>10, <1>11, <1>12 DEF late, q, m

(* At most that many instants are skipped: each is a minute at least.      *)
LEMMA Vencidos ==
  ASSUME NEW l \in Nat, NEW i \in Nat, NEW q \in Nat, i >= TPM,
         q * i <= l, l <= (MaxSeguidas + 1) * Vuelta + Vuelta
  PROVE  q <= Vuelta * (MaxSeguidas + 1)
  <1> DEFINE n == (MaxSeguidas + 1) * Vuelta
  <1>1. /\ MaxSeguidas + 1 \in Nat /\ MaxSeguidas + 1 >= 1
        /\ Vuelta \in Nat /\ TPM \in Nat /\ Vuelta < TPM /\ Vuelta >= 1
    BY AnchoAssumption, VueltaAssumption, RelojAssumption, Intervalos DEF Vuelta
  <1>2. \A j, k, v \in Nat : j <= k => j * v \in Nat /\ j * v <= k * v
    OBVIOUS
  <1>3. \A j, k \in Nat : j * k \in Nat /\ j * k = k * j
    OBVIOUS
  <1> HIDE DEF Vuelta
  <1>4. n \in Nat /\ 1 * Vuelta <= n /\ 1 * Vuelta = Vuelta
    BY <1>1, <1>2, <1>3
  <1>5. n = Vuelta * (MaxSeguidas + 1)
    BY <1>1, <1>3
  <1>6. 2 * q <= q * i
    <2>1. 2 <= i
      BY <1>1
    <2> QED BY <1>2, <1>3, <2>1
  <1>7. q * i \in Nat
    BY <1>3
  <1>8. l <= n + Vuelta
    OBVIOUS
  <1> HIDE DEF n
  <1>9. q <= n
    <2> DEFINE x == q * i
    <2>1. x \in Nat /\ 2 * q <= x /\ x <= l
      BY <1>6, <1>7
    <2> HIDE DEF x
    <2> QED BY <1>1, <1>4, <1>8, <2>1
  <1> QED BY <1>5, <1>9

LEMMA PasoDeriva ==
  ASSUME ProgInv, CadaInv, [Next]_vars,
         cada_activo, pc = "sched", cada_proximo_ms' # cada_proximo_ms
  PROVE  \E k \in 1 .. Vuelta * (MaxSeguidas + 1) + 1 :
           /\ cada_proximo_ms' = (cada_proximo_ms + k * cada_interval_ms) % TickMod
           /\ ~Vencido(tick', cada_proximo_ms')
           /\ \A j \in 1 .. k - 1 :
                Vencido(tick', (cada_proximo_ms + j * cada_interval_ms) % TickMod)
  <1> DEFINE p == cada_proximo_ms
             i == cada_interval_ms
  <1>1. sched_auto
    BY DEF Next, vars, cada, Esp, esp_otro, api_programar_una_vez, api_cada_intervalo,
           scheduler_check, sched_programado, sched_nada, Ui, ui_otro,
           ui_confirma_hora, ui_confirma_cada
  <1>2. TypeOK /\ TypeOK'
    BY ProgInvNext DEF ProgInv
  <1>3. /\ i \in 1 .. IntervaloMax /\ i \in Nat /\ i >= TPM
        /\ p \in 0 .. TickMod - 1 /\ tick \in 0 .. TickMod - 1
        /\ tick' \in 0 .. TickMod - 1
    BY <1>2, Anchos, RelojAssumption DEF TypeOK, CadaInv, IntervaloVale
  <1>4. PICK d \in 0 .. DSched : tick' = Suma(tick, d)
    BY <1>1 DEF sched_auto, Pasa
  <1>5. /\ Resta(tick, p) \in Nat /\ Resta(tick, p) < Medio
        /\ cada_proximo_ms' = Siguiente(tick', p, i)
    BY <1>1, <1>3, Anchos DEF sched_auto, CorrespondeAuto, Vencido, Resta
  <1>6. AtrasoMax = seguidas * Vuelta + Vuelta
    BY DEF AtrasoMax
  <1>7. AtrasoMax \in Nat /\ AtrasoMax <= (MaxSeguidas + 1) * Vuelta /\ AtrasoMax + TPM < Medio
    BY <1>2, Atrasos, Anchos
  <1>8. Resta(tick, p) <= AtrasoMax
    <2>1. ~(Resta(p, tick) \in 1 .. i)
      BY <1>3, <1>5, Anchos DEF Resta
    <2> QED BY <2>1 DEF CadaInv, AtrasoAcotado
  <1>9. d \in 0 .. TPM - 1 /\ d <= Vuelta /\ d \in Nat /\ Vuelta \in Nat
    BY FaseCorta, VueltaAssumption DEF Vuelta
  <1> DEFINE l == Resta(tick', p)
             q == l \div i
  <1>10. l = Resta(tick, p) + d
    <2> DEFINE y == Resta(tick, p)
    <2>1. y \in Nat /\ y + TPM < Medio
      <3>1. TPM \in Nat /\ Medio \in Nat
        BY Anchos
      <3> HIDE DEF y
      <3> QED BY <1>5, <1>7, <1>8, <3>1 DEF y
    <2>2. \A z \in Nat : Resta(tick, p) = z /\ z + TPM < Medio =>
            Resta(Suma(tick, d), p) = z + d
      BY <1>3, <1>9, Acercarse
    <2> QED BY <1>4, <2>1, <2>2
  <1> HIDE DEF p, i, Vuelta
  <1>11. l \in Nat /\ l < Medio /\ l <= (MaxSeguidas + 1) * Vuelta + Vuelta
    <2>1. (MaxSeguidas + 1) * Vuelta \in Nat
      BY <1>9, AnchoAssumption
    <2>2. TPM \in Nat /\ Medio \in Nat
      BY Anchos
    <2> HIDE DEF l
    <2> QED BY <1>5, <1>7, <1>8, <1>9, <1>10, <2>1, <2>2
  <1>12. /\ q \in Nat /\ q * i <= l
         /\ Siguiente(tick', p, i) = (p + (q + 1) * i) % TickMod
         /\ ~Vencido(tick', Siguiente(tick', p, i))
         /\ \A j \in 1 .. q : Vencido(tick', (p + j * i) % TickMod)
    BY <1>3, <1>11, DoWhile
  <1> HIDE DEF l
  <1>13. q <= Vuelta * (MaxSeguidas + 1)
    BY <1>3, <1>11, <1>12, Vencidos
  <1> HIDE DEF q
  <1>14. Vuelta * (MaxSeguidas + 1) \in Nat
    BY <1>9, AnchoAssumption
  <1>15. q + 1 \in 1 .. Vuelta * (MaxSeguidas + 1) + 1 /\ (q + 1) - 1 = q
    BY <1>12, <1>13, <1>14
  <1> DEFINE D(k) ==
        /\ cada_proximo_ms' = (p + k * i) % TickMod
        /\ ~Vencido(tick', cada_proximo_ms')
        /\ \A j \in 1 .. k - 1 : Vencido(tick', (p + j * i) % TickMod)
  <1>16. D(q + 1)
    BY <1>5, <1>12, <1>15
  <1> HIDE DEF D
  <1>17. \E k \in 1 .. Vuelta * (MaxSeguidas + 1) + 1 : D(k)
    BY <1>15, <1>16
  <1> QED BY <1>17 DEF D, p, i

(* For every pace of the loop, width of the counter and period, however    *)
(* many instants went by while the loop was busy, an automatic dispense    *)
(* leaves the next one on the grid that the first one began.               *)
THEOREM Deriva == Spec => SinDeriva
  <1>1. ProgInv /\ CadaInv /\ [Next]_vars => CadaInv'
    BY CadaInvNext
  <1>2. ProgInv /\ CadaInv /\ [Next]_vars =>
          [ (cada_activo /\ pc = "sched" /\ cada_proximo_ms' # cada_proximo_ms) =>
              \E k \in 1 .. Vuelta * (MaxSeguidas + 1) + 1 :
                /\ cada_proximo_ms' = (cada_proximo_ms + k * cada_interval_ms) % TickMod
                /\ ~Vencido(tick', cada_proximo_ms')
                /\ \A j \in 1 .. k - 1 :
                     Vencido(tick', (cada_proximo_ms + j * cada_interval_ms) % TickMod)
          ]_vars
    BY PasoDeriva
  <1> QED BY CadaInvInit, <1>1, <1>2, Pedidos, PTL DEF Spec, SinDeriva

=============================================================================
