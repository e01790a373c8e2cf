-------------------------- MODULE Dispensado_proof --------------------------
(***************************************************************************)
(* Proofs about Dispensado, for every portion, time, noise, hopper and     *)
(* tare error that the assumptions allow.                                  *)
(***************************************************************************)
EXTENDS Dispensado, TLAPS

(* A weight that could be read is within the noise of the magnitude of x.  *)
LEMMA LecturaCerca ==
  ASSUME NEW x \in Int, NEW g \in Lecturas(x)
  PROVE  /\ g \in Nat \cup {-1}
         /\ g # -1 => g + Ruido >= x /\ (x >= 0 => g <= x + Ruido)
  <1>1. Ruido \in Nat
    BY PesoAssumption
  <1>2. CASE g = -1
    BY <1>2
  <1>3. CASE g # -1
    <2>1. PICK e \in -Ruido .. Ruido : g = Abs(x + e)
      BY <1>3 DEF Lecturas
    <2>2. e \in Int /\ -Ruido <= e /\ e <= Ruido
      BY <1>1, <2>1
    <2> QED BY <1>1, <1>3, <2>1, <2>2 DEF Abs
  <1> QED BY <1>2, <1>3

LEMMA DispInvInit == Init => DispInv
  <1> SUFFICES ASSUME Init PROVE DispInv
    OBVIOUS
  <1> USE PesoAssumption, TiempoAssumption
  <1>1. TypeOK
    <2>1. comida0 \in 0 .. Capacidad /\ comida \in 0 .. Capacidad
      BY DEF Init
    <2>2. ini_g \in Nat \cup {-1} /\ objetivo_g \in Int /\ tick \in Nat /\ t0 \in Nat
      BY DEF Init
    <2> QED BY <2>1, <2>2 DEF Init, TypeOK
  <1>2. LlamadaInv
    BY DEF Init, LlamadaInv, Midiendo
  <1>3. DuracionAcotada
    BY DEF Init, DuracionAcotada, Demora
  <1>4. DosisMinima /\ DosisMaxima
    BY DEF Init, DosisMinima, DosisMaxima
  <1> QED BY <1>1, <1>2, <1>3, <1>4 DEF DispInv

(* A call begins. *)
LEMMA DispInvLlamar ==
  ASSUME DispInv, NEW p \in Porciones, dispensarAlimento(p)
  PROVE  DispInv'
  <1>1. TypeOK'
    BY PesoAssumption DEF DispInv, TypeOK, dispensarAlimento
  <1>2. LlamadaInv'
    BY DEF LlamadaInv, dispensarAlimento, Midiendo
  <1>3. DuracionAcotada'
    BY DEF DuracionAcotada, dispensarAlimento
  <1>4. DosisMinima' /\ DosisMaxima'
    BY DEF dispensarAlimento, DosisMinima, DosisMaxima
  <1> QED BY <1>1, <1>2, <1>3, <1>4 DEF DispInv

(* The initial weight is read. *)
LEMMA DispInvInicial ==
  ASSUME DispInv, LeerInicial
  PROVE  DispInv'
  <1> USE PesoAssumption, TiempoAssumption
  <1>0. TypeOK /\ LlamadaInv /\ comida + deriva \in Int /\ Ruido \in Nat /\ tick = 0
    BY DEF DispInv, TypeOK, LlamadaInv, LeerInicial
  <1>1. PICK g \in Lecturas(comida + deriva), t \in LectMin .. LectMax :
          /\ ini_g' = g
          /\ tick' = tick + t
          /\ IF g < 0
             THEN /\ pc' = "libre"
                  /\ resultado' = "sin_balanza"
                  /\ UNCHANGED <<objetivo_g, t0>>
             ELSE /\ pc' = "girar"
                  /\ objetivo_g' = g - porcion_g
                  /\ t0' = tick'
                  /\ resultado' = "en_curso"
    BY DEF LeerInicial
  <1>2. /\ comida0' = comida /\ entregado' = 0 /\ giros' = 0 /\ recarga' = FALSE
        /\ porcion_g' = porcion_g /\ comida' = comida /\ deriva' = deriva
    BY DEF LeerInicial
  <1>3. g \in Nat \cup {-1} /\ t \in Nat /\ t <= LectMax
    BY <1>0, LecturaCerca
  <1>4. TypeOK'
    <2>1. tick' \in Nat /\ t0' \in Nat
      BY <1>0, <1>1, <1>3 DEF TypeOK
    <2>2. ini_g' \in Nat \cup {-1} /\ objetivo_g' \in Int
      BY <1>0, <1>1, <1>3 DEF TypeOK
    <2>3. /\ pc' \in {"libre", "girar"} /\ resultado' \in {"sin_balanza", "en_curso"}
      BY <1>1
    <2> QED BY <1>0, <1>2, <2>1, <2>2, <2>3 DEF TypeOK
  <1>5. LlamadaInv'
    BY <1>0, <1>1, <1>2, <1>3 DEF LlamadaInv, Midiendo, TypeOK
  <1>6. DuracionAcotada'
    BY <1>0, <1>1, <1>3 DEF DuracionAcotada, Demora, TypeOK
  <1>7. DosisMinima'
    BY <1>1 DEF DosisMinima
  <1>8. DosisMaxima'
    <2>1. CaidaMax * 0 = 0
      OBVIOUS
    <2>2. porcion_g - Tolerancia >= 0
      BY <1>0 DEF TypeOK
    <2> QED BY <1>0, <1>2, <2>1, <2>2 DEF DosisMaxima, TypeOK
  <1> QED BY <1>4, <1>5, <1>6, <1>7, <1>8 DEF DispInv

(* The motor turns. *)
LEMMA DispInvGirar ==
  ASSUME DispInv, Girar
  PROVE  DispInv'
  <1> USE PesoAssumption, TiempoAssumption
  <1>0. TypeOK /\ LlamadaInv /\ DuracionAcotada /\ DosisMaxima
    BY DEF DispInv
  <1>1. PICK c \in 0 .. CaidaMax :
          c <= comida /\ comida' = comida - c /\ entregado' = entregado + c
    BY DEF Girar
  <1>2. /\ pc = "girar" /\ pc' = "leer" /\ tick' = tick + Giro
        /\ giros' = giros + 1 /\ resultado = "en_curso" /\ resultado' = resultado
        /\ UNCHANGED <<llamada, deriva, recarga>>
    BY <1>0 DEF Girar, LlamadaInv, llamada
  <1>3. TypeOK'
    BY <1>0, <1>1, <1>2 DEF TypeOK, llamada
  <1>4. LlamadaInv'
    BY <1>0, <1>1, <1>2 DEF LlamadaInv, Midiendo, TypeOK, llamada
  <1>5. DuracionAcotada'
    BY <1>0, <1>2 DEF DuracionAcotada, Demora, TypeOK, llamada
  <1>6. DosisMinima'
    BY <1>2 DEF DosisMinima
  <1>7. DosisMaxima'
    <2>1. \A a, v \in Nat : v * (a + 1) = v * a + v /\ v * a \in Nat
      OBVIOUS
    <2>2. CaidaMax * giros' = CaidaMax * giros + CaidaMax /\ CaidaMax * giros \in Nat
      BY <1>0, <1>2, <2>1 DEF TypeOK
    <2> DEFINE m == CaidaMax * giros
               n == CaidaMax * giros'
    <2>3. n = m + CaidaMax /\ m \in Nat
      BY <2>2
    <2>4. deriva >= 0 /\ ~recarga =>
            entregado <= porcion_g - Tolerancia + 2 * Ruido + m
      BY <1>0, <1>2 DEF DosisMaxima
    <2> HIDE DEF m, n
    <2>5. deriva >= 0 /\ ~recarga =>
            entregado' <= porcion_g - Tolerancia + 2 * Ruido + n
      BY <1>0, <1>1, <2>3, <2>4 DEF TypeOK
    <2> QED BY <1>2, <2>5 DEF DosisMaxima, llamada, n
  <1> QED BY <1>3, <1>4, <1>5, <1>6, <1>7 DEF DispInv

(* The weight is read and the call ends, or goes on. *)
LEMMA DispInvLeer ==
  ASSUME DispInv, Leer
  PROVE  DispInv'
  <1> USE PesoAssumption, TiempoAssumption
  <1>0. /\ TypeOK /\ LlamadaInv /\ DuracionAcotada /\ DosisMaxima
        /\ pc = "leer" /\ resultado = "en_curso"
    BY DEF DispInv, Leer, LlamadaInv
  <1>1. PICK g \in Lecturas(comida + deriva), t \in LectMin .. LectMax :
          \/ /\ Servida(g)
             /\ pc' = "libre" /\ resultado' = "servida"
             /\ tick' = tick + t
             /\ giros' = giros
          \/ /\ ~Servida(g) /\ Agotado(tick + t)
             /\ pc' = "libre" /\ resultado' = "timeout"
             /\ tick' = tick + t
             /\ giros' = giros
          \/ /\ ~Servida(g) /\ ~Agotado(tick + t)
             /\ pc' = "girar" /\ resultado' = resultado
             /\ tick' = tick + t + Pausa
             /\ giros' = IF g >= 0 THEN 0 ELSE giros
    BY DEF Leer
  <1>2. UNCHANGED <<porcion_g, ini_g, objetivo_g, t0, comida0, comida, deriva,
                    entregado, recarga>>
    BY DEF Leer
  <1>3. /\ comida + deriva \in Int /\ comida0 + deriva \in Int /\ Ruido \in Nat
        /\ t \in Nat /\ t <= LectMax
    BY <1>0 DEF TypeOK
  <1>4. /\ g \in Nat \cup {-1}
        /\ g # -1 => /\ g + Ruido >= comida + deriva
                     /\ comida + deriva >= 0 => g <= comida + deriva + Ruido
    BY <1>3, LecturaCerca
  <1>5. /\ ini_g \in Nat
        /\ ini_g + Ruido >= comida0 + deriva
        /\ comida0 + deriva >= 0 => ini_g <= comida0 + deriva + Ruido
    BY <1>0, <1>3, LecturaCerca DEF LlamadaInv, Midiendo, TypeOK
  <1>6. TypeOK'
    BY <1>0, <1>1, <1>2, <1>3 DEF TypeOK
  <1>7. LlamadaInv'
    BY <1>0, <1>1, <1>2 DEF LlamadaInv, Midiendo
  <1>8. DuracionAcotada'
    BY <1>0, <1>1, <1>2, <1>3 DEF DuracionAcotada, Demora, Agotado, TypeOK
  <1>9. DosisMinima'
    BY <1>0, <1>1, <1>2, <1>3, <1>4, <1>5
       DEF DosisMinima, LlamadaInv, Midiendo, Servida, TypeOK
  <1>10. DosisMaxima'
    <2>1. CASE giros' = giros
      BY <1>0, <1>2, <2>1 DEF DosisMaxima
    <2>2. CASE giros' # giros
      <3>1. ~Servida(g) /\ g \in Nat /\ giros' = 0
        BY <1>1, <1>4, <2>2
      <3>2. CaidaMax * 0 = 0
        OBVIOUS
      <3>3. deriva >= 0 /\ ~recarga =>
              entregado <= porcion_g - Tolerancia + 2 * Ruido
        BY <1>0, <1>3, <1>4, <1>5, <3>1
           DEF LlamadaInv, Midiendo, Servida, TypeOK
      <3> QED BY <1>2, <1>6, <3>1, <3>2, <3>3 DEF DosisMaxima, TypeOK
    <2> QED BY <2>1, <2>2
  <1> QED BY <1>6, <1>7, <1>8, <1>9, <1>10 DEF DispInv

(* Somebody refills the hopper. *)
LEMMA DispInvRellenar ==
  ASSUME DispInv, Rellenar
  PROVE  DispInv'
  <1> USE PesoAssumption, TiempoAssumption
  <1>0. TypeOK /\ LlamadaInv /\ DuracionAcotada /\ DosisMinima
    BY DEF DispInv
  <1>1. PICK x \in Recargas : comida + x <= Capacidad /\ comida' = comida + x
    BY DEF Rellenar
  <1>2. recarga' = TRUE /\ UNCHANGED <<pc, llamada, tick, deriva, entregado, giros>>
    BY DEF Rellenar
  <1>3. TypeOK'
    BY <1>0, <1>1, <1>2 DEF TypeOK, llamada
  <1>4. LlamadaInv'
    BY <1>0, <1>1, <1>2 DEF LlamadaInv, Midiendo, TypeOK, llamada
  <1>5. DuracionAcotada'
    BY <1>0, <1>2 DEF DuracionAcotada, Demora, llamada
  <1>6. DosisMinima' /\ DosisMaxima'
    BY <1>0, <1>2 DEF DosisMinima, DosisMaxima, llamada
  <1> QED BY <1>3, <1>4, <1>5, <1>6 DEF DispInv

LEMMA DispInvNext == DispInv /\ [Next]_vars => DispInv'
  <1> SUFFICES ASSUME DispInv, [Next]_vars PROVE DispInv'
    OBVIOUS
  <1>1. CASE Next
    BY <1>1, DispInvLlamar, DispInvInicial, DispInvGirar, DispInvLeer, DispInvRellenar
       DEF Next, porPeso
  <1>2. CASE UNCHANGED vars
    BY <1>2 DEF vars, DispInv, TypeOK, LlamadaInv, Midiendo, DuracionAcotada, Demora,
                DosisMinima, DosisMaxima
  <1> QED BY <1>1, <1>2

(* The types, and what ties the variables of a call together. *)
THEOREM Llamadas == Spec => []DispInv
  BY DispInvInit, DispInvNext, PTL DEF Spec

(* The variables of a call, of the scale and of the food keep their types. *)
THEOREM Tipos == Spec => []TypeOK
  <1>1. DispInv => TypeOK
    BY DEF DispInv
  <1> QED BY <1>1, Llamadas, PTL

(* A call that says it served the portion did, up to tolerance and noise.  *)
THEOREM Dosis == Spec => []DosisMinima
  <1>1. DispInv => DosisMinima
    BY DEF DispInv
  <1> QED BY <1>1, Llamadas, PTL

(* What falls past the portion fell since the last weight that was read.   *)
THEOREM Exceso == Spec => []DosisMaxima
  <1>1. DispInv => DosisMaxima
    BY DEF DispInv
  <1> QED BY <1>1, Llamadas, PTL

(* A call is over by the timeout, a pause, a turn and a reading. *)
THEOREM Duracion == Spec => []DuracionAcotada
  <1>1. DispInv => DuracionAcotada
    BY DEF DispInv
  <1> QED BY <1>1, Llamadas, PTL

=============================================================================
