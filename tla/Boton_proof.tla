---------------------------- MODULE Boton_proof ----------------------------
(* Proofs about Boton: one event per press, and none missed that is held   *)
(* long enough, for every debounce time, bounce and length of the loop.    *)
EXTENDS Boton, TLAPS

-----------------------------------------------------------------------------
(* The inductive invariant holds in the initial state. *)
LEMMA BotonInvInit == Init => BotonInv
<1> SUFFICES ASSUME Init
             PROVE  BotonInv
  OBVIOUS
<1> USE ReboteAssumption DEF Init
<1>1. Largo \in Nat /\ Largo >= Rebote
  BY DEF Largo
<1>2. TypeOK
  <2>1. edad \in 0 .. DEBOUNCE_MS /\ asentado \in 0 .. Largo /\ espera \in 0 .. Lazo
        /\ eventos \in 0 .. 1
    BY <1>1
  <2>2. lectura \in BOOLEAN /\ estable \in BOOLEAN /\ evento \in BOOLEAN
        /\ nivel \in BOOLEAN /\ dedo \in BOOLEAN /\ pulsada \in BOOLEAN
        /\ suelto \in BOOLEAN
    OBVIOUS
  <2> QED BY <2>1, <2>2 DEF TypeOK
<1>3. NivelInv
  BY <1>1 DEF NivelInv
<1>4. UnaInv /\ AtendidaInv
  BY DEF UnaInv, AtendidaInv
<1> QED BY <1>2, <1>3, <1>4 DEF BotonInv

(* A call of boton_evento preserves the invariant. *)
LEMMA BotonInvEvento == BotonInv /\ boton_evento => BotonInv'
<1> SUFFICES ASSUME BotonInv, boton_evento
             PROVE  BotonInv'
  OBVIOUS
<1> USE ReboteAssumption DEF BotonInv, boton_evento, TypeOK, NivelInv
<1>1. Timer \in 0 .. DEBOUNCE_MS
  BY DEF Timer
<1>2. TypeOK' /\ UnaInv'
  <2>1. CASE Cambia
    <3>1. lectura = nivel /\ edad = DEBOUNCE_MS /\ estable # nivel
      BY <2>1, <1>1 DEF Cambia, Timer
    <3>2. ~nivel => eventos = 0
      BY <3>1 DEF UnaInv
    <3>3. lectura' = nivel /\ edad' = Timer /\ estable' = nivel /\ evento' = ~nivel
      BY <2>1
    <3>4. (~nivel => eventos' = 1) /\ (nivel => eventos' = eventos)
      <4>1. CASE nivel
        <5>1. ~evento'
          BY <3>3, <4>1
        <5> QED BY <4>1, <5>1
      <4>2. CASE ~nivel
        <5>1. evento'
          BY <3>3, <4>2
        <5> QED BY <3>2, <4>2, <5>1
      <4> QED BY <4>1, <4>2
    <3>5. TypeOK'
      <4>1. lectura' \in BOOLEAN /\ estable' \in BOOLEAN /\ evento' \in BOOLEAN
        BY <3>3
      <4>2. edad' \in 0 .. DEBOUNCE_MS /\ eventos' \in 0 .. 1
        BY <1>1, <3>3, <3>4
      <4> QED BY <4>1, <4>2
    <3>6. UnaInv'
      BY <3>1, <3>2, <3>3, <3>4, <1>1 DEF UnaInv
    <3> QED BY <3>5, <3>6
  <2>2. CASE ~Cambia
    <3>1. lectura' = nivel /\ edad' = Timer /\ estable' = estable /\ ~evento'
          /\ eventos' = eventos
      BY <2>2
    <3>2. TypeOK'
      BY <3>1, <1>1
    <3>3. UnaInv'
      BY <3>1, <1>1 DEF UnaInv, Timer
    <3> QED BY <3>2, <3>3
  <2> QED BY <2>1, <2>2
<1>3. NivelInv'
  BY DEF Cambia
<1>4. AtendidaInv'
  <2> SUFFICES ASSUME dedo, suelto, eventos' = 0
               PROVE  AtendidaInv'
    BY DEF AtendidaInv
  <2>1. eventos = 0 /\ ~evento'
    BY DEF Cambia
  <2>2. AtendidaInv!2
    BY <2>1 DEF AtendidaInv
  <2>3. estable'
    BY <2>1, <2>2 DEF Cambia
  <2>4. nivel => asentado < Rebote
    OBVIOUS
  <2>5. ~nivel => Timer < DEBOUNCE_MS
    <3>1. estable /\ nivel \in BOOLEAN
      BY <2>2
    <3>2. ~nivel => estable # nivel
      BY <3>1
    <3>3. ~nivel => ~Cambia
      BY <2>1
    <3> QED BY <1>1, <3>2, <3>3 DEF Cambia
  <2>6. ~nivel => asentado <= Rebote + Lazo + Timer
    BY <2>2, <2>5 DEF Timer
  <2> QED BY <2>3, <2>4, <2>5, <2>6, <1>1 DEF AtendidaInv
<1> QED BY <1>2, <1>3, <1>4

(* So does a tick. *)
LEMMA BotonInvTick == BotonInv /\ Tick => BotonInv'
<1> SUFFICES ASSUME BotonInv, Tick
             PROVE  BotonInv'
  OBVIOUS
<1> USE ReboteAssumption DEF BotonInv, Tick, TypeOK, Tope, Largo
<1>1. TypeOK'
  OBVIOUS
<1>2. NivelInv'
  BY DEF NivelInv
<1>3. UnaInv'
  BY DEF UnaInv
<1>4. AtendidaInv'
  BY DEF AtendidaInv
<1> QED BY <1>1, <1>2, <1>3, <1>4

(* And a move of the finger. *)
LEMMA BotonInvMover == BotonInv /\ Mover => BotonInv'
<1> SUFFICES ASSUME BotonInv, Mover
             PROVE  BotonInv'
  OBVIOUS
<1> USE ReboteAssumption DEF BotonInv, Mover, boton, TypeOK, Largo
<1>1. TypeOK'
  OBVIOUS
<1>2. NivelInv'
  BY DEF NivelInv
<1>3. UnaInv'
  BY DEF UnaInv
<1>4. AtendidaInv'
  <2>1. CASE ~dedo'
    BY <2>1 DEF AtendidaInv
  <2>2. CASE dedo'
    <3>1. asentado' = 0 /\ suelto' = estable /\ estable' = estable
          /\ edad' = edad /\ espera' = espera
      BY <2>2
    <3>2. suelto' => estable'
      BY <3>1
    <3> QED BY <3>1, <3>2 DEF AtendidaInv
  <2> QED BY <2>1, <2>2
<1> QED BY <1>1, <1>2, <1>3, <1>4

(* BotonInv holds in every state of the button and its switch: its types,  *)
(* its history and how long a press can go unnoticed.                      *)
THEOREM Boton_inductivo == Spec => []BotonInv
<1>1. BotonInv /\ UNCHANGED vars => BotonInv'
  BY DEF BotonInv, TypeOK, NivelInv, UnaInv, AtendidaInv, vars, boton
<1>2. BotonInv /\ [Next]_vars => BotonInv'
  BY <1>1, BotonInvEvento, BotonInvTick, BotonInvMover DEF Next
<1> QED BY <1>2, BotonInvInit, PTL DEF Spec

(* The button, its switch and the history of a press keep their types.     *)
THEOREM Tipos == Spec => []TypeOK
<1>1. BotonInv => TypeOK
  BY DEF BotonInv
<1> QED BY <1>1, Boton_inductivo, PTL

(* boton_evento reports a press at most once, and nothing without a press. *)
THEOREM UnEvento == Spec => []UnaPorPulsacion
<1>1. BotonInv => UnaPorPulsacion
  BY DEF BotonInv, TypeOK, UnaInv, UnaPorPulsacion
<1> QED BY <1>1, Boton_inductivo, PTL

(* boton_evento reports a press that lasts the debounce time and two turns *)
(* of the loop.                                                            *)
THEOREM Atendida == Spec => []PulsacionAtendida
<1>1. BotonInv => PulsacionAtendida
  BY ReboteAssumption DEF BotonInv, TypeOK, AtendidaInv, PulsacionAtendida
<1> QED BY <1>1, Boton_inductivo, PTL

(* Two calls of boton_evento in a row do not both report a press.          *)
THEOREM Separados == Spec => NoSeguidos
<1>1. BotonInv /\ boton_evento /\ evento => ~evento'
  <2> SUFFICES ASSUME BotonInv, boton_evento, evento, evento'
               PROVE  FALSE
    OBVIOUS
  <2>1. ~estable /\ nivel \in BOOLEAN /\ estable \in BOOLEAN
    BY DEF BotonInv, UnaInv, TypeOK
  <2>2. Cambia /\ ~nivel
    BY DEF boton_evento
  <2> QED BY <2>1, <2>2 DEF Cambia
<1>2. BotonInv /\ [Next]_vars => [boton_evento /\ evento => ~evento']_vars
  BY <1>1
<1> QED BY <1>2, Boton_inductivo, PTL DEF Spec, NoSeguidos

=============================================================================
