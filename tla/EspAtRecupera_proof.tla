------------------------ MODULE EspAtRecupera_proof ------------------------
(***************************************************************************)
(* The assembler of the link finds its way again, for every FIFO, buffer,  *)
(* number of requests and of losses.  Of a whole request the pieces come   *)
(* one behind the other, so only the first of the queue may be in the      *)
(* middle of one; and what a loss broke is at the front of the queue.  The *)
(* state has a debt, how many pieces of whole requests it may still let    *)
(* pass: every piece that is read pays for itself, and only the emptying   *)
(* of a full buffer makes new debt.                                        *)
(***************************************************************************)
EXTENDS EspAt_proof

(* How far in the payload of its request a piece is; 0 if a request is not *)
(* yet in the middle when this piece comes.                                *)
Lugar(p) == IF p.t = "len" THEN 1 ELSE IF p.t = "get" THEN 2 ELSE IF p.t = "fin" THEN 3 ELSE 0

(* A whole request is in one piece, seen from its header on and from any   *)
(* later piece back.                                                       *)
Bloques(T, rs) ==
  \A i \in 1 .. Len(T) :
    /\ T[i].r = 0 <=> T[i].t \in {"txt", "ok", "prompt"}
    /\ T[i].t = "ipd" /\ T[i].r \notin rs =>
         i < Len(T) /\ T[i + 1].t = "len" /\ T[i + 1].r = T[i].r
    /\ i > 1 /\ Lugar(T[i]) # 0 /\ T[i].r \notin rs =>
         T[i - 1].r = T[i].r /\ Lugar(T[i]) = Lugar(T[i - 1]) + 1

(* Pieces of one request are not far from each other, broken or not.       *)
Cerca(T) ==
  \A i, j \in 1 .. Len(T) :
    i < j /\ T[i].r = T[j].r /\ T[i].r # 0 => j - i < LargoPedido

(* Only the first d pieces may be of broken requests.                      *)
Delante(T, rs, d) == \A i \in 1 .. Len(T) : T[i].r \in rs => i <= d

(* How much of a whole request was read already.                           *)
Avance(T, rs) == IF T = <<>> \/ T[1].r \in rs THEN 0 ELSE Lugar(T[1])

SinIpd(B) == \A i \in 1 .. Len(B) : B[i].t # "ipd"

(* The only header of the buffer comes to its end with the next piece.     *)
Espera(B, T) ==
  /\ B # <<>> /\ B[Len(B)].t = "ipd" /\ \A i \in 1 .. Len(B) - 1 : B[i].t # "ipd"
  /\ T # <<>> /\ T[1].t = "len"

(* What either one buffer holds or a broken header makes it read: what is  *)
(* announced, with the request that this cuts.                             *)
Cabida(w) == Mayor(REQBUF, w + LargoPedido - 1)

(* What may still pass: while broken pieces come, they and what the header *)
(* that comes with them makes it read, at worst; in the payload of a       *)
(* request that is not whole, what is awaited and the request that this    *)
(* cuts; behind a header that lost its end, what fits in the buffer; and   *)
(* without any of these a request already begun.                           *)
Deuda(B, T, need, c, rs, d, w) ==
  IF d > 0 THEN Avance(T, rs) + d + Cabida(w)
  ELSE IF need # 0
       THEN IF c \in rs THEN Avance(T, rs) + need + LargoPedido - 1 ELSE 0
  ELSE IF SinIpd(B) THEN IF Avance(T, rs) = 0 THEN 0 ELSE LargoPedido
  ELSE IF Espera(B, T) THEN 0 ELSE Avance(T, rs) + REQBUF - Len(B)

Cuota(v, w) == Cabida(w) + FIFO + 2 * (LargoPedido - 1) + LargoPedido * v

(* What is awaited of a broken request was announced.                      *)
Previsto(need, c, rs, w) == c \in rs => need <= w

Salda(B, T, need, c, rs, s, v, w) ==
  /\ Previsto(need, c, rs, w)
  /\ \E d \in Nat :
       Delante(T, rs, d) /\ LargoPedido * s + Deuda(B, T, need, c, rs, d, w) <= Cuota(v, w)

Estructura(T, f, rs) == Bloques(T, rs) /\ Cerca(T) /\ Delante(T, rs, f + LargoPedido - 1)

Cuentas(T, f, n, B, need, c, rs, s, v, w) ==
  /\ s \in Nat /\ v \in Nat /\ w \in Nat /\ rs \subseteq 1 .. n
  /\ Estructura(T, f, rs) /\ Salda(B, T, need, c, rs, s, v, w)

RecuperaInv ==
  Cuentas(Cola, Len(fifo), Len(pedidos), reqBuf, curNeed, curConn, rotos, sinServir, vaciados,
          anunciado)

-----------------------------------------------------------------------------
(* The queue                                                               *)

LEMMA LugarTipo == \A p : Lugar(p) \in 0 .. 3
BY DEF Lugar

LEMMA AvanceTipo == \A T, rs : Avance(T, rs) \in 0 .. 3
BY LugarTipo DEF Avance

(* A piece is taken that is the first, of no request, or broken.           *)
LEMMA QuitaBloques ==
  ASSUME NEW T \in Seq(Piezas), NEW U \in Seq(Piezas), NEW k \in 1 .. Len(T), Quita(T, U, k),
         NEW rs, NEW qs, rs \subseteq qs, Bloques(T, rs),
         k = 1 \/ T[k].r = 0 \/ T[k].r \in qs
  PROVE  Bloques(U, qs)
<1> DEFINE f(i) == IF i < k THEN i ELSE i + 1
<1>1. /\ Len(T) \in Nat /\ Len(U) \in Nat /\ Len(U) = Len(T) - 1 /\ k \in Nat
      /\ \A i \in 1 .. Len(U) : f(i) \in 1 .. Len(T) /\ U[i] = T[f(i)]
  BY DEF Quita
<1> SUFFICES ASSUME NEW i \in 1 .. Len(U)
             PROVE  /\ U[i].r = 0 <=> U[i].t \in {"txt", "ok", "prompt"}
                    /\ U[i].t = "ipd" /\ U[i].r \notin qs =>
                         i < Len(U) /\ U[i + 1].t = "len" /\ U[i + 1].r = U[i].r
                    /\ i > 1 /\ Lugar(U[i]) # 0 /\ U[i].r \notin qs =>
                         U[i - 1].r = U[i].r /\ Lugar(U[i]) = Lugar(U[i - 1]) + 1
  BY DEF Bloques
<1>2. /\ U[i].r = 0 <=> U[i].t \in {"txt", "ok", "prompt"}
      /\ U[i] = T[f(i)] /\ f(i) \in 1 .. Len(T)
  BY <1>1 DEF Bloques
<1>3. ASSUME U[i].t = "ipd", U[i].r \notin qs
      PROVE  i < Len(U) /\ U[i + 1].t = "len" /\ U[i + 1].r = U[i].r
  <2>1. f(i) < Len(T) /\ T[f(i) + 1].t = "len" /\ T[f(i) + 1].r = U[i].r /\ U[i].r # 0
    BY <1>2, <1>3 DEF Bloques
  <2>2. f(i) + 1 # k
    BY <1>1, <1>2, <1>3, <2>1
  <2>3. i < Len(U) /\ i + 1 \in 1 .. Len(U) /\ f(i + 1) = f(i) + 1
    BY <1>1, <2>1, <2>2
  <2> QED BY <1>1, <2>1, <2>3
<1>4. ASSUME i > 1, Lugar(U[i]) # 0, U[i].r \notin qs
      PROVE  U[i - 1].r = U[i].r /\ Lugar(U[i]) = Lugar(U[i - 1]) + 1
  <2>1. f(i) > 1 /\ T[f(i) - 1].r = U[i].r /\ Lugar(U[i]) = Lugar(T[f(i) - 1]) + 1
    BY <1>1, <1>2, <1>4 DEF Bloques
  <2>2. U[i].r # 0
    BY <1>2, <1>4 DEF Lugar
  <2>3. f(i) - 1 # k
    BY <1>1, <1>4, <2>1, <2>2
  <2>4. i - 1 \in 1 .. Len(U) /\ f(i - 1) = f(i) - 1
    BY <1>1, <1>4, <2>3
  <2> QED BY <1>1, <2>1, <2>4
<1> QED BY <1>2, <1>3, <1>4

LEMMA QuitaCerca ==
  ASSUME NEW T \in Seq(Piezas), NEW U \in Seq(Piezas), NEW k \in 1 .. Len(T), Quita(T, U, k),
         Cerca(T)
  PROVE  Cerca(U)
<1> DEFINE f(i) == IF i < k THEN i ELSE i + 1
<1>1. /\ Len(T) \in Nat /\ Len(U) \in Nat /\ k \in Nat
      /\ \A i \in 1 .. Len(U) : f(i) \in 1 .. Len(T) /\ U[i] = T[f(i)]
      /\ \A i, j \in 1 .. Len(U) : i < j => f(i) < f(j) /\ j - i <= f(j) - f(i)
  BY DEF Quita
<1> HIDE DEF f
<1> SUFFICES ASSUME NEW i \in 1 .. Len(U), NEW j \in 1 .. Len(U),
                    i < j, U[i].r = U[j].r, U[i].r # 0
             PROVE  j - i < LargoPedido
  BY DEF Cerca
<1>2. /\ f(i) \in 1 .. Len(T) /\ f(j) \in 1 .. Len(T) /\ f(i) < f(j) /\ j - i <= f(j) - f(i)
      /\ T[f(i)].r = T[f(j)].r /\ T[f(i)].r # 0
  BY <1>1
<1>3. f(j) - f(i) < LargoPedido
  BY <1>2 DEF Cerca
<1> QED BY <1>1, <1>2, <1>3 DEF LargoPedido, LargoCuerpo

(* Broken pieces come no later than they did; one less comes if it was the *)
(* first that was taken.                                                   *)
LEMMA QuitaDelante ==
  ASSUME NEW T \in Seq(Piezas), NEW U \in Seq(Piezas), NEW k \in 1 .. Len(T), Quita(T, U, k),
         NEW rs, NEW d \in Nat, Delante(T, rs, d)
  PROVE  Delante(U, rs, d) /\ (k = 1 => Delante(U, rs, d - 1))
<1>1. /\ Len(T) \in Nat /\ Len(U) \in Nat /\ Len(U) = Len(T) - 1 /\ k \in Nat
      /\ \A i \in 1 .. Len(U) : i + 1 \in 1 .. Len(T) /\ i \in 1 .. Len(T)
      /\ \A i \in 1 .. Len(U) : U[i] = IF i < k THEN T[i] ELSE T[i + 1]
  BY DEF Quita
<1>2. ASSUME NEW i \in 1 .. Len(U), U[i].r \in rs
      PROVE  i <= d /\ (k = 1 => i <= d - 1)
  <2>1. CASE i < k
    BY <1>1, <1>2, <2>1 DEF Delante
  <2>2. CASE ~(i < k)
    <3>1. i + 1 \in 1 .. Len(T) /\ T[i + 1].r \in rs
      BY <1>1, <1>2, <2>2
    <3>2. i + 1 <= d
      BY <3>1 DEF Delante
    <3> QED BY <3>2
  <2> QED BY <2>1, <2>2
<1> QED BY <1>2 DEF Delante

(* The request of a piece of the FIFO, or of the first behind it, breaks.  *)
LEMMA RompeDelante ==
  ASSUME NEW T \in Seq(Piezas), NEW k \in 1 .. Len(T), NEW f \in Nat, k <= f + 1,
         NEW rs, NEW qs, qs \subseteq rs \cup {T[k].r}, T[k].r # 0,
         Cerca(T), Delante(T, rs, f + LargoPedido - 1)
  PROVE  /\ Delante(T, qs, f + LargoPedido)
         /\ k = 1 /\ f > 0 => Delante(T, qs, f + LargoPedido - 1)
<1>1. Len(T) \in Nat /\ k \in Nat /\ LargoPedido = 4
  BY DEF LargoPedido, LargoCuerpo
<1> SUFFICES ASSUME NEW i \in 1 .. Len(T), T[i].r \in qs
             PROVE  i <= f + LargoPedido /\ (k = 1 /\ f > 0 => i <= f + LargoPedido - 1)
  BY DEF Delante
<1>2. CASE T[i].r \in rs
  BY <1>1, <1>2 DEF Delante
<1>3. CASE T[i].r = T[k].r
  <2>1. i <= k \/ i - k < LargoPedido
    BY <1>1, <1>3 DEF Cerca
  <2> QED BY <1>1, <2>1
<1> QED BY <1>2, <1>3

(* What is of no request comes last. *)
LEMMA AgregaEstructura ==
  ASSUME NEW T \in Seq(Piezas), NEW U \in Seq(Piezas), NEW x \in {Txt, Ok, Prompt},
         Len(U) = Len(T) + 1, U[Len(T) + 1] = x, \A i \in 1 .. Len(T) : U[i] = T[i],
         NEW f \in Nat, NEW n \in Nat, NEW rs, rs \subseteq 1 .. n, Estructura(T, f, rs),
         NEW d, Delante(T, rs, d)
  PROVE  Estructura(U, f, rs) /\ Delante(U, rs, d)
<1>1. /\ Len(T) \in Nat /\ x.r = 0 /\ x.r \notin rs /\ x.t \in {"txt", "ok", "prompt"} /\ Lugar(x) = 0
      /\ \A i \in 1 .. Len(U) : i \in 1 .. Len(T) \/ i = Len(T) + 1
  BY DEF Txt, Ok, Prompt, Lugar
<1>2. Bloques(U, rs)
  <2> SUFFICES ASSUME NEW i \in 1 .. Len(U)
               PROVE  /\ U[i].r = 0 <=> U[i].t \in {"txt", "ok", "prompt"}
                      /\ U[i].t = "ipd" /\ U[i].r \notin rs =>
                           i < Len(U) /\ U[i + 1].t = "len" /\ U[i + 1].r = U[i].r
                      /\ i > 1 /\ Lugar(U[i]) # 0 /\ U[i].r \notin rs =>
                           U[i - 1].r = U[i].r /\ Lugar(U[i]) = Lugar(U[i - 1]) + 1
    BY DEF Bloques
  <2>1. CASE i = Len(T) + 1
    BY <1>1, <2>1
  <2>2. CASE i \in 1 .. Len(T)
    <3>1. /\ T[i].r = 0 <=> T[i].t \in {"txt", "ok", "prompt"}
          /\ T[i].t = "ipd" /\ T[i].r \notin rs =>
               i < Len(T) /\ T[i + 1].t = "len" /\ T[i + 1].r = T[i].r
          /\ i > 1 /\ Lugar(T[i]) # 0 /\ T[i].r \notin rs =>
               T[i - 1].r = T[i].r /\ Lugar(T[i]) = Lugar(T[i - 1]) + 1
      BY <2>2 DEF Estructura, Bloques
    <3>2. U[i] = T[i] /\ (i > 1 => U[i - 1] = T[i - 1]) /\ (i < Len(T) => U[i + 1] = T[i + 1])
      BY <1>1, <2>2
    <3> QED BY <1>1, <2>2, <3>1, <3>2
  <2> QED BY <1>1, <2>1, <2>2
<1>3. Cerca(U)
  BY <1>1 DEF Estructura, Cerca
<1>4. \A e : Delante(T, rs, e) => Delante(U, rs, e)
  BY <1>1 DEF Delante
<1> QED BY <1>2, <1>3, <1>4 DEF Estructura

(* A new request comes last, in one piece. *)
LEMMA PideEstructura ==
  ASSUME NEW T \in Seq(Piezas), NEW U \in Seq(Piezas), NEW n \in Nat,
         Len(U) = Len(T) + 5, \A i \in 1 .. Len(T) : U[i] = T[i],
         U[Len(T) + 1] = Txt, U[Len(T) + 2] = Ipd(n + 1), U[Len(T) + 3] = Len_(n + 1, LargoCuerpo),
         U[Len(T) + 4] = Get(n + 1), U[Len(T) + 5] = Fin(n + 1),
         \A i \in 1 .. Len(T) : T[i].r <= n,
         NEW f \in Nat, NEW rs, rs \subseteq 1 .. n, Estructura(T, f, rs),
         NEW d, Delante(T, rs, d)
  PROVE  Estructura(U, f, rs) /\ Delante(U, rs, d)
<1> DEFINE l == Len(T)
<1>1. /\ l \in Nat /\ Len(U) = l + 5 /\ \A i \in 1 .. l : T[i].r \in Nat /\ U[i] = T[i]
      /\ \A i \in 1 .. Len(U) : i \in 1 .. l \/ i \in {l + 1, l + 2, l + 3, l + 4, l + 5}
      /\ n + 1 \notin rs /\ 0 \notin rs /\ n + 1 # 0
  BY Numeros
<1>2. /\ U[l + 1].r = 0 /\ U[l + 1].t = "txt" /\ Lugar(U[l + 1]) = 0
      /\ U[l + 2].r = n + 1 /\ U[l + 2].t = "ipd" /\ Lugar(U[l + 2]) = 0
      /\ U[l + 3].r = n + 1 /\ U[l + 3].t = "len" /\ Lugar(U[l + 3]) = 1
      /\ U[l + 4].r = n + 1 /\ U[l + 4].t = "get" /\ Lugar(U[l + 4]) = 2
      /\ U[l + 5].r = n + 1 /\ U[l + 5].t = "fin" /\ Lugar(U[l + 5]) = 3
  BY DEF Txt, Ipd, Len_, Get, Fin, Lugar
<1> HIDE DEF l
<1>3. Bloques(U, rs)
  <2> SUFFICES ASSUME NEW i \in 1 .. Len(U)
               PROVE  /\ U[i].r = 0 <=> U[i].t \in {"txt", "ok", "prompt"}
                      /\ U[i].t = "ipd" /\ U[i].r \notin rs =>
                           i < Len(U) /\ U[i + 1].t = "len" /\ U[i + 1].r = U[i].r
                      /\ i > 1 /\ Lugar(U[i]) # 0 /\ U[i].r \notin rs =>
                           U[i - 1].r = U[i].r /\ Lugar(U[i]) = Lugar(U[i - 1]) + 1
    BY DEF Bloques
  <2>1. CASE i = l + 1
    BY <1>1, <1>2, <2>1
  <2>2. CASE i = l + 2
    BY <1>1, <1>2, <2>2
  <2>3. CASE i = l + 3
    BY <1>1, <1>2, <2>3
  <2>4. CASE i = l + 4
    BY <1>1, <1>2, <2>4
  <2>5. CASE i = l + 5
    BY <1>1, <1>2, <2>5
  <2>6. CASE i \in 1 .. l
    <3>1. /\ T[i].r = 0 <=> T[i].t \in {"txt", "ok", "prompt"}
          /\ T[i].t = "ipd" /\ T[i].r \notin rs =>
               i < l /\ T[i + 1].t = "len" /\ T[i + 1].r = T[i].r
          /\ i > 1 /\ Lugar(T[i]) # 0 /\ T[i].r \notin rs =>
               T[i - 1].r = T[i].r /\ Lugar(T[i]) = Lugar(T[i - 1]) + 1
      BY <2>6 DEF Estructura, Bloques, l
    <3>2. U[i] = T[i] /\ (i > 1 => U[i - 1] = T[i - 1]) /\ (i < l => U[i + 1] = T[i + 1])
      BY <1>1, <2>6
    <3> QED BY <1>1, <2>6, <3>1, <3>2, SMTT(40)
  <2> QED BY <1>1, <2>1, <2>2, <2>3, <2>4, <2>5, <2>6
<1>4. Cerca(U)
  <2> SUFFICES ASSUME NEW i \in 1 .. Len(U), NEW j \in 1 .. Len(U),
                      i < j, U[i].r = U[j].r, U[i].r # 0
               PROVE  j - i < LargoPedido
    BY DEF Cerca
  <2>1. CASE j \in 1 .. l
    <3>1. i \in 1 .. l /\ T[i].r = T[j].r /\ T[i].r # 0
      BY <1>1, <2>1
    <3> QED BY <2>1, <3>1 DEF Estructura, Cerca, l
  <2>2. CASE i \in 1 .. l /\ j \in {l + 1, l + 2, l + 3, l + 4, l + 5}
    <3>1. U[i].r <= n /\ U[i].r \in Nat
      BY <1>1, <2>2 DEF l
    <3>2. U[j].r = 0 \/ U[j].r = n + 1
      BY <1>2, <2>2
    <3> QED BY <3>1, <3>2
  <2>3. CASE i \in {l + 1, l + 2, l + 3, l + 4, l + 5}
    <3>1. i # l + 1
      BY <1>2
    <3>2. j \in l + 3 .. l + 5 /\ i \in l + 2 .. l + 4 /\ l \in Nat
      BY <1>1, <2>3, <3>1 DEF l
    <3> HIDE DEF l
    <3>3. j - i < 4
      BY <3>2
    <3> QED BY <3>3 DEF LargoPedido, LargoCuerpo
  <2> QED BY <1>1, <2>1, <2>2, <2>3
<1>5. ASSUME NEW e, Delante(T, rs, e) PROVE Delante(U, rs, e)
  <2> SUFFICES ASSUME NEW i \in 1 .. Len(U), U[i].r \in rs PROVE i <= e
    BY DEF Delante
  <2>1. i \in 1 .. l
    BY <1>1, <1>2
  <2> QED BY <1>1, <1>5, <2>1 DEF Delante, l
<1> QED BY <1>3, <1>4, <1>5 DEF Estructura

(* A length has a hole. *)
LEMMA MutilaBloques ==
  ASSUME NEW T \in Seq(Piezas), NEW U \in Seq(Piezas), Len(U) = Len(T),
         \A i \in 1 .. Len(T) : U[i].t = T[i].t /\ U[i].r = T[i].r,
         NEW rs, NEW qs, rs \subseteq qs, Bloques(T, rs)
  PROVE  Bloques(U, qs)
<1> SUFFICES ASSUME NEW i \in 1 .. Len(U)
             PROVE  /\ U[i].r = 0 <=> U[i].t \in {"txt", "ok", "prompt"}
                    /\ U[i].t = "ipd" /\ U[i].r \notin qs =>
                         i < Len(U) /\ U[i + 1].t = "len" /\ U[i + 1].r = U[i].r
                    /\ i > 1 /\ Lugar(U[i]) # 0 /\ U[i].r \notin qs =>
                         U[i - 1].r = U[i].r /\ Lugar(U[i]) = Lugar(U[i - 1]) + 1
  BY DEF Bloques
<1>1. \A j \in 1 .. Len(T) : Lugar(U[j]) = Lugar(T[j])
  BY DEF Lugar
<1>2. /\ T[i].r = 0 <=> T[i].t \in {"txt", "ok", "prompt"}
      /\ T[i].t = "ipd" /\ T[i].r \notin rs =>
           i < Len(T) /\ T[i + 1].t = "len" /\ T[i + 1].r = T[i].r
      /\ i > 1 /\ Lugar(T[i]) # 0 /\ T[i].r \notin rs =>
           T[i - 1].r = T[i].r /\ Lugar(T[i]) = Lugar(T[i - 1]) + 1
  BY DEF Bloques
<1>3. /\ Len(T) \in Nat /\ i \in 1 .. Len(T)
      /\ i < Len(T) => i + 1 \in 1 .. Len(T)
      /\ i > 1 => i - 1 \in 1 .. Len(T)
  OBVIOUS
<1> QED BY <1>1, <1>2, <1>3

-----------------------------------------------------------------------------
(* The debt                                                                *)

LEMMA Constantes ==
  /\ LargoPedido = 4 /\ LargoCuerpo = 2 /\ REQBUF \in Nat /\ REQBUF > 5 /\ FIFO \in Nat
  /\ LargoMax \in Nat /\ LargoMax >= 2
BY EspAssumption DEF LargoPedido, LargoCuerpo

LEMMA CabidaTipo ==
  ASSUME NEW w \in Nat
  PROVE  /\ Cabida(w) \in Nat /\ Cabida(w) >= REQBUF /\ Cabida(w) >= w + 3
         /\ LargoPedido = 4 /\ LargoCuerpo = 2 /\ REQBUF \in Nat /\ REQBUF > 5 /\ FIFO \in Nat
BY Constantes DEF Cabida, Mayor

(* While broken pieces come the debt is the largest.                       *)
LEMMA Techo ==
  ASSUME NEW T, NEW rs, NEW B \in Seq(Piezas), Len(B) <= REQBUF, NEW need \in 0 .. LargoMax, NEW c,
         NEW d \in Nat, NEW w \in Nat, Previsto(need, c, rs, w)
  PROVE  /\ Deuda(B, T, need, c, rs, d, w) \in Nat
         /\ Deuda(B, T, need, c, rs, d, w) <= Avance(T, rs) + d + Cabida(w)
<1> DEFINE a == Avance(T, rs)  l == Len(B)  m == Cabida(w)  D == Deuda(B, T, need, c, rs, d, w)
<1>1. a \in Nat /\ l \in Nat /\ l <= REQBUF /\ need \in Nat
  BY AvanceTipo, Constantes
<1>2. \/ D \in {0, LargoPedido, a + REQBUF - l, a + d + m}
      \/ D = a + need + LargoPedido - 1 /\ need <= w
  BY DEF Deuda, Previsto
<1>3. m \in Nat /\ m >= REQBUF /\ m >= w + 3
  BY CabidaTipo
<1> HIDE DEF a, l, m, D
<1>4. D \in Nat /\ D <= a + d + m
  BY <1>1, <1>2, <1>3, Constantes
<1> QED BY <1>4 DEF a, m, D

(* After a loss: it may be as large as ever.                               *)
LEMMA SaldaTrasPerdida ==
  ASSUME NEW T, NEW rs, NEW B, NEW need \in Nat, NEW c, NEW f \in Nat, f <= FIFO,
         Delante(T, rs, f + LargoPedido - 1)
  PROVE  Salda(B, T, need, c, rs, 0, 0, need)
<1> DEFINE d == f + LargoPedido - 1
<1>1. d \in Nat /\ d > 0 /\ Avance(T, rs) \in 0 .. 3
  BY AvanceTipo, Constantes
<1>2. Deuda(B, T, need, c, rs, d, need) = Avance(T, rs) + d + Cabida(need)
  BY <1>1 DEF Deuda
<1> DEFINE a == Avance(T, rs)  D == Deuda(B, T, need, c, rs, d, need)
<1>3. a \in 0 .. 3 /\ D = a + d + Cabida(need)
  BY <1>1, <1>2
<1> HIDE DEF a, D
<1>4. LargoPedido * 0 + D <= Cuota(0, need)
  BY <1>3, CabidaTipo DEF Cuota
<1>5. Previsto(need, c, rs, need)
  BY DEF Previsto
<1> QED BY <1>1, <1>4, <1>5 DEF Salda, D

LEMMA CuotaEs ==
  ASSUME NEW v \in Nat, NEW w \in Nat
  PROVE  /\ Cuota(v, w) = Cabida(w) + FIFO + 6 + 4 * v /\ Cuota(v, w) \in Nat
         /\ Cabida(w) \in Nat /\ Cabida(w) >= REQBUF
<1>1. Cabida(w) \in Nat /\ Cabida(w) >= REQBUF
  BY CabidaTipo
<1> QED BY <1>1, Constantes DEF Cuota

LEMMA NadaPrevisto == \A c, rs : \A w \in Nat : Previsto(0, c, rs, w)
BY DEF Previsto

(* What is first in the queue stays the same.                              *)
LEMMA SaldaIgual ==
  ASSUME NEW T, NEW U, T # <<>>, U # <<>>, U[1] = T[1], NEW rs, NEW B, NEW need, NEW c,
         NEW s, NEW v, NEW w, Salda(B, T, need, c, rs, s, v, w),
         \A d \in Nat : Delante(T, rs, d) => Delante(U, rs, d)
  PROVE  Salda(B, U, need, c, rs, s, v, w)
<1>1. Avance(U, rs) = Avance(T, rs) /\ (Espera(B, U) <=> Espera(B, T))
  BY DEF Avance, Espera
<1>2. \A d : Deuda(B, U, need, c, rs, d, w) = Deuda(B, T, need, c, rs, d, w)
  BY <1>1 DEF Deuda
<1> QED BY <1>2 DEF Salda

(* Neither the first piece of before nor the one of after is of a request  *)
(* already begun.                                                          *)
LEMMA SaldaSuelta ==
  ASSUME NEW T, NEW U, T = <<>> \/ T[1].t \in {"txt", "ok", "prompt"}, NEW rs, Avance(U, rs) = 0,
         NEW B \in Seq(Piezas), Len(B) <= REQBUF, NEW need \in 0 .. LargoMax, NEW c,
         NEW s \in Nat, NEW v \in Nat, NEW w \in Nat, Salda(B, T, need, c, rs, s, v, w),
         \A d \in Nat : Delante(T, rs, d) => Delante(U, rs, d)
  PROVE  Salda(B, U, need, c, rs, s, v, w)
<1>w. Cuota(v, w) \in Nat /\ Cabida(w) \in Nat
  BY CuotaEs
<1>1. Avance(T, rs) = 0 /\ ~Espera(B, T) /\ Previsto(need, c, rs, w)
  BY DEF Avance, Espera, Lugar, Salda
<1>2. PICK d \in Nat :
        Delante(T, rs, d) /\ LargoPedido * s + Deuda(B, T, need, c, rs, d, w) <= Cuota(v, w)
  BY DEF Salda
<1>3. Len(B) \in Nat
  OBVIOUS
<1>4. Deuda(B, U, need, c, rs, d, w) <= Deuda(B, T, need, c, rs, d, w)
  BY <1>1, <1>3, <1>w, Constantes DEF Deuda
<1>5. /\ Deuda(B, U, need, c, rs, d, w) \in Nat /\ Deuda(B, T, need, c, rs, d, w) \in Nat
  BY <1>1, Techo
<1>6. LargoPedido * s + Deuda(B, U, need, c, rs, d, w) <= Cuota(v, w)
  <2> DEFINE x == Deuda(B, U, need, c, rs, d, w)  y == Deuda(B, T, need, c, rs, d, w)
  <2>1. x \in Nat /\ y \in Nat /\ x <= y /\ LargoPedido * s + y <= Cuota(v, w)
    BY <1>2, <1>4, <1>5
  <2> HIDE DEF x, y
  <2>2. LargoPedido * s + x <= Cuota(v, w)
    BY <1>w, <2>1, Constantes
  <2> QED BY <2>2 DEF x
<1> QED BY <1>1, <1>2, <1>6 DEF Salda

(* The piece p is read, and counted if with it a whole request ends.       *)
Cuentan(s, z, p, rs) == z = s \/ (z = s + 1 /\ p.t = "fin" /\ p.r \notin rs)

(* What comes next is at most one piece further in a request, and then in  *)
(* the same one; with its last piece a whole request pays for being missed.*)
LEMMA Paga ==
  ASSUME NEW T \in Seq(Piezas), NEW U \in Seq(Piezas), 1 \in 1 .. Len(T), Quita(T, U, 1),
         NEW rs, Bloques(T, rs), NEW s \in Nat, NEW z \in Nat, Cuentan(s, z, T[1], rs)
  PROVE  /\ Avance(U, rs) # 0 =>
              /\ T[1].r \notin rs /\ T[1].r # 0 /\ T[1].t # "fin"
              /\ Avance(U, rs) = Avance(T, rs) + 1
         /\ z = s \/ (z = s + 1 /\ Avance(T, rs) = 3 /\ Avance(U, rs) = 0)
         /\ LargoPedido * z + Avance(U, rs) <= LargoPedido * s + Avance(T, rs) + 1
<1>1. Len(T) \in Nat /\ Len(U) = Len(T) - 1 /\ T # <<>>
  BY DEF Quita
<1>2. ASSUME Avance(U, rs) # 0
      PROVE  /\ T[1].r \notin rs /\ T[1].r # 0 /\ T[1].t # "fin"
             /\ Avance(U, rs) = Avance(T, rs) + 1
  <2>1. U # <<>> /\ U[1].r \notin rs /\ Lugar(U[1]) # 0 /\ Avance(U, rs) = Lugar(U[1])
    BY <1>2 DEF Avance
  <2>2. 2 \in 1 .. Len(T) /\ U[1] = T[2] /\ 2 - 1 = 1
    <3>1. Len(U) \in Nat /\ Len(U) # 0
      BY <2>1
    <3>2. 1 \in 1 .. Len(U) /\ 2 \in 1 .. Len(T)
      BY <1>1, <3>1
    <3> QED BY <1>1, <3>2 DEF Quita
  <2>3. T[1].r = T[2].r /\ Lugar(T[2]) = Lugar(T[1]) + 1 /\ T[2].r # 0
    <3>1. T[2 - 1].r = T[2].r /\ Lugar(T[2]) = Lugar(T[2 - 1]) + 1
      BY <2>1, <2>2 DEF Bloques
    <3>2. T[2].r # 0
      BY <2>1, <2>2 DEF Bloques, Lugar
    <3> QED BY <3>1, <3>2
  <2>4. T[1].t # "fin"
    BY <2>3 DEF Lugar
  <2> QED BY <1>1, <2>1, <2>2, <2>3, <2>4 DEF Avance
<1>3. ASSUME T[1].t = "fin", T[1].r \notin rs PROVE Avance(T, rs) = 3 /\ Avance(U, rs) = 0
  BY <1>1, <1>2, <1>3 DEF Avance, Lugar
<1>4. z = s \/ (z = s + 1 /\ Avance(T, rs) = 3 /\ Avance(U, rs) = 0)
  BY <1>3 DEF Cuentan
<1>5. LargoPedido * z + Avance(U, rs) <= LargoPedido * s + Avance(T, rs) + 1
  <2> DEFINE a == Avance(T, rs)  b == Avance(U, rs)
  <2>1. a \in 0 .. 3 /\ b \in 0 .. 3 /\ (b # 0 => b = a + 1)
        /\ (z = s \/ (z = s + 1 /\ a = 3 /\ b = 0))
    BY <1>2, <1>4, AvanceTipo
  <2> HIDE DEF a, b
  <2>2. LargoPedido * z + b <= LargoPedido * s + a + 1
    BY <2>1, Constantes
  <2> QED BY <2>2 DEF a, b
<1> QED BY <1>2, <1>4, <1>5

(* While broken pieces come, whatever the assembler makes of the piece.    *)
LEMMA LeeDelante ==
  ASSUME NEW T \in Seq(Piezas), NEW U \in Seq(Piezas), 1 \in 1 .. Len(T), Quita(T, U, 1),
         NEW rs, Bloques(T, rs), NEW s \in Nat, NEW z \in Nat, Cuentan(s, z, T[1], rs),
         NEW d \in Nat, d > 0, Delante(T, rs, d),
         NEW B, NEW need, NEW c, NEW v \in Nat, NEW w \in Nat,
         LargoPedido * s + Deuda(B, T, need, c, rs, d, w) <= Cuota(v, w),
         NEW B2 \in Seq(Piezas), Len(B2) <= REQBUF, NEW need2 \in 0 .. LargoMax, NEW c2,
         NEW v2 \in Nat, v <= v2, NEW w2 \in Nat, Previsto(need2, c2, rs, w2)
  PROVE  Salda(B2, U, need2, c2, rs, z, v2, w2)
<1> DEFINE a == Avance(T, rs)  b == Avance(U, rs)  D == Deuda(B2, U, need2, c2, rs, d - 1, w2)
<1>1. a \in 0 .. 3 /\ b \in 0 .. 3 /\ d - 1 \in Nat
  BY AvanceTipo
<1>2. Delante(U, rs, d - 1)
  BY QuitaDelante
<1>3. LargoPedido * s + (a + d + Cabida(w)) <= Cuota(v, w)
  BY DEF Deuda
<1>4. D \in Nat /\ D <= b + (d - 1) + Cabida(w2)
  BY <1>1, Techo
<1>5. LargoPedido * z + b <= LargoPedido * s + a + 1
  BY Paga
<1> HIDE DEF a, b, D
<1>a. /\ Cabida(w) \in Nat /\ Cuota(v, w) = Cabida(w) + FIFO + 6 + 4 * v
      /\ Cabida(w2) \in Nat /\ Cuota(v2, w2) = Cabida(w2) + FIFO + 6 + 4 * v2
  BY CuotaEs
<1>b. LargoPedido * z = 4 * z /\ LargoPedido * s = 4 * s /\ FIFO \in Nat
  BY Constantes
<1>6. LargoPedido * z + D <= Cuota(v2, w2)
  <2> DEFINE m == Cabida(w)  q == Cuota(v, w)  m2 == Cabida(w2)  q2 == Cuota(v2, w2)
             y == LargoPedido * s  x == LargoPedido * z
  <2>1. /\ m \in Nat /\ q = m + FIFO + 6 + 4 * v /\ m2 \in Nat /\ q2 = m2 + FIFO + 6 + 4 * v2
    BY <1>a
  <2>y. y \in Nat /\ x \in Nat /\ FIFO \in Nat
    <3>1. 4 * s \in Nat /\ 4 * z \in Nat
      OBVIOUS
    <3> QED BY <3>1, <1>b
  <2>2. y + (a + d + m) <= q /\ D <= b + (d - 1) + m2 /\ x + b <= y + a + 1
    BY <1>3, <1>4, <1>5
  <2> HIDE DEF m, q, m2, q2, y, x
  <2>3. x + D <= q2
    BY <1>1, <1>4, <2>1, <2>y, <2>2
  <2> QED BY <2>3 DEF x, q2
<1> QED BY <1>1, <1>2, <1>6 DEF Salda, D

(* No broken piece comes any more. *)
LEMMA Sana ==
  ASSUME NEW T \in Seq(Piezas), NEW U \in Seq(Piezas), 1 \in 1 .. Len(T), Quita(T, U, 1),
         NEW rs, Delante(T, rs, 0)
  PROVE  /\ T[1].r \notin rs /\ Delante(U, rs, 0)
         /\ T # <<>> /\ Avance(T, rs) = Lugar(T[1])
<1>1. T[1].r \notin rs /\ T # <<>>
  BY DEF Delante
<1>2. Delante(U, rs, 0)
  BY QuitaDelante
<1> QED BY <1>1, <1>2 DEF Avance

(* A header is looked for and the full buffer is emptied: the request that *)
(* was begun, or that begins with the piece, may be missed.                *)
LEMMA LeeVacia ==
  ASSUME NEW T \in Seq(Piezas), NEW U \in Seq(Piezas), 1 \in 1 .. Len(T), Quita(T, U, 1),
         NEW rs, Bloques(T, rs), NEW s \in Nat, NEW z \in Nat, Cuentan(s, z, T[1], rs),
         NEW B \in Seq(Piezas), Len(B) <= REQBUF, NEW c, NEW v \in Nat, NEW w \in Nat,
         Salda(B, T, 0, c, rs, s, v, w)
  PROVE  Salda(<<>>, U, 0, c, rs, z, v + 1, w)
<1>1. PICK d \in Nat :
        Delante(T, rs, d) /\ LargoPedido * s + Deuda(B, T, 0, c, rs, d, w) <= Cuota(v, w)
  BY DEF Salda
<1>2. /\ <<>> \in Seq(Piezas) /\ Len(<<>>) <= REQBUF /\ 0 \in 0 .. LargoMax /\ SinIpd(<<>>)
      /\ v + 1 \in Nat /\ v <= v + 1 /\ Previsto(0, c, rs, w)
  BY Constantes, NadaPrevisto DEF SinIpd
<1>3. CASE d > 0
  BY <1>1, <1>2, <1>3, LeeDelante
<1>4. CASE d = 0
  <2>1. Delante(U, rs, 0)
    BY <1>1, <1>4, Sana
  <2> DEFINE D == Deuda(B, T, 0, c, rs, 0, w)
             G == Deuda(<<>>, U, 0, c, rs, 0, w)
  <2>2. D \in Nat /\ LargoPedido * s + D <= Cuota(v, w)
    BY <1>1, <1>2, <1>4, Techo
  <2>3. G = IF Avance(U, rs) = 0 THEN 0 ELSE LargoPedido
    BY <1>2 DEF Deuda
  <2>p. /\ Avance(U, rs) # 0 =>
             /\ T[1].r \notin rs /\ T[1].r # 0 /\ T[1].t # "fin"
             /\ Avance(U, rs) = Avance(T, rs) + 1
        /\ z = s \/ (z = s + 1 /\ Avance(T, rs) = 3 /\ Avance(U, rs) = 0)
        /\ LargoPedido * z + Avance(U, rs) <= LargoPedido * s + Avance(T, rs) + 1
    BY Paga
  <2>4. (z = s /\ G \in {0, LargoPedido}) \/ (z = s + 1 /\ G = 0)
    BY <2>3, <2>p
  <2> HIDE DEF D, G
  <2>a. /\ Cabida(w) \in Nat /\ Cuota(v, w) = Cabida(w) + FIFO + 6 + 4 * v
        /\ Cuota(v + 1, w) = Cabida(w) + FIFO + 6 + 4 * (v + 1)
    BY CuotaEs
  <2>b. /\ LargoPedido * z = 4 * z /\ LargoPedido * s = 4 * s
        /\ FIFO \in Nat /\ LargoPedido = 4
    BY Constantes
  <2>5. LargoPedido * z + G <= Cuota(v + 1, w)
    <3> DEFINE m == Cabida(w)  q == Cuota(v, w)  q2 == Cuota(v + 1, w)
               y == LargoPedido * s  x == LargoPedido * z
    <3>1. q \in Int /\ q2 = q + 4 /\ x \in Int /\ y \in Int
      <4>1. m \in Int /\ q = m + FIFO + 6 + 4 * v /\ q2 = m + FIFO + 6 + 4 * (v + 1)
        BY <2>a
      <4> HIDE DEF m, q, q2
      <4> QED BY <4>1, <2>b
    <3>2. (x = y /\ G \in {0, 4}) \/ (x = y + 4 /\ G = 0)
      BY <2>4, <2>b
    <3>3. D \in Nat /\ y + D <= q
      BY <2>2
    <3> HIDE DEF m, q, q2, x, y
    <3>4. x + G <= q2
      BY <3>1, <3>2, <3>3
    <3> QED BY <3>4 DEF x, q2
  <2> QED BY <1>2, <2>1, <2>5 DEF Salda, G
<1> QED BY <1>3, <1>4

(* A header is looked for and the piece does not end one.                  *)
LEMMA LeeSinCabecera ==
  ASSUME NEW T \in Seq(Piezas), NEW U \in Seq(Piezas), 1 \in 1 .. Len(T), Quita(T, U, 1),
         NEW rs, Bloques(T, rs), NEW s \in Nat, NEW z \in Nat, Cuentan(s, z, T[1], rs),
         NEW B \in Seq(Piezas), Len(B) < REQBUF, NEW c, NEW v \in Nat, NEW w \in Nat,
         Salda(B, T, 0, c, rs, s, v, w), Cabeceras(Append(B, T[1])) = {}
  PROVE  Salda(Append(B, T[1]), U, 0, c, rs, z, v, w)
<1> DEFINE p == T[1]  A == Append(B, T[1])
<1>0. T[1] \in Piezas
  BY Numeros
<1>1. /\ A \in Seq(Piezas) /\ Len(B) \in Nat /\ Len(A) = Len(B) + 1 /\ A[Len(B) + 1] = p
      /\ \A i \in 1 .. Len(B) : A[i] = B[i]
      /\ \A i \in 1 .. Len(A) : i \in 1 .. Len(B) \/ i = Len(B) + 1
  BY <1>0
<1>2. PICK d \in Nat :
        Delante(T, rs, d) /\ LargoPedido * s + Deuda(B, T, 0, c, rs, d, w) <= Cuota(v, w)
  BY DEF Salda
<1>a. Previsto(0, c, rs, w)
  BY NadaPrevisto
<1>3. CASE d > 0
  <2>1. Len(A) <= REQBUF /\ 0 \in 0 .. LargoMax /\ v <= v
    BY <1>1, Constantes
  <2> HIDE DEF A
  <2>2. Salda(A, U, 0, c, rs, z, v, w)
    BY <1>1, <1>2, <1>3, <1>a, <2>1, LeeDelante
  <2> QED BY <2>2 DEF A
<1>4. CASE d = 0
  <2> DEFINE a == Avance(T, rs)  b == Avance(U, rs)
             D == Deuda(B, T, 0, c, rs, 0, w)  G == Deuda(A, U, 0, c, rs, 0, w)
  <2>1. p.r \notin rs /\ Delante(U, rs, 0) /\ T # <<>> /\ a = Lugar(p)
    BY <1>2, <1>4, Sana
  <2>p. /\ Avance(U, rs) # 0 =>
             /\ T[1].r \notin rs /\ T[1].r # 0 /\ T[1].t # "fin"
             /\ Avance(U, rs) = Avance(T, rs) + 1
        /\ z = s \/ (z = s + 1 /\ Avance(T, rs) = 3 /\ Avance(U, rs) = 0)
        /\ LargoPedido * z + Avance(U, rs) <= LargoPedido * s + Avance(T, rs) + 1
    BY Paga
  <2>2. /\ z = s \/ (z = s + 1 /\ a = 3 /\ b = 0)
        /\ LargoPedido * z + b <= LargoPedido * s + a + 1
        /\ b # 0 => b = a + 1 /\ p.r # 0
        /\ a \in 0 .. 3 /\ b \in 0 .. 3
    BY <2>p, AvanceTipo
  <2>3. LargoPedido * s + D <= Cuota(v, w)
    BY <1>2, <1>4
  <2>4. LargoPedido * z + G <= LargoPedido * s + D
    <3>1. CASE SinIpd(B) /\ p.t # "ipd"
      <4>1. SinIpd(A)
        BY <1>1, <3>1 DEF SinIpd
      <4>2. /\ D = IF a = 0 THEN 0 ELSE LargoPedido
            /\ G = IF b = 0 THEN 0 ELSE LargoPedido
        BY <3>1, <4>1 DEF Deuda
      <4>3. a = 0 => b = 0
        <5> SUFFICES ASSUME a = 0, b # 0 PROVE FALSE
          OBVIOUS
        <5>1. p.r # 0 /\ p.t \notin {"len", "get", "fin"}
          BY <2>1, <2>2 DEF Lugar
        <5>2. p.t \in {"txt", "ok", "prompt"}
          BY <1>0, <3>1, <5>1 DEF Piezas
        <5>3. p.r = 0
          BY <5>2 DEF Bloques
        <5> QED BY <5>1, <5>3
      <4> HIDE DEF a, b, D, G
      <4> QED BY <2>2, <4>2, <4>3, Constantes
    <3>2. CASE SinIpd(B) /\ p.t = "ipd"
      <4>1. 1 < Len(T) /\ T[2].t = "len"
        <5>1. 1 < Len(T) /\ T[1 + 1].t = "len"
          BY <2>1, <3>2 DEF Bloques
        <5> QED BY <5>1
      <4>2. U # <<>> /\ U[1].t = "len"
        <5>1. 1 \in 1 .. Len(U) /\ U[1] = T[2]
          BY <4>1 DEF Quita
        <5> QED BY <4>1, <5>1
      <4>3. Espera(A, U) /\ ~SinIpd(A)
        BY <1>1, <3>2, <4>2 DEF Espera, SinIpd
      <4>4. G = 0
        BY <4>3 DEF Deuda
      <4>5. a = 0
        BY <2>1, <3>2 DEF Lugar
      <4>6. D = 0 /\ z = s
        BY <2>2, <3>2, <4>5 DEF Deuda
      <4> HIDE DEF a, b, D, G
      <4> QED BY <4>4, <4>6, Constantes
    <3>3. CASE ~SinIpd(B)
      <4>1. PICK i \in 1 .. Len(B) : B[i].t = "ipd"
        BY <3>3 DEF SinIpd
      <4>2. ~SinIpd(A) /\ ~Espera(A, U)
        <5>1. i \in 1 .. Len(A) /\ A[i].t = "ipd" /\ i \in 1 .. Len(A) - 1
          BY <1>1, <4>1
        <5> QED BY <5>1 DEF SinIpd, Espera
      <4>3. ~Espera(B, T)
        <5> SUFFICES ASSUME Espera(B, T) PROVE FALSE
          OBVIOUS
        <5>1. /\ Len(B) \in 1 .. Len(A) - 1 /\ A[Len(B)].t = "ipd" /\ A[Len(B) + 1].t = "len"
              /\ \A j \in 1 .. Len(B) - 1 : A[j].t # "ipd"
          BY <1>1, <4>1 DEF Espera
        <5>2. Len(B) \in Cabeceras(A)
          BY <5>1 DEF Cabeceras
        <5> QED BY <5>2
      <4>4. D = a + REQBUF - Len(B)
        BY <3>3, <4>3 DEF Deuda
      <4>5. G = b + REQBUF - Len(A)
        BY <4>2 DEF Deuda
      <4> HIDE DEF a, b, D, G, A
      <4> QED BY <1>1, <2>2, <4>4, <4>5, Constantes
    <3> QED BY <3>1, <3>2, <3>3
  <2> HIDE DEF a, b
  <2>5. G \in Nat /\ D \in Nat
    <3>1. Len(A) <= REQBUF /\ Len(B) <= REQBUF /\ 0 \in 0 .. LargoMax
      BY <1>1, Constantes
    <3> HIDE DEF A
    <3> QED BY <1>1, <1>a, <3>1, Techo
  <2> HIDE DEF D, G
  <2>w. Cuota(v, w) = Cabida(w) + FIFO + 6 + 4 * v /\ Cabida(w) \in Nat
    BY CuotaEs
  <2>6. LargoPedido * z + G <= Cuota(v, w)
    BY <2>3, <2>4, <2>5, <2>w, Constantes
  <2> QED BY <1>a, <2>1, <2>6 DEF Salda, G
<1> QED BY <1>3, <1>4

(* The piece ends the header of a request.                                 *)
LEMMA LeeCabecera ==
  ASSUME NEW T \in Seq(Piezas), NEW U \in Seq(Piezas), 1 \in 1 .. Len(T), Quita(T, U, 1),
         NEW rs, Bloques(T, rs), Enteras(T, rs),
         NEW s \in Nat, NEW z \in Nat, Cuentan(s, z, T[1], rs), T[1].t = "len",
         NEW B \in Seq(Piezas), Len(B) <= REQBUF, NEW c, NEW v \in Nat, NEW w \in Nat,
         Salda(B, T, 0, c, rs, s, v, w)
  PROVE  Salda(<<>>, U, T[1].n, T[1].r, rs, z, v, IF T[1].r \in rs THEN T[1].n ELSE w)
<1> DEFINE w2 == IF T[1].r \in rs THEN T[1].n ELSE w
<1>1. PICK d \in Nat :
        Delante(T, rs, d) /\ LargoPedido * s + Deuda(B, T, 0, c, rs, d, w) <= Cuota(v, w)
  BY DEF Salda
<1>2. <<>> \in Seq(Piezas) /\ Len(<<>>) <= REQBUF /\ T[1].n \in 0 .. LargoMax /\ v <= v
      /\ 0 \in 0 .. LargoMax /\ Previsto(0, c, rs, w)
  BY Numeros, Constantes, NadaPrevisto
<1>a. w2 \in Nat /\ Previsto(T[1].n, T[1].r, rs, w2) /\ (T[1].r \notin rs => w2 = w)
  BY <1>2, Constantes DEF Previsto
<1> HIDE DEF w2
<1>3. CASE d > 0
  <2>1. Salda(<<>>, U, T[1].n, T[1].r, rs, z, v, w2)
    BY <1>1, <1>2, <1>3, <1>a, LeeDelante
  <2> QED BY <2>1 DEF w2
<1>4. CASE d = 0
  <2>1. T[1].r \notin rs /\ Delante(U, rs, 0)
    BY <1>1, <1>4, Sana
  <2>2. T[1].n # 0
    BY <2>1, Constantes, SMTT(40) DEF Enteras
  <2>3. Deuda(<<>>, U, T[1].n, T[1].r, rs, 0, w2) = 0
    BY <2>1, <2>2 DEF Deuda
  <2>4. z = s
    BY DEF Cuentan
  <2> DEFINE D == Deuda(B, T, 0, c, rs, 0, w)
  <2>5. D \in Nat /\ LargoPedido * s + D <= Cuota(v, w)
    BY <1>1, <1>2, <1>4, Techo
  <2> HIDE DEF D
  <2>w. Cuota(v, w) = Cabida(w) + FIFO + 6 + 4 * v /\ Cabida(w) \in Nat
    BY CuotaEs
  <2>6. LargoPedido * s <= Cuota(v, w)
    BY <2>5, <2>w, Constantes
  <2>7. LargoPedido * z + Deuda(<<>>, U, T[1].n, T[1].r, rs, 0, w2) <= Cuota(v, w2)
    BY <1>a, <2>1, <2>3, <2>4, <2>6, Constantes
  <2>8. Salda(<<>>, U, T[1].n, T[1].r, rs, z, v, w2)
    BY <1>a, <2>1, <2>7 DEF Salda
  <2> QED BY <2>8 DEF w2
<1> QED BY <1>3, <1>4

(* A piece of the payload, and not its last one.                           *)
LEMMA LeePayload ==
  ASSUME NEW T \in Seq(Piezas), NEW U \in Seq(Piezas), 1 \in 1 .. Len(T), Quita(T, U, 1),
         NEW rs, Bloques(T, rs), NEW s \in Nat, NEW z \in Nat, Cuentan(s, z, T[1], rs),
         NEW B, NEW need \in 2 .. LargoMax, NEW c, NEW n, NEW u, EnCuerpo(T, B, need, c, n, u, rs),
         NEW v \in Nat, NEW w \in Nat, Salda(B, T, need, c, rs, s, v, w),
         NEW B2 \in Seq(Piezas), Len(B2) <= REQBUF
  PROVE  Salda(B2, U, need - 1, c, rs, z, v, w)
<1>1. PICK d \in Nat :
        Delante(T, rs, d) /\ LargoPedido * s + Deuda(B, T, need, c, rs, d, w) <= Cuota(v, w)
  BY DEF Salda
<1>a. Previsto(need, c, rs, w) /\ need \in Nat /\ need > 1
  BY Constantes DEF Salda
<1>2. /\ need - 1 \in 0 .. LargoMax /\ need - 1 # 0 /\ v <= v
      /\ Previsto(need - 1, c, rs, w)
  BY <1>a, Constantes DEF Previsto
<1>3. CASE d > 0
  BY <1>1, <1>2, <1>3, LeeDelante
<1>4. CASE d = 0
  <2> DEFINE a == Avance(T, rs)  b == Avance(U, rs)
             D == Deuda(B, T, need, c, rs, 0, w)  G == Deuda(B2, U, need - 1, c, rs, 0, w)
  <2>1. Delante(U, rs, 0) /\ LargoPedido * s + D <= Cuota(v, w)
    BY <1>1, <1>4, Sana
  <2>2. /\ D = IF c \in rs THEN a + need + LargoPedido - 1 ELSE 0
        /\ G = IF c \in rs THEN b + (need - 1) + LargoPedido - 1 ELSE 0
    BY <1>2, <1>a DEF Deuda
  <2>3. c \notin rs => z = s
    BY <1>a DEF EnCuerpo, Get, Cuentan
  <2>4. LargoPedido * z + b <= LargoPedido * s + a + 1 /\ a \in 0 .. 3 /\ b \in 0 .. 3
    BY Paga, AvanceTipo
  <2> HIDE DEF a, b, D, G
  <2>w. Cuota(v, w) = Cabida(w) + FIFO + 6 + 4 * v /\ Cabida(w) \in Nat
    BY CuotaEs
  <2>5. LargoPedido * z + G <= Cuota(v, w)
    BY <1>a, <2>1, <2>2, <2>3, <2>4, <2>w, Constantes
  <2> QED BY <1>2, <2>1, <2>5 DEF Salda, G
<1> QED BY <1>3, <1>4

(* The last piece of the payload; if it is that of a whole request, the    *)
(* request is not counted.                                                 *)
LEMMA LeeUltima ==
  ASSUME NEW T \in Seq(Piezas), NEW U \in Seq(Piezas), 1 \in 1 .. Len(T), Quita(T, U, 1),
         NEW rs, Bloques(T, rs), NEW s \in Nat, NEW z \in Nat, Cuentan(s, z, T[1], rs),
         NEW B, NEW c, c \notin rs => z = s,
         NEW n, NEW u, EnCuerpo(T, B, 1, c, n, u, rs),
         NEW v \in Nat, NEW w \in Nat, Salda(B, T, 1, c, rs, s, v, w), NEW c2
  PROVE  Salda(<<>>, U, 0, c2, rs, z, v, w)
<1>1. PICK d \in Nat :
        Delante(T, rs, d) /\ LargoPedido * s + Deuda(B, T, 1, c, rs, d, w) <= Cuota(v, w)
  BY DEF Salda
<1>2. /\ <<>> \in Seq(Piezas) /\ Len(<<>>) <= REQBUF /\ SinIpd(<<>>)
      /\ 0 \in 0 .. LargoMax /\ v <= v /\ Previsto(0, c2, rs, w)
  BY Constantes, NadaPrevisto DEF SinIpd
<1>3. CASE d > 0
  BY <1>1, <1>2, <1>3, LeeDelante
<1>4. CASE d = 0
  <2> DEFINE a == Avance(T, rs)  b == Avance(U, rs)
             D == Deuda(B, T, 1, c, rs, 0, w)  G == Deuda(<<>>, U, 0, c2, rs, 0, w)
  <2>1. Delante(U, rs, 0) /\ LargoPedido * s + D <= Cuota(v, w)
    BY <1>1, <1>4, Sana
  <2>2. /\ D = IF c \in rs THEN a + 1 + LargoPedido - 1 ELSE 0
        /\ G = IF b = 0 THEN 0 ELSE LargoPedido
    BY <1>2 DEF Deuda
  <2>3. /\ z = s \/ (z = s + 1 /\ a = 3 /\ b = 0)
        /\ a \in 0 .. 3 /\ b \in 0 .. 3
    BY Paga, AvanceTipo
  <2>4. c \notin rs => b = 0
    BY Paga DEF EnCuerpo, Fin
  <2> HIDE DEF a, b, D, G
  <2>w. Cuota(v, w) = Cabida(w) + FIFO + 6 + 4 * v /\ Cabida(w) \in Nat
    BY CuotaEs
  <2>5. LargoPedido * z + G <= Cuota(v, w)
    BY <2>1, <2>2, <2>3, <2>4, <2>w, Constantes
  <2> QED BY <1>2, <2>1, <2>5 DEF Salda, G
<1> QED BY <1>3, <1>4

-----------------------------------------------------------------------------
(* The actions                                                             *)

(* A piece of no request is written. *)
LEMMA AgregaCuentas ==
  ASSUME NEW T \in Seq(Piezas), NEW U \in Seq(Piezas), NEW x \in {Txt, Ok, Prompt},
         Len(U) = Len(T) + 1, U[Len(T) + 1] = x, \A i \in 1 .. Len(T) : U[i] = T[i],
         NEW f \in Nat, NEW n \in Nat, NEW rs,
         NEW B \in Seq(Piezas), Len(B) <= REQBUF, NEW need \in 0 .. LargoMax, NEW c,
         NEW s, NEW v, NEW w, Cuentas(T, f, n, B, need, c, rs, s, v, w)
  PROVE  Cuentas(U, f, n, B, need, c, rs, s, v, w)
<1>1. /\ s \in Nat /\ v \in Nat /\ w \in Nat /\ rs \subseteq 1 .. n
      /\ Estructura(T, f, rs) /\ Salda(B, T, need, c, rs, s, v, w)
  BY DEF Cuentas
<1>2. \A d \in Nat : Delante(T, rs, d) => Delante(U, rs, d)
  BY <1>1, AgregaEstructura
<1>3. Estructura(U, f, rs)
  <2>1. PICK d : d = f + LargoPedido - 1
    OBVIOUS
  <2>2. Delante(T, rs, d)
    BY <1>1, <2>1 DEF Estructura
  <2> QED BY <1>1, <2>2, AgregaEstructura
<1>4. CASE T = <<>>
  <2>1. U[1] = x /\ Lugar(x) = 0
    BY <1>4 DEF Txt, Ok, Prompt, Lugar
  <2>2. Avance(U, rs) = 0
    BY <2>1 DEF Avance
  <2> QED BY <1>1, <1>2, <1>3, <1>4, <2>2, SaldaSuelta DEF Cuentas
<1>5. CASE T # <<>>
  <2>1. U # <<>> /\ U[1] = T[1]
    BY <1>5
  <2> QED BY <1>1, <1>2, <1>3, <1>5, <2>1, SaldaIgual DEF Cuentas
<1> QED BY <1>4, <1>5

LEMMA PideCuentas ==
  ASSUME NEW T \in Seq(Piezas), NEW U \in Seq(Piezas), NEW n \in Nat,
         Len(U) = Len(T) + 5, \A i \in 1 .. Len(T) : U[i] = T[i],
         U[Len(T) + 1] = Txt, U[Len(T) + 2] = Ipd(n + 1), U[Len(T) + 3] = Len_(n + 1, LargoCuerpo),
         U[Len(T) + 4] = Get(n + 1), U[Len(T) + 5] = Fin(n + 1),
         \A i \in 1 .. Len(T) : T[i].r <= n, NEW f \in Nat, NEW rs,
         NEW B \in Seq(Piezas), Len(B) <= REQBUF, NEW need \in 0 .. LargoMax, NEW c,
         NEW s, NEW v, NEW w, Cuentas(T, f, n, B, need, c, rs, s, v, w)
  PROVE  Cuentas(U, f, n + 1, B, need, c, rs, s, v, w)
<1>1. /\ s \in Nat /\ v \in Nat /\ w \in Nat /\ rs \subseteq 1 .. n
      /\ Estructura(T, f, rs) /\ Salda(B, T, need, c, rs, s, v, w)
  BY DEF Cuentas
<1>2. \A d \in Nat : Delante(T, rs, d) => Delante(U, rs, d)
  BY <1>1, PideEstructura
<1>3. Estructura(U, f, rs)
  <2>1. PICK d : d = f + LargoPedido - 1
    OBVIOUS
  <2>2. Delante(T, rs, d)
    BY <1>1, <2>1 DEF Estructura
  <2> QED BY <1>1, <2>2, PideEstructura
<1>a. rs \subseteq 1 .. n + 1
  BY <1>1
<1>4. CASE T = <<>>
  <2>1. U[1] = Txt
    BY <1>4
  <2>2. Avance(U, rs) = 0
    BY <2>1 DEF Avance, Txt, Lugar
  <2> QED BY <1>1, <1>2, <1>3, <1>4, <1>a, <2>2, SaldaSuelta DEF Cuentas
<1>5. CASE T # <<>>
  <2>1. U # <<>> /\ U[1] = T[1]
    BY <1>5
  <2> QED BY <1>1, <1>2, <1>3, <1>5, <1>a, <2>1, SaldaIgual DEF Cuentas
<1> QED BY <1>4, <1>5

(* Reading the first piece keeps the structure of the rest.                *)
LEMMA LeeEstructura ==
  ASSUME NEW T \in Seq(Piezas), NEW U \in Seq(Piezas), 1 \in 1 .. Len(T), Quita(T, U, 1),
         NEW f \in Nat, f > 0, NEW rs, Estructura(T, f, rs)
  PROVE  Estructura(U, f - 1, rs)
<1>1. Bloques(U, rs) /\ Cerca(U)
  BY QuitaBloques, QuitaCerca DEF Estructura
<1>2. Delante(U, rs, (f + LargoPedido - 1) - 1)
  <2>1. f + LargoPedido - 1 \in Nat
    BY Constantes
  <2> QED BY <2>1, QuitaDelante DEF Estructura
<1>3. (f + LargoPedido - 1) - 1 = (f - 1) + LargoPedido - 1
  BY Constantes
<1> QED BY <1>1, <1>2, <1>3 DEF Estructura

(* A piece of no request is taken, the first or a later one.               *)
LEMMA SueltaCuentas ==
  ASSUME NEW T \in Seq(Piezas), NEW U \in Seq(Piezas), NEW k \in 1 .. Len(T), Quita(T, U, k),
         T[k].r = 0, NEW f \in Nat, f > 0, NEW g, g = (IF k = 1 THEN f - 1 ELSE f), NEW n \in Nat, NEW rs,
         NEW B \in Seq(Piezas), Len(B) <= REQBUF, NEW need \in 0 .. LargoMax, NEW c,
         NEW s, NEW v, NEW w, Cuentas(T, f, n, B, need, c, rs, s, v, w)
  PROVE  Cuentas(U, g, n, B, need, c, rs, s, v, w)
<1>1. /\ s \in Nat /\ v \in Nat /\ w \in Nat /\ rs \subseteq 1 .. n
      /\ Estructura(T, f, rs) /\ Salda(B, T, need, c, rs, s, v, w)
  BY DEF Cuentas
<1>2. \A d \in Nat : Delante(T, rs, d) => Delante(U, rs, d)
  BY QuitaDelante
<1>3. CASE k = 1
  <2>1. Estructura(U, f - 1, rs)
    BY <1>1, <1>3, LeeEstructura
  <2>2. T[1].t \in {"txt", "ok", "prompt"}
    BY <1>1, <1>3 DEF Estructura, Bloques
  <2>3. Avance(U, rs) = 0
    <3>1. Bloques(T, rs) /\ Cuentan(s, s, T[1], rs)
      BY <1>1 DEF Estructura, Cuentan
    <3>2. Quita(T, U, 1) /\ 1 \in 1 .. Len(T) /\ T[1].r = 0
      BY <1>3
    <3>3. Avance(U, rs) # 0 => T[1].r # 0
      BY <1>1, <3>1, <3>2, Paga
    <3> QED BY <3>2, <3>3
  <2> QED BY <1>1, <1>2, <1>3, <2>1, <2>2, <2>3, SaldaSuelta DEF Cuentas
<1>4. CASE k # 1
  <2>1. T # <<>> /\ U # <<>> /\ U[1] = T[1]
    <3>1. 1 \in 1 .. Len(U) /\ 1 < k
      BY <1>4 DEF Quita
    <3> QED BY <3>1 DEF Quita
  <2>2. Estructura(U, f, rs)
    <3>1. Bloques(U, rs) /\ Cerca(U)
      BY <1>1, QuitaBloques, QuitaCerca DEF Estructura
    <3>2. f + LargoPedido - 1 \in Nat
      BY Constantes
    <3> QED BY <1>1, <1>2, <3>1, <3>2 DEF Estructura
  <2> QED BY <1>1, <1>2, <1>4, <2>1, <2>2, SaldaIgual DEF Cuentas
<1> QED BY <1>3, <1>4

(* A piece of a request is taken from the FIFO, or lost behind it.         *)
LEMMA PierdeCuentas ==
  ASSUME NEW T \in Seq(Piezas), NEW U \in Seq(Piezas), NEW k \in 1 .. Len(T), Quita(T, U, k),
         NEW n \in Nat, T[k].r # 0, T[k].r <= n,
         NEW f \in Nat, f > 0, f <= FIFO, k = 1 \/ k = f + 1,
         NEW rs, NEW B, NEW need \in Nat, NEW c, NEW s, NEW v, NEW w,
         Cuentas(T, f, n, B, need, c, rs, s, v, w)
  PROVE  Cuentas(U, IF k = 1 THEN f - 1 ELSE f, n, B, need, c, rs \cup {T[k].r}, 0, 0, need)
<1> DEFINE g == IF k = 1 THEN f - 1 ELSE f  qs == rs \cup {T[k].r}
<1>1. rs \subseteq 1 .. n /\ Bloques(T, rs) /\ Cerca(T) /\ Delante(T, rs, f + LargoPedido - 1)
  BY DEF Cuentas, Estructura
<1>2. qs \subseteq 1 .. n
  <2>1. T[k].r \in Nat
    BY Numeros
  <2> QED BY <1>1, <2>1
<1>3. Bloques(U, qs) /\ Cerca(U)
  BY <1>1, QuitaBloques, QuitaCerca
<1>4. k <= f + 1
  OBVIOUS
<1>5. Delante(T, qs, f + LargoPedido) /\ (k = 1 => Delante(T, qs, f + LargoPedido - 1))
  BY <1>1, <1>4, RompeDelante
<1>6. Delante(U, qs, g + LargoPedido - 1)
  <2>1. CASE k = 1
    <3>1. f + LargoPedido - 1 \in Nat /\ (f + LargoPedido - 1) - 1 = g + LargoPedido - 1
      BY <2>1, Constantes
    <3> QED BY <1>5, <2>1, <3>1, QuitaDelante
  <2>2. CASE k # 1
    <3>1. k = f + 1 /\ g = f
      BY <2>2
    <3> SUFFICES ASSUME NEW i \in 1 .. Len(U), U[i].r \in qs PROVE i <= f + LargoPedido - 1
      BY <3>1 DEF Delante
    <3>2. CASE i < k
      BY <3>1, <3>2, Constantes
    <3>3. CASE ~(i < k)
      <4>1. U[i] = T[i + 1] /\ i + 1 \in 1 .. Len(T)
        BY <3>3 DEF Quita
      <4>2. i + 1 <= f + LargoPedido
        BY <1>5, <4>1 DEF Delante
      <4> QED BY <4>2, Constantes
    <3> QED BY <3>2, <3>3
  <2> QED BY <2>1, <2>2
<1>7. g \in Nat /\ g <= FIFO
  BY Constantes
<1>8. Salda(B, U, need, c, qs, 0, 0, need)
  BY <1>6, <1>7, SaldaTrasPerdida
<1> QED BY <1>2, <1>3, <1>6, <1>8 DEF Cuentas, Estructura

(* A length with a hole goes into the FIFO. *)
LEMMA MutilaCuentas ==
  ASSUME NEW T \in Seq(Piezas), NEW U \in Seq(Piezas), NEW k \in 1 .. Len(T), Len(U) = Len(T),
         \A i \in 1 .. Len(T) : U[i].t = T[i].t /\ U[i].r = T[i].r,
         NEW n \in Nat, T[k].r # 0, T[k].r <= n, NEW f \in Nat, f + 1 <= FIFO, k = f + 1,
         NEW rs, NEW qs, qs = rs \cup {T[k].r},
         NEW B, NEW need \in Nat, NEW c, NEW s, NEW v, NEW w,
         Cuentas(T, f, n, B, need, c, rs, s, v, w)
  PROVE  Cuentas(U, f + 1, n, B, need, c, qs, 0, 0, need)
<1>1. rs \subseteq 1 .. n /\ Bloques(T, rs) /\ Cerca(T) /\ Delante(T, rs, f + LargoPedido - 1)
  BY DEF Cuentas, Estructura
<1>2. qs \subseteq 1 .. n
  <2>1. T[k].r \in Nat
    BY Numeros
  <2> QED BY <1>1, <2>1
<1>3. Bloques(U, qs)
  <2>1. rs \subseteq qs
    OBVIOUS
  <2> QED BY <1>1, <2>1, MutilaBloques
<1>4. Cerca(U)
  BY <1>1 DEF Cerca
<1>5. Delante(U, qs, (f + 1) + LargoPedido - 1)
  <2>1. Delante(T, qs, f + LargoPedido)
    BY <1>1, RompeDelante
  <2>2. f + LargoPedido = (f + 1) + LargoPedido - 1
    BY Constantes
  <2> QED BY <2>1, <2>2 DEF Delante
<1>6. Salda(B, U, need, c, qs, 0, 0, need)
  BY <1>5, SaldaTrasPerdida
<1> QED BY <1>2, <1>3, <1>4, <1>5, <1>6 DEF Cuentas, Estructura

(* The types of what the lemmas above speak of.                            *)
LEMMA TiposRecupera ==
  ASSUME EspInv
  PROVE  /\ fifo \in Seq(Piezas) /\ aire \in Seq(Piezas) /\ Cola \in Seq(Piezas)
         /\ reqBuf \in Seq(Piezas) /\ Len(reqBuf) <= REQBUF
         /\ curNeed \in 0 .. LargoMax /\ curNeed \in Nat
         /\ Len(fifo) \in Nat /\ Len(fifo) <= FIFO /\ Len(pedidos) \in Nat
         /\ \A i \in 1 .. Len(Cola) : Cola[i].r <= Len(pedidos)
<1>1. /\ reqBuf \in Seq(Piezas) /\ Len(reqBuf) <= REQBUF /\ curNeed \in 0 .. LargoMax
      /\ fifo \in Seq(Piezas) /\ Len(fifo) <= FIFO
  BY DEF EspInv, TypeOK, TypeAsm, TypeUart
<1>2. \A i \in 1 .. Len(Cola) : Cola[i].r <= Len(pedidos)
  BY DEF EspInv, ColaInv, EnCola, Piezas_
<1> QED BY <1>1, <1>2, Dominios, Constantes

(* Nothing of the queue, the assembler or the history changes; perhaps a   *)
(* piece of no request is written.                                         *)
LEMMA RecuperaIgual ==
  ASSUME EspInv, RecuperaInv,
         UNCHANGED <<fifo, asm, pedidos, rotos, sinServir, vaciados, anunciado>>,
         aire' = aire \/ \E x \in {Txt, Ok, Prompt} : aire' = Append(aire, x)
  PROVE  RecuperaInv'
<1>1. CASE aire' = aire
  BY <1>1 DEF RecuperaInv, Cola, asm
<1>2. CASE \E x \in {Txt, Ok, Prompt} : aire' = Append(aire, x)
  <2>1. PICK x \in {Txt, Ok, Prompt} : aire' = Append(aire, x)
    BY <1>2
  <2>2. /\ Cola' \in Seq(Piezas) /\ Len(Cola') = Len(Cola) + 1 /\ Cola'[Len(Cola) + 1] = x
        /\ \A i \in 1 .. Len(Cola) : Cola'[i] = Cola[i]
    BY <2>1, Dominios, Sueltas, EscribeUna DEF Cola
  <2>3. Cuentas(Cola', Len(fifo), Len(pedidos), reqBuf, curNeed, curConn, rotos, sinServir,
                vaciados, anunciado)
    BY <2>2, TiposRecupera, AgregaCuentas DEF RecuperaInv
  <2> QED BY <2>3 DEF RecuperaInv, asm
<1> QED BY <1>1, <1>2

(* A piece is read away, and perhaps another one written.                  *)
LEMMA RecuperaConsume ==
  ASSUME EspInv, RecuperaInv, Consume, UNCHANGED <<asm, pedidos>>,
         aire' = aire \/ \E x \in {Txt, Ok, Prompt} : aire' = Append(aire, x)
  PROVE  RecuperaInv'
<1> DEFINE M == Tail(fifo) \o aire  g == Len(fifo) - 1  n == Len(pedidos)
<1>1. fifo # <<>> /\ fifo' = Tail(fifo) /\ Rompe(Head(fifo).r)
  BY DEF Consume
<1>2. /\ fifo' \in Seq(Piezas) /\ Len(fifo') = g /\ M \in Seq(Piezas)
      /\ 1 \in 1 .. Len(Cola) /\ Cola[1] = Head(fifo) /\ Quita(Cola, M, 1)
  BY <1>1, Dominios, LeeUna DEF Cola
<1>3. Len(fifo) > 0 /\ g \in Nat /\ Len(fifo) \in Nat /\ Len(fifo) <= FIFO
  BY <1>1, <1>2, TiposRecupera
<1> HIDE DEF M
<1>4. Cuentas(M, g, n, reqBuf, curNeed, curConn, rotos', sinServir', vaciados', anunciado')
  <2>1. CASE Cola[1].r = 0
    <3>1. UNCHANGED <<rotos, sinServir, vaciados, anunciado>>
      BY <1>1, <1>2, <2>1 DEF Rompe
    <3>2. Cuentas(M, g, n, reqBuf, curNeed, curConn, rotos, sinServir, vaciados, anunciado)
      BY <1>2, <1>3, <2>1, TiposRecupera, SueltaCuentas DEF RecuperaInv
    <3> QED BY <3>1, <3>2
  <2>2. CASE Cola[1].r # 0
    <3>1. rotos' = rotos \cup {Cola[1].r} /\ sinServir' = 0 /\ vaciados' = 0 /\ anunciado' = curNeed
      BY <1>1, <1>2, <2>2 DEF Rompe
    <3>2. /\ Cola[1].r <= n /\ n \in Nat /\ curNeed \in Nat /\ Cola \in Seq(Piezas)
          /\ Cuentas(Cola, Len(fifo), n, reqBuf, curNeed, curConn, rotos, sinServir,
                     vaciados, anunciado)
      BY <1>2, TiposRecupera DEF RecuperaInv
    <3> HIDE DEF n
    <3>3. Cuentas(M, IF 1 = 1 THEN Len(fifo) - 1 ELSE Len(fifo), n, reqBuf, curNeed, curConn,
                  rotos \cup {Cola[1].r}, 0, 0, curNeed)
      BY <1>2, <1>3, <2>2, <3>2, PierdeCuentas
    <3>4. Cuentas(M, g, n, reqBuf, curNeed, curConn, rotos', 0, 0, curNeed)
      BY <3>1, <3>3
    <3> QED BY <3>1, <3>4
  <2> QED BY <2>1, <2>2
<1>5. CASE aire' = aire
  BY <1>1, <1>2, <1>4, <1>5 DEF RecuperaInv, Cola, M, asm
<1>6. CASE \E x \in {Txt, Ok, Prompt} : aire' = Append(aire, x)
  <2>1. PICK x \in {Txt, Ok, Prompt} : aire' = Append(aire, x)
    BY <1>6
  <2>2. /\ Cola' \in Seq(Piezas) /\ Len(Cola') = Len(M) + 1 /\ Cola'[Len(M) + 1] = x
        /\ \A i \in 1 .. Len(M) : Cola'[i] = M[i]
    BY <1>1, <1>2, <2>1, Dominios, Sueltas, EscribeUna DEF Cola, M
  <2>3. Cuentas(Cola', g, n, reqBuf, curNeed, curConn, rotos', sinServir', vaciados', anunciado')
    BY <1>2, <1>3, <1>4, <2>2, TiposRecupera, AgregaCuentas
  <2> QED BY <1>2, <2>3 DEF RecuperaInv, asm
<1> QED BY <1>5, <1>6

LEMMA RecuperaPedir ==
  ASSUME EspInv, RecuperaInv, Pedir
  PROVE  RecuperaInv'
<1> DEFINE n == Len(pedidos)  r == n + 1
<1>1. PICK c \in Comandos : pedidos' = Append(pedidos, c)
  BY DEF Pedir
<1>2. /\ n < MaxPedidos /\ n \in Nat /\ pedidos \in Seq(Comandos)
  BY DEF Pedir, EspInv, TypeOK, TypeUart
<1>3. Len(pedidos') = r /\ r \in 1 .. MaxPedidos
  BY <1>1, <1>2, EspAssumption
<1>4. /\ aire' = aire \o Peticion(r)
      /\ UNCHANGED <<fifo, asm, rotos, sinServir, vaciados, anunciado>>
  BY <1>3 DEF Pedir, historia
<1> HIDE DEF r
<1>5. /\ Cola' \in Seq(Piezas) /\ Len(Cola') = Len(Cola) + 5
      /\ \A i \in 1 .. Len(Cola) : Cola'[i] = Cola[i]
      /\ \A i \in 1 .. 5 : Cola'[Len(Cola) + i] = Peticion(r)[i]
  <2>1. fifo \in Seq(Piezas) /\ aire \in Seq(Piezas)
    BY Dominios
  <2> DEFINE b == aire \o Peticion(r)
  <2>2. /\ fifo \o b \in Seq(Piezas) /\ Len(fifo \o b) = Len(fifo \o aire) + 5
        /\ \A i \in 1 .. Len(fifo \o aire) : (fifo \o b)[i] = (fifo \o aire)[i]
        /\ \A i \in 1 .. 5 : (fifo \o b)[Len(fifo \o aire) + i] = Peticion(r)[i]
    BY <1>3, <2>1, EscribePeticion
  <2>3. Cola' = fifo \o b /\ Cola = fifo \o aire
    BY <1>4 DEF Cola
  <2> HIDE DEF b
  <2> QED BY <2>2, <2>3
<1>6. /\ Cola'[Len(Cola) + 1] = Txt /\ Cola'[Len(Cola) + 2] = Ipd(r)
      /\ Cola'[Len(Cola) + 3] = Len_(r, LargoCuerpo)
      /\ Cola'[Len(Cola) + 4] = Get(r) /\ Cola'[Len(Cola) + 5] = Fin(r)
  BY <1>5 DEF Peticion
<1>7. Cuentas(Cola', Len(fifo), r, reqBuf, curNeed, curConn, rotos, sinServir, vaciados, anunciado)
  BY <1>2, <1>5, <1>6, TiposRecupera, PideCuentas DEF RecuperaInv, r
<1> QED BY <1>3, <1>4, <1>7 DEF RecuperaInv, asm

LEMMA RecuperaLlega ==
  ASSUME EspInv, RecuperaInv, Llega
  PROVE  RecuperaInv'
<1>1. /\ aire # <<>> /\ fifo' = Append(fifo, Head(aire)) /\ aire' = Tail(aire)
      /\ UNCHANGED <<asm, pedidos, rotos, sinServir, vaciados, anunciado>>
  BY DEF Llega, historia
<1>2. Cola' = Cola
  BY <1>1, Dominios, PasaUna DEF Cola
<1>3. Len(fifo') = Len(fifo) + 1 /\ Len(fifo) \in Nat
  BY <1>1, Dominios
<1>4. Estructura(Cola, Len(fifo) + 1, rotos)
  <2>1. Estructura(Cola, Len(fifo), rotos)
    BY DEF RecuperaInv, Cuentas
  <2> QED BY <1>3, <2>1, Constantes DEF Estructura, Delante
<1> QED BY <1>1, <1>2, <1>3, <1>4 DEF RecuperaInv, Cuentas, asm

LEMMA RecuperaDesborda ==
  ASSUME EspInv, RecuperaInv, Desborda
  PROVE  RecuperaInv'
<1> DEFINE k == Len(fifo) + 1
<1>1. /\ aire # <<>> /\ aire' = Tail(aire) /\ Rompe(Head(aire).r) /\ Len(fifo) = FIFO
      /\ UNCHANGED <<asm, fifo, pedidos>>
  BY DEF Desborda, Pierde
<1>2. /\ k \in 1 .. Len(Cola) /\ Cola[k] = Head(aire) /\ Cola' \in Seq(Piezas) /\ Quita(Cola, Cola', k)
  BY <1>1, Dominios, PasaUna, PierdeUna DEF Cola
<1>3. Len(fifo) > 0 /\ Len(fifo) \in Nat /\ k # 1 /\ k = Len(fifo) + 1
  BY <1>1, EspAssumption
<1> HIDE DEF k
<1>4. CASE Cola[k].r = 0
  <2>1. UNCHANGED <<rotos, sinServir, vaciados, anunciado>>
    BY <1>1, <1>2, <1>4 DEF Rompe
  <2>2. Cuentas(Cola', Len(fifo), Len(pedidos), reqBuf, curNeed, curConn, rotos, sinServir,
                vaciados, anunciado)
    BY <1>2, <1>3, <1>4, TiposRecupera, SueltaCuentas DEF RecuperaInv
  <2> QED BY <1>1, <2>1, <2>2 DEF RecuperaInv, asm
<1>5. CASE Cola[k].r # 0
  <2>1. rotos' = rotos \cup {Cola[k].r} /\ sinServir' = 0 /\ vaciados' = 0 /\ anunciado' = curNeed
    BY <1>1, <1>2, <1>5 DEF Rompe
  <2>2. /\ Cola[k].r <= Len(pedidos) /\ Len(pedidos) \in Nat /\ Cola \in Seq(Piezas)
        /\ Len(fifo) <= FIFO /\ curNeed \in Nat
        /\ Cuentas(Cola, Len(fifo), Len(pedidos), reqBuf, curNeed, curConn, rotos, sinServir,
                   vaciados, anunciado)
    BY <1>2, TiposRecupera DEF RecuperaInv
  <2>3. Cuentas(Cola', Len(fifo), Len(pedidos), reqBuf, curNeed, curConn, rotos', 0, 0, curNeed)
    BY <1>2, <1>3, <1>5, <2>1, <2>2, PierdeCuentas
  <2> QED BY <1>1, <2>1, <2>3 DEF RecuperaInv, asm
<1> QED BY <1>4, <1>5

LEMMA RecuperaMutila ==
  ASSUME EspInv, RecuperaInv, Mutila
  PROVE  RecuperaInv'
<1> DEFINE k == Len(fifo) + 1
<1>1. PICK m \in Mutilados : fifo' = Append(fifo, Len_(Head(aire).r, m))
  BY DEF Mutila
<1>2. /\ aire # <<>> /\ Len(fifo) = FIFO - 1 /\ aire' = Tail(aire) /\ Head(aire).t = "len"
      /\ Rompe(Head(aire).r) /\ UNCHANGED <<asm, pedidos>>
  BY DEF Mutila, Pierde
<1> DEFINE x == Len_(Head(aire).r, m)
<1>3. k \in 1 .. Len(Cola) /\ Cola[k] = Head(aire) /\ Head(aire) \in Piezas
  BY <1>2, Dominios, PasaUna DEF Cola
<1>4. x \in Piezas
  BY <1>3, EspAssumption DEF Piezas, Len_
<1>5. Cola[k].r # 0
  BY <1>2, <1>3 DEF RecuperaInv, Cuentas, Estructura, Bloques
<1>6. /\ Cola' \in Seq(Piezas) /\ Len(Cola') = Len(Cola) /\ Cola'[k] = x
      /\ \A i \in 1 .. Len(Cola) : i # k => Cola'[i] = Cola[i]
  BY <1>1, <1>2, <1>4, Dominios, CortaUna, SMTT(60) DEF Cola
<1>7. \A i \in 1 .. Len(Cola) : Cola'[i].t = Cola[i].t /\ Cola'[i].r = Cola[i].r
  BY <1>2, <1>3, <1>6 DEF Len_
<1>8. rotos' = rotos \cup {Cola[k].r} /\ sinServir' = 0 /\ vaciados' = 0 /\ anunciado' = curNeed
  BY <1>2, <1>3, <1>5 DEF Rompe
<1>9. Len(fifo') = Len(fifo) + 1 /\ Len(fifo) \in Nat /\ Len(fifo) + 1 <= FIFO /\ k = Len(fifo) + 1
  BY <1>1, <1>2, <1>4, Dominios, EspAssumption
<1> HIDE DEF k, x
<1>10. Cuentas(Cola', Len(fifo) + 1, Len(pedidos), reqBuf, curNeed, curConn, rotos', 0, 0, curNeed)
  BY <1>3, <1>5, <1>6, <1>7, <1>8, <1>9, TiposRecupera, MutilaCuentas DEF RecuperaInv
<1> QED BY <1>2, <1>8, <1>9, <1>10 DEF RecuperaInv, asm

(* A piece that is read by esp_poll.                                       *)
LEMMA LeePieza ==
  ASSUME EspInv, RecuperaInv, NEW p, NEW e, Lee(p), Cuenta(p, e), aire' = aire
  PROVE  /\ p \in Piezas /\ Cola' \in Seq(Piezas) /\ 1 \in 1 .. Len(Cola) /\ Cola[1] = p
         /\ Quita(Cola, Cola', 1) /\ Estructura(Cola', Len(fifo'), rotos)
         /\ Cuentan(sinServir, sinServir', p, rotos) /\ sinServir' \in Nat /\ rotos' = rotos
<1>1. /\ p \in Piezas /\ Cola' \in Seq(Piezas) /\ 1 \in 1 .. Len(Cola) /\ Cola[1] = p
      /\ Quita(Cola, Cola', 1)
  BY Leida DEF Cola
<1>2. Len(fifo') = Len(fifo) - 1 /\ Len(fifo) > 0 /\ Len(fifo) \in Nat
  <2>1. fifo # <<>> /\ fifo' = Tail(fifo) /\ fifo \in Seq(Piezas)
    BY TiposRecupera DEF Lee
  <2> QED BY <2>1
<1>3. Estructura(Cola', Len(fifo'), rotos)
  <2>1. Estructura(Cola, Len(fifo), rotos)
    BY DEF RecuperaInv, Cuentas
  <2>2. Cola \in Seq(Piezas)
    BY TiposRecupera
  <2>3. Estructura(Cola', Len(fifo) - 1, rotos)
    BY <1>1, <1>2, <2>1, <2>2, LeeEstructura
  <2> QED BY <1>2, <2>3
<1>4. /\ Cuentan(sinServir, sinServir', p, rotos) /\ sinServir' \in Nat /\ rotos' = rotos
  BY DEF Cuenta, Cuentan, RecuperaInv, Cuentas
<1> QED BY <1>1, <1>3, <1>4

LEMMA RecuperaCabecera ==
  ASSUME EspInv, RecuperaInv, NEW p, esp_poll_cabecera(p)
  PROVE  RecuperaInv'
<1>1. /\ Lee(p) /\ curNeed = 0 /\ Cuenta(p, ultimo) /\ aire' = aire /\ pedidos' = pedidos
      /\ vaciados' = IF Acumula(p) = <<>> THEN vaciados + 1 ELSE vaciados
  BY DEF esp_poll_cabecera
<1>2. /\ p \in Piezas /\ Cola' \in Seq(Piezas) /\ 1 \in 1 .. Len(Cola) /\ Cola[1] = p
      /\ Quita(Cola, Cola', 1) /\ Estructura(Cola', Len(fifo'), rotos)
      /\ Cuentan(sinServir, sinServir', p, rotos) /\ sinServir' \in Nat /\ rotos' = rotos
  BY <1>1, LeePieza
<1>3. /\ Bloques(Cola, rotos) /\ sinServir \in Nat /\ vaciados \in Nat /\ vaciados' \in Nat
      /\ Salda(reqBuf, Cola, 0, curConn, rotos, sinServir, vaciados, anunciado)
      /\ rotos \subseteq 1 .. Len(pedidos) /\ anunciado \in Nat
  BY <1>1 DEF RecuperaInv, Cuentas, Estructura
<1>4. /\ Cola \in Seq(Piezas) /\ reqBuf \in Seq(Piezas) /\ Len(reqBuf) <= REQBUF /\ Len(reqBuf) \in Nat
  BY TiposRecupera, Dominios
<1>5. /\ Salda(reqBuf', Cola', curNeed', curConn', rotos, sinServir', vaciados', anunciado')
      /\ anunciado' \in Nat
  <2>1. CASE /\ reqBuf' = Acumula(p) /\ UNCHANGED <<curConn, curNeed, anunciado>>
             /\ Cabeceras(reqBuf') = {}
    <3>1. CASE Len(reqBuf) < REQBUF
      <4>1. Acumula(p) = Append(reqBuf, Cola[1]) /\ vaciados' = vaciados
        <5>1. Acumula(p) = Append(reqBuf, p)
          BY <3>1 DEF Acumula
        <5>2. Append(reqBuf, p) # <<>>
          BY <1>2, <1>4
        <5> QED BY <1>1, <1>2, <5>1, <5>2
      <4>2. Salda(Append(reqBuf, Cola[1]), Cola', 0, curConn, rotos, sinServir', vaciados, anunciado)
        BY <1>2, <1>3, <1>4, <2>1, <3>1, <4>1, LeeSinCabecera
      <4> QED BY <1>1, <1>3, <2>1, <4>1, <4>2
    <3>2. CASE ~(Len(reqBuf) < REQBUF)
      <4>1. Acumula(p) = <<>> /\ vaciados' = vaciados + 1
        BY <1>1, <3>2 DEF Acumula
      <4>2. Salda(<<>>, Cola', 0, curConn, rotos, sinServir', vaciados + 1, anunciado)
        BY <1>2, <1>3, <1>4, LeeVacia
      <4> QED BY <1>1, <1>3, <2>1, <4>1, <4>2
    <3> QED BY <3>1, <3>2
  <2>2. CASE /\ Len(reqBuf) < REQBUF /\ p.t = "len"
             /\ reqBuf' = <<>> /\ curConn' = p.r /\ curNeed' = p.n
             /\ anunciado' = IF p.r \in rotos THEN p.n ELSE anunciado
    <3>1. vaciados' = vaciados
      <4>1. Acumula(p) = Append(reqBuf, p)
        BY <2>2 DEF Acumula
      <4>2. Append(reqBuf, p) # <<>>
        BY <1>2, <1>4
      <4> QED BY <1>1, <4>1, <4>2
    <3>2. Enteras(Cola, rotos)
      BY DEF EspInv, ColaInv, EnCola
    <3>3. Salda(<<>>, Cola', Cola[1].n, Cola[1].r, rotos, sinServir', vaciados,
                IF Cola[1].r \in rotos THEN Cola[1].n ELSE anunciado)
      BY <1>2, <1>3, <1>4, <2>2, <3>2, LeeCabecera
    <3>4. p.n \in Nat
      BY <1>2, Constantes DEF Piezas
    <3> QED BY <1>2, <1>3, <2>2, <3>1, <3>3, <3>4
  <2> QED BY <2>1, <2>2, Ensambla
<1> QED BY <1>1, <1>2, <1>3, <1>5 DEF RecuperaInv, Cuentas

LEMMA RecuperaCuerpo ==
  ASSUME EspInv, RecuperaInv, NEW p, esp_poll_cuerpo(p)
  PROVE  RecuperaInv'
<1>1. /\ Lee(p) /\ curNeed # 0 /\ aire' = aire /\ pedidos' = pedidos
      /\ vaciados' = vaciados /\ anunciado' = anunciado
      /\ Cuenta(p, ultimo) \/ Cuenta(p, ev')
  BY DEF esp_poll_cuerpo
<1>2. /\ p \in Piezas /\ Cola' \in Seq(Piezas) /\ 1 \in 1 .. Len(Cola) /\ Cola[1] = p
      /\ Quita(Cola, Cola', 1) /\ Estructura(Cola', Len(fifo'), rotos)
      /\ Cuentan(sinServir, sinServir', p, rotos) /\ sinServir' \in Nat /\ rotos' = rotos
  BY <1>1, LeePieza
<1>3. /\ Bloques(Cola, rotos) /\ sinServir \in Nat /\ vaciados \in Nat
      /\ Salda(reqBuf, Cola, curNeed, curConn, rotos, sinServir, vaciados, anunciado)
      /\ rotos \subseteq 1 .. Len(pedidos) /\ anunciado \in Nat
  BY DEF RecuperaInv, Cuentas, Estructura
<1>4. /\ Cola \in Seq(Piezas) /\ reqBuf \in Seq(Piezas) /\ Len(reqBuf) <= REQBUF
      /\ curNeed \in 0 .. LargoMax
  BY TiposRecupera
<1>5. EnCuerpo(Cola, reqBuf, curNeed, curConn, Len(pedidos), ultimo, rotos)
  BY <1>1 DEF EspInv, CuerpoInv
<1>6. curNeed = 1 \/ curNeed \in 2 .. LargoMax
  BY <1>1, <1>4, Constantes
<1>7. Salda(reqBuf', Cola', curNeed', curConn', rotos, sinServir', vaciados', anunciado')
  <2>1. CASE curNeed \in 2 .. LargoMax
    <3>1. reqBuf' = Guarda(p) /\ curNeed' = curNeed - 1 /\ curConn' = curConn
      BY <2>1, Constantes DEF esp_poll_cuerpo
    <3>2. Guarda(p) \in Seq(Piezas) /\ Len(Guarda(p)) <= REQBUF
      BY <1>2, <1>4, Constantes DEF Guarda
    <3>3. Salda(Guarda(p), Cola', curNeed - 1, curConn, rotos, sinServir', vaciados, anunciado)
      BY <1>2, <1>3, <1>4, <1>5, <2>1, <3>2, LeePayload
    <3> QED BY <1>1, <3>1, <3>3
  <2>2. CASE curNeed = 1
    <3>1. reqBuf' = <<>> /\ curNeed' = 0
      BY <2>2 DEF esp_poll_cuerpo
    <3>2. ASSUME curConn \notin rotos PROVE sinServir' = sinServir
      <4>1. reqBuf = <<Get(curConn)>> /\ p = Fin(curConn)
        BY <1>2, <1>5, <2>2, <3>2 DEF EnCuerpo
      <4>2. Gets(Guarda(p)) # {}
        <5>1. Guarda(p) = Append(reqBuf, p) /\ Len(reqBuf) = 1
          BY <4>1, Constantes DEF Guarda
        <5>2. Guarda(p)[1] = Get(curConn) /\ 1 \in 1 .. Len(Guarda(p))
          BY <4>1, <5>1
        <5>3. Guarda(p)[1].t = "get"
          BY <5>2 DEF Get
        <5> QED BY <5>2, <5>3 DEF Gets
      <4>3. pc' = "atiende" /\ pc = "poll" /\ Cuenta(p, ev')
        BY <2>2, <4>2 DEF esp_poll_cuerpo, Lee
      <4>4. ev'.r = curConn
        BY <3>2, <4>3, PasoCuerpo
      <4>5. p.r = ev'.r
        BY <4>1, <4>4 DEF Fin
      <4> QED BY <4>3, <4>5 DEF Cuenta
    <3>3. Salda(<<>>, Cola', 0, curConn', rotos, sinServir', vaciados, anunciado)
      BY <1>2, <1>3, <1>4, <1>5, <2>2, <3>2, LeeUltima
    <3> QED BY <1>1, <3>1, <3>3
  <2> QED BY <1>6, <2>1, <2>2
<1> QED BY <1>1, <1>2, <1>3, <1>7 DEF RecuperaInv, Cuentas

(* A command of esp_init_ap_server.                                        *)
LEMMA RecuperaManda ==
  ASSUME EspInv, RecuperaInv, NEW k, Manda(k), UNCHANGED <<fifo, historia>> \/ Consume
  PROVE  RecuperaInv'
<1>1. /\ UNCHANGED <<asm, pedidos>>
      /\ aire' = aire \/ \E x \in {Txt, Ok, Prompt} : aire' = Append(aire, x)
  BY DEF Manda
<1> QED BY <1>1, RecuperaIgual, RecuperaConsume DEF historia

LEMMA RecuperaPaso ==
  ASSUME EspInv, RecuperaInv, [Next]_vars
  PROVE  RecuperaInv'
<1>1. ASSUME Olvida PROVE RecuperaInv'
  BY <1>1, RecuperaConsume DEF Olvida
<1>2. CASE esp_init_ap_server
  <2>1. CASE esp_init_vacia
    BY <2>1, RecuperaConsume DEF esp_init_vacia
  <2>2. CASE esp_init_limpia
    BY <2>2, RecuperaManda DEF esp_init_limpia
  <2>3. CASE esp_init_ok
    BY <2>3, RecuperaManda DEF esp_init_ok, Encuentra
  <2>4. CASE esp_init_vence
    BY <2>4, RecuperaManda DEF esp_init_vence, Vence
  <2> QED BY <1>1, <1>2, <2>1, <2>2, <2>3, <2>4 DEF esp_init_ap_server
<1>3. CASE Modulo
  BY <1>3, RecuperaPedir, RecuperaLlega, RecuperaDesborda, RecuperaMutila DEF Modulo
<1>4. CASE esp_poll
  <2>1. CASE esp_poll_vacio
    BY <2>1, RecuperaIgual DEF esp_poll_vacio, linea, historia
  <2> QED BY <1>4, <2>1, RecuperaCabecera, RecuperaCuerpo DEF esp_poll
<1>5. CASE esp_handler
  <2>1. CASE esp_send_http_ok
    BY <2>1, RecuperaIgual DEF esp_send_http_ok, historia
  <2>2. CASE esp_send_cmd_prompt
    BY <2>2, RecuperaConsume DEF esp_send_cmd_prompt, Encuentra
  <2>3. CASE esp_send_cmd_vence
    BY <2>3, RecuperaIgual DEF esp_send_cmd_vence, Vence, historia
  <2>4. CASE esp_close_conn
    BY <2>4, RecuperaIgual DEF esp_close_conn, historia
  <2> QED BY <1>1, <1>5, <2>1, <2>2, <2>3, <2>4 DEF esp_handler
<1>6. CASE resto
  BY <1>6, RecuperaIgual DEF resto, linea, historia
<1>7. CASE UNCHANGED vars
  BY <1>7, RecuperaIgual DEF vars, linea, historia
<1> QED BY <1>2, <1>3, <1>4, <1>5, <1>6, <1>7 DEF Next

LEMMA RecuperaEmpieza ==
  ASSUME Init
  PROVE  RecuperaInv
<1>1. /\ Len(pedidos) = 0 /\ sinServir = 0 /\ vaciados = 0 /\ rotos = {} /\ aire = <<>>
      /\ anunciado = 0 /\ curNeed = 0 /\ fifo \in {<<>>, <<Ok>>}
  BY DEF Init
<1>2. EspInv
  BY EmpiezaInv
<1>3. \A i \in 1 .. Len(Cola) : Cola[i].t = "ok" /\ Cola[i].r = 0
  <2>1. CASE fifo = <<>>
    BY <1>1, <2>1 DEF Cola
  <2>2. CASE fifo = <<Ok>>
    <3>1. Len(fifo) = 1 /\ fifo[1] = Ok /\ Len(Cola) = 1 /\ Cola[1] = Ok
      BY <1>1, <2>2 DEF Cola
    <3> QED BY <3>1 DEF Ok
  <2> QED BY <1>1, <2>1, <2>2
<1>4. Bloques(Cola, rotos) /\ Cerca(Cola) /\ \A d : Delante(Cola, rotos, d)
  BY <1>1, <1>3 DEF Bloques, Cerca, Delante, Lugar
<1>5. Len(fifo) \in Nat /\ Len(fifo) <= FIFO
  BY <1>2, TiposRecupera
<1>6. Salda(reqBuf, Cola, curNeed, curConn, rotos, 0, 0, anunciado)
  BY <1>1, <1>4, <1>5, SaldaTrasPerdida
<1> QED BY <1>1, <1>4, <1>6 DEF RecuperaInv, Cuentas, Estructura

(* Since the last loss no more whole requests are missed than the FIFO and  *)
(* one buffer could hold, or what a broken header announced instead of the  *)
(* buffer, however much that is, and one for each time the full buffer is   *)
(* emptied (esp8266_at.c:85-90, 290-325).                                   *)
THEOREM Recupera == Spec => []RecuperaPronto
<1>1. Init => EspInv /\ RecuperaInv
  BY EmpiezaInv, RecuperaEmpieza
<1>2. EspInv /\ RecuperaInv /\ [Next]_vars => EspInv' /\ RecuperaInv'
  BY Inductiva, RecuperaPaso
<1>3. EspInv /\ RecuperaInv => RecuperaPronto
  <2> SUFFICES ASSUME EspInv, RecuperaInv PROVE RecuperaPronto
    OBVIOUS
  <2>1. /\ sinServir \in Nat /\ vaciados \in Nat /\ anunciado \in Nat
        /\ Previsto(curNeed, curConn, rotos, anunciado)
    BY DEF RecuperaInv, Cuentas, Salda
  <2>2. PICK d \in Nat : LargoPedido * sinServir
                           + Deuda(reqBuf, Cola, curNeed, curConn, rotos, d, anunciado)
                             <= Cuota(vaciados, anunciado)
    BY DEF RecuperaInv, Cuentas, Salda
  <2> DEFINE D == Deuda(reqBuf, Cola, curNeed, curConn, rotos, d, anunciado)
  <2>3. D \in Nat
    BY <2>1, TiposRecupera, Techo
  <2> HIDE DEF D
  <2>4. LargoPedido * sinServir + D <= Cuota(vaciados, anunciado)
    BY <2>2 DEF D
  <2>5. Cabida(anunciado) \in Nat
    BY <2>1, CabidaTipo
  <2>6. LargoPedido * sinServir <= Cuota(vaciados, anunciado)
    BY <2>1, <2>3, <2>4, <2>5, Constantes DEF Cuota
  <2>7. LargoPedido * sinServir <= Cabida(anunciado) + FIFO + 2 * (LargoPedido - 1)
                                   + LargoPedido * vaciados
    BY <2>6 DEF Cuota
  <2> QED BY <2>1, <2>5, <2>7, Constantes DEF RecuperaPronto, Cabida
<1> QED BY <1>1, <1>2, <1>3, PTL DEF Spec

=============================================================================
