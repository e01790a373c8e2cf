---------------------------- MODULE EspAt_proof ----------------------------
(***************************************************************************)
(* The link implements Enlace, for every FIFO, number of requests and of   *)
(* losses.  The pieces on their way, in the FIFO and in the air, are one   *)
(* queue; whatever is lost or read away, what remains of the requests is   *)
(* in their order, and a request that is whole is in one piece.  So the    *)
(* assembler never answers an older connection, and answers a whole request *)
(* with its own.  And while esp_init_ap_server waits, the queue has one OK *)
(* at most, the answer to the command that waits, unless one was too late. *)
(***************************************************************************)
EXTENDS EspAt, WellFoundedInduction, TLAPS

(* The pieces on their way. *)
Cola == fifo \o aire

(* The notices of a request come after the ones of earlier requests; the   *)
(* lines "GET" and the lengths tell which request they are of.             *)
Piezas_(T, n, u) ==
  \A i \in 1 .. Len(T) :
    /\ T[i].r <= n
    /\ T[i].t = "get" => T[i].r > u.r
    /\ T[i].t = "len" => T[i].r > u.conn

Orden(T) ==
  \A i, j \in 1 .. Len(T) : i < j =>
    /\ T[i].t = "get" /\ T[j].t = "get" => T[i].r < T[j].r
    /\ T[i].t = "len" /\ T[j].t = "len" => T[i].r < T[j].r
    /\ T[i].t = "len" /\ T[j].t = "get" => T[i].r <= T[j].r

(* The payload of a whole request follows its length at once.              *)
Enteras(T, rs) ==
  \A i \in 1 .. Len(T) : T[i].t = "len" /\ T[i].r \notin rs =>
    /\ T[i].n = LargoCuerpo /\ i + 2 <= Len(T)
    /\ T[i + 1] = Get(T[i].r) /\ T[i + 2] = Fin(T[i].r)

EnCola(T, n, u, rs) == Piezas_(T, n, u) /\ Orden(T) /\ Enteras(T, rs)

(* While a payload is read: nothing in the buffer or on its way is older   *)
(* than its connection, and a whole one is where it should be.             *)
EnCuerpo(T, buf, need, c, n, u, rs) ==
  /\ c \in 1 .. n /\ c > u.conn
  /\ \A i \in 1 .. Len(T) :
       /\ T[i].t = "len" => T[i].r > c
       /\ T[i].t = "get" => T[i].r >= c
  /\ \A k \in 1 .. Len(buf) : buf[k].t = "get" =>
       /\ buf[k].r >= c /\ buf[k].r > u.r /\ buf[k].r <= n
       /\ \A i \in 1 .. Len(T) : T[i].t = "get" => T[i].r > buf[k].r
  /\ c \notin rs =>
       \/ /\ need = 2 /\ buf = <<>> /\ Len(T) >= 2
          /\ T[1] = Get(c) /\ T[2] = Fin(c)
       \/ need = 1 /\ buf = <<Get(c)>> /\ Len(T) >= 1 /\ T[1] = Fin(c)

ColaInv == EnCola(Cola, Len(pedidos), ultimo, rotos)

CuerpoInv ==
  /\ curNeed # 0 =>
       EnCuerpo(Cola, reqBuf, curNeed, curConn, Len(pedidos), ultimo, rotos)
  /\ curNeed = 0 => Cabeceras(reqBuf) = {}

(* The event of the handler.                                               *)
EventoInv ==
  /\ pc \in {"atiende", "cmd", "cierra"} => ev.r # 0
  /\ pc \notin {"atiende", "cmd", "cierra"} => ev = SinEvento
  /\ pc \notin {"poll", "resto"} => curNeed = 0
  /\ pc = "init" => orden # Listo
  /\ pc \notin {"init", "cmd"} => resp = RespVacia
  /\ ultimo.r <= Len(pedidos) /\ ultimo.conn <= Len(pedidos)

EspInv == TypeOK /\ ColaInv /\ CuerpoInv /\ EventoInv

-----------------------------------------------------------------------------
(* What happens to the queue                                               *)

Sucesos_ == [r : Nat, conn : Nat]

(* The piece k is taken from T. *)
Quita(T, U, k) ==
  /\ Len(U) = Len(T) - 1
  /\ \A i \in 1 .. Len(U) : U[i] = IF i < k THEN T[i] ELSE T[i + 1]

(* What is in a sequence of S is in S. *)
LEMMA EnSeq ==
  ASSUME NEW S, NEW s \in Seq(S), NEW i \in 1 .. Len(s)
  PROVE  s[i] \in S
OBVIOUS

LEMMA Numeros ==
  ASSUME NEW T \in Seq(Piezas), NEW i \in 1 .. Len(T)
  PROVE  /\ T[i] \in Piezas /\ T[i].r \in 0 .. MaxPedidos /\ T[i].r \in Nat
         /\ T[i].n \in 0 .. LargoMax
<1>1. T[i] \in Piezas
  BY EnSeq
<1> QED BY <1>1, EspAssumption DEF Piezas

(* The rest of the queue keeps its order; a whole request that is not      *)
(* touched stays in one piece.                                             *)
LEMMA QuitaCola ==
  ASSUME NEW T \in Seq(Piezas), NEW U \in Seq(Piezas), NEW k \in 1 .. Len(T),
         Quita(T, U, k), NEW n \in Nat, NEW u \in Sucesos_, NEW rs, NEW qs,
         EnCola(T, n, u, rs), rs \subseteq qs,
         k = 1 \/ T[k].r = 0 \/ T[k].r \in qs
  PROVE  EnCola(U, n, u, qs)
<1> DEFINE f(i) == IF i < k THEN i ELSE i + 1
<1>1. /\ Len(T) \in Nat /\ Len(U) \in Nat /\ Len(U) = Len(T) - 1 /\ k \in Nat
      /\ \A i \in 1 .. Len(U) : f(i) \in 1 .. Len(T) /\ U[i] = T[f(i)]
  BY DEF Quita
<1>2. \A i, j \in 1 .. Len(U) : i < j => f(i) < f(j)
  BY <1>1
<1>3. Piezas_(U, n, u)
  BY <1>1 DEF EnCola, Piezas_
<1>4. Orden(U)
  <2> HIDE DEF f
  <2> SUFFICES ASSUME NEW i \in 1 .. Len(U), NEW j \in 1 .. Len(U), i < j
               PROVE  /\ U[i].t = "get" /\ U[j].t = "get" => U[i].r < U[j].r
                      /\ U[i].t = "len" /\ U[j].t = "len" => U[i].r < U[j].r
                      /\ U[i].t = "len" /\ U[j].t = "get" => U[i].r <= U[j].r
    BY DEF Orden
  <2>1. f(i) \in 1 .. Len(T) /\ f(j) \in 1 .. Len(T) /\ f(i) < f(j)
        /\ U[i] = T[f(i)] /\ U[j] = T[f(j)]
    BY <1>1, <1>2
  <2> QED BY <2>1 DEF EnCola, Orden
<1>5. Enteras(U, qs)
  <2> SUFFICES ASSUME NEW i \in 1 .. Len(U), U[i].t = "len", U[i].r \notin qs
               PROVE  /\ U[i].n = LargoCuerpo /\ i + 2 <= Len(U)
                      /\ U[i + 1] = Get(U[i].r) /\ U[i + 2] = Fin(U[i].r)
    BY DEF Enteras
  <2>1. /\ T[f(i)].n = LargoCuerpo /\ f(i) + 2 <= Len(T)
        /\ T[f(i) + 1] = Get(U[i].r) /\ T[f(i) + 2] = Fin(U[i].r)
    BY <1>1 DEF EnCola, Enteras
  <2>2. CASE i >= k
    <3>1. i + 2 <= Len(U) /\ f(i + 1) = f(i) + 1 /\ f(i + 2) = f(i) + 2
      BY <1>1, <2>1, <2>2
    <3>2. i + 1 \in 1 .. Len(U) /\ i + 2 \in 1 .. Len(U)
      BY <1>1, <3>1
    <3> QED BY <1>1, <2>1, <3>1, <3>2
  <2>3. CASE i < k
    <3>1. T[i + 1].r = U[i].r /\ T[i + 2].r = U[i].r /\ T[i].r = U[i].r
      BY <1>1, <2>1, <2>3 DEF Get, Fin
    <3>a. U[i].r # 0
      BY <1>3, <1>1 DEF Piezas_, Sucesos_
    <3>2. k # i + 1 /\ k # i + 2
      BY <2>3, <3>1, <3>a
    <3>3. i + 2 < k /\ i + 2 <= Len(U) /\ f(i + 1) = i + 1 /\ f(i + 2) = i + 2
      BY <1>1, <2>3, <3>2
    <3>4. i + 1 \in 1 .. Len(U) /\ i + 2 \in 1 .. Len(U)
      BY <1>1, <3>3
    <3> QED BY <1>1, <2>1, <2>3, <3>3, <3>4
  <2> QED BY <1>1, <2>2, <2>3
<1> QED BY <1>3, <1>4, <1>5 DEF EnCola

(* The payload that is being read is not touched, or its request is not    *)
(* whole any more.                                                         *)
LEMMA QuitaCuerpo ==
  ASSUME NEW T \in Seq(Piezas), NEW U \in Seq(Piezas), NEW k \in 1 .. Len(T),
         Quita(T, U, k), NEW n \in Nat, NEW u \in Sucesos_, NEW rs, NEW qs,
         NEW buf, NEW need, NEW c,
         EnCuerpo(T, buf, need, c, n, u, rs), rs \subseteq qs,
         T[k].r = 0 \/ T[k].r \in qs
  PROVE  EnCuerpo(U, buf, need, c, n, u, qs)
<1> DEFINE f(i) == IF i < k THEN i ELSE i + 1
<1>1. /\ Len(T) \in Nat /\ Len(U) \in Nat /\ Len(U) = Len(T) - 1 /\ k \in Nat
      /\ \A i \in 1 .. Len(U) : f(i) \in 1 .. Len(T) /\ U[i] = T[f(i)]
  BY DEF Quita
<1>2. c \in 1 .. n /\ c > u.conn
  BY DEF EnCuerpo
<1>3. \A i \in 1 .. Len(U) :
        /\ U[i].t = "len" => U[i].r > c
        /\ U[i].t = "get" => U[i].r >= c
  BY <1>1 DEF EnCuerpo
<1>4. \A j \in 1 .. Len(buf) : buf[j].t = "get" =>
        /\ buf[j].r >= c /\ buf[j].r > u.r /\ buf[j].r <= n
        /\ \A i \in 1 .. Len(U) : U[i].t = "get" => U[i].r > buf[j].r
  BY <1>1 DEF EnCuerpo
<1>5. ASSUME c \notin qs
      PROVE  \/ /\ need = 2 /\ buf = <<>> /\ Len(U) >= 2
                /\ U[1] = Get(c) /\ U[2] = Fin(c)
             \/ need = 1 /\ buf = <<Get(c)>> /\ Len(U) >= 1 /\ U[1] = Fin(c)
  <2>1. c \notin rs /\ c # 0
    BY <1>2, <1>5
  <2>2. T[k].r # c
    BY <1>5, <2>1
  <2>3. CASE /\ need = 2 /\ buf = <<>> /\ Len(T) >= 2
             /\ T[1] = Get(c) /\ T[2] = Fin(c)
    <3>1. T[1].r = c /\ T[2].r = c
      BY <2>3 DEF Get, Fin
    <3>2. k > 2
      BY <2>2, <3>1
    <3>3. 1 \in 1 .. Len(U) /\ 2 \in 1 .. Len(U) /\ f(1) = 1 /\ f(2) = 2
      BY <1>1, <3>2
    <3> QED BY <1>1, <2>3, <3>3
  <2>4. CASE need = 1 /\ buf = <<Get(c)>> /\ Len(T) >= 1 /\ T[1] = Fin(c)
    <3>1. T[1].r = c
      BY <2>4 DEF Fin
    <3>2. k > 1
      BY <2>2, <3>1
    <3>3. 1 \in 1 .. Len(U) /\ f(1) = 1
      BY <1>1, <3>2
    <3> QED BY <1>1, <2>4, <3>3
  <2> QED BY <2>1, <2>3, <2>4 DEF EnCuerpo
<1> QED BY <1>2, <1>3, <1>4, <1>5 DEF EnCuerpo

(* A length has a hole: the request is not whole, its number stays.         *)
LEMMA MutilaCola ==
  ASSUME NEW T \in Seq(Piezas), NEW U \in Seq(Piezas), NEW k \in 1 .. Len(T), NEW m,
         Len(U) = Len(T), \A i \in 1 .. Len(T) : i # k => U[i] = T[i],
         T[k].t = "len", U[k] = Len_(T[k].r, m),
         NEW n \in Nat, NEW u \in Sucesos_, NEW rs, NEW qs, rs \subseteq qs, T[k].r \in qs,
         EnCola(T, n, u, rs)
  PROVE  EnCola(U, n, u, qs)
<1>1. \A i \in 1 .. Len(T) : U[i].t = T[i].t /\ U[i].r = T[i].r
  BY DEF Len_
<1>2. Piezas_(U, n, u) /\ Orden(U)
  BY <1>1 DEF EnCola, Piezas_, Orden
<1>3. Enteras(U, qs)
  <2> SUFFICES ASSUME NEW i \in 1 .. Len(U), U[i].t = "len", U[i].r \notin qs
               PROVE  /\ U[i].n = LargoCuerpo /\ i + 2 <= Len(U)
                      /\ U[i + 1] = Get(U[i].r) /\ U[i + 2] = Fin(U[i].r)
    BY DEF Enteras
  <2>1. i # k /\ T[i] = U[i]
    BY <1>1
  <2>2. /\ T[i].n = LargoCuerpo /\ i + 2 <= Len(T)
        /\ T[i + 1] = Get(T[i].r) /\ T[i + 2] = Fin(T[i].r)
    BY <1>1 DEF EnCola, Enteras
  <2>3. i + 1 # k /\ i + 2 # k
    BY <2>2 DEF Get, Fin
  <2>4. i + 1 \in 1 .. Len(T) /\ i + 2 \in 1 .. Len(T)
    BY <2>2
  <2> QED BY <2>1, <2>2, <2>3, <2>4
<1> QED BY <1>2, <1>3 DEF EnCola

LEMMA MutilaCuerpo ==
  ASSUME NEW T \in Seq(Piezas), NEW U \in Seq(Piezas), NEW k \in 1 .. Len(T), NEW m,
         Len(U) = Len(T), \A i \in 1 .. Len(T) : i # k => U[i] = T[i],
         T[k].t = "len", U[k] = Len_(T[k].r, m),
         NEW n \in Nat, NEW u \in Sucesos_, NEW rs, NEW qs, rs \subseteq qs, T[k].r \in qs,
         NEW buf, NEW need, NEW c,
         EnCuerpo(T, buf, need, c, n, u, rs)
  PROVE  EnCuerpo(U, buf, need, c, n, u, qs)
<1>1. \A i \in 1 .. Len(T) : U[i].t = T[i].t /\ U[i].r = T[i].r
  BY DEF Len_
<1>2. \A i \in 1 .. Len(T) : T[i] = Get(c) \/ T[i] = Fin(c) => U[i] = T[i]
  BY DEF Get, Fin
<1>3. /\ c \in 1 .. n /\ c > u.conn
      /\ \A i \in 1 .. Len(U) :
           /\ U[i].t = "len" => U[i].r > c
           /\ U[i].t = "get" => U[i].r >= c
  BY <1>1 DEF EnCuerpo
<1>4. \A j \in 1 .. Len(buf) : buf[j].t = "get" =>
        /\ buf[j].r >= c /\ buf[j].r > u.r /\ buf[j].r <= n
        /\ \A i \in 1 .. Len(U) : U[i].t = "get" => U[i].r > buf[j].r
  BY <1>1 DEF EnCuerpo
<1>5. ASSUME c \notin qs
      PROVE  \/ /\ need = 2 /\ buf = <<>> /\ Len(U) >= 2
                /\ U[1] = Get(c) /\ U[2] = Fin(c)
             \/ need = 1 /\ buf = <<Get(c)>> /\ Len(U) >= 1 /\ U[1] = Fin(c)
  <2>1. c \notin rs
    BY <1>5
  <2> QED BY <1>2, <2>1 DEF EnCuerpo
<1> QED BY <1>3, <1>4, <1>5 DEF EnCuerpo

(* What is of no request comes last. *)
LEMMA AgregaCola ==
  ASSUME NEW T \in Seq(Piezas), NEW U \in Seq(Piezas), NEW x \in {Txt, Ok, Prompt},
         Len(U) = Len(T) + 1, U[Len(T) + 1] = x, \A i \in 1 .. Len(T) : U[i] = T[i],
         NEW n \in Nat, NEW u \in Sucesos_, NEW rs, EnCola(T, n, u, rs)
  PROVE  EnCola(U, n, u, rs)
<1>1. \A i \in 1 .. Len(U) : i \in 1 .. Len(T) \/ i = Len(T) + 1
  OBVIOUS
<1>2. x.r = 0 /\ x.t # "get" /\ x.t # "len"
  BY DEF Txt, Ok, Prompt
<1>3. Piezas_(U, n, u)
  BY <1>1, <1>2 DEF EnCola, Piezas_
<1>4. Orden(U)
  BY <1>1, <1>2 DEF EnCola, Orden
<1>5. Enteras(U, rs)
  <2> SUFFICES ASSUME NEW i \in 1 .. Len(U), U[i].t = "len", U[i].r \notin rs
               PROVE  /\ U[i].n = LargoCuerpo /\ i + 2 <= Len(U)
                      /\ U[i + 1] = Get(U[i].r) /\ U[i + 2] = Fin(U[i].r)
    BY DEF Enteras
  <2>1. i \in 1 .. Len(T) /\ T[i] = U[i]
    BY <1>1, <1>2
  <2>2. /\ T[i].n = LargoCuerpo /\ i + 2 <= Len(T)
        /\ T[i + 1] = Get(T[i].r) /\ T[i + 2] = Fin(T[i].r)
    BY <2>1 DEF EnCola, Enteras
  <2>3. i + 1 \in 1 .. Len(T) /\ i + 2 \in 1 .. Len(T)
    BY <2>1, <2>2
  <2> QED BY <2>1, <2>2, <2>3
<1> QED BY <1>3, <1>4, <1>5 DEF EnCola

(* What comes last is of no request, or of a newer one. *)
LEMMA AgregaCuerpo ==
  ASSUME NEW T \in Seq(Piezas), NEW U \in Seq(Piezas), NEW n \in Nat, NEW m \in Nat, n <= m,
         Len(T) <= Len(U), \A i \in 1 .. Len(T) : U[i] = T[i],
         \A i \in Len(T) + 1 .. Len(U) : U[i].t \in {"get", "len"} => U[i].r > n,
         NEW u \in Sucesos_, NEW rs, NEW buf, NEW need, NEW c, EnCuerpo(T, buf, need, c, n, u, rs),
         \A k \in 1 .. Len(buf) : buf[k].r \in Nat
  PROVE  EnCuerpo(U, buf, need, c, m, u, rs)
<1>1. \A i \in 1 .. Len(U) : i \in 1 .. Len(T) \/ i \in Len(T) + 1 .. Len(U)
  OBVIOUS
<1>2. /\ c \in 1 .. n /\ c \in 1 .. m /\ c > u.conn
  BY DEF EnCuerpo
<1>a. \A i \in 1 .. Len(U) : U[i].r \in Nat
  BY Numeros
<1>3. \A i \in 1 .. Len(U) :
           /\ U[i].t = "len" => U[i].r > c
           /\ U[i].t = "get" => U[i].r >= c
  <2> SUFFICES ASSUME NEW i \in 1 .. Len(U)
               PROVE  /\ U[i].t = "len" => U[i].r > c
                      /\ U[i].t = "get" => U[i].r >= c
    OBVIOUS
  <2>1. CASE i \in 1 .. Len(T)
    BY <2>1 DEF EnCuerpo
  <2>2. CASE i \in Len(T) + 1 .. Len(U)
    BY <1>2, <1>a, <2>2
  <2> QED BY <1>1, <2>1, <2>2
<1>4. ASSUME NEW j \in 1 .. Len(buf), buf[j].t = "get"
      PROVE  /\ buf[j].r >= c /\ buf[j].r > u.r /\ buf[j].r <= m
             /\ \A i \in 1 .. Len(U) : U[i].t = "get" => U[i].r > buf[j].r
  <2>1. /\ buf[j].r >= c /\ buf[j].r > u.r /\ buf[j].r <= n /\ buf[j].r \in Nat
        /\ \A i \in 1 .. Len(T) : T[i].t = "get" => T[i].r > buf[j].r
    BY <1>4 DEF EnCuerpo
  <2>2. ASSUME NEW i \in 1 .. Len(U), U[i].t = "get" PROVE U[i].r > buf[j].r
    <3>1. CASE i \in 1 .. Len(T)
      BY <2>1, <2>2, <3>1
    <3>2. CASE i \in Len(T) + 1 .. Len(U)
      <4>1. U[i].r > n
        BY <2>2, <3>2
      <4>2. buf[j].r <= n /\ buf[j].r \in Nat /\ U[i].r \in Nat
        BY <1>a, <2>1
      <4> QED BY <4>1, <4>2
    <3> QED BY <1>1, <3>1, <3>2
  <2> QED BY <2>1, <2>2
<1>5. ASSUME c \notin rs
      PROVE  \/ /\ need = 2 /\ buf = <<>> /\ Len(U) >= 2
                /\ U[1] = Get(c) /\ U[2] = Fin(c)
             \/ need = 1 /\ buf = <<Get(c)>> /\ Len(U) >= 1 /\ U[1] = Fin(c)
  BY <1>5 DEF EnCuerpo
<1> QED BY <1>2, <1>3, <1>4, <1>5 DEF EnCuerpo

(* A new request comes last, in one piece. *)
LEMMA PideCola ==
  ASSUME NEW T \in Seq(Piezas), NEW U \in Seq(Piezas), NEW n \in Nat,
         Len(U) = Len(T) + 5, \A i \in 1 .. Len(T) : U[i] = T[i],
         U[Len(T) + 1] = Txt, U[Len(T) + 2] = Ipd(n + 1), U[Len(T) + 3] = Len_(n + 1, LargoCuerpo),
         U[Len(T) + 4] = Get(n + 1), U[Len(T) + 5] = Fin(n + 1),
         NEW u \in Sucesos_, u.r <= n, u.conn <= n, NEW rs, EnCola(T, n, u, rs)
  PROVE  EnCola(U, n + 1, u, rs)
<1>1. \A i \in 1 .. Len(U) : i \in 1 .. Len(T) \/ i \in Len(T) + 1 .. Len(T) + 5
  OBVIOUS
<1>2. ASSUME NEW i \in Len(T) + 1 .. Len(T) + 5
      PROVE  /\ U[i].r <= n + 1
             /\ U[i].t = "get" => U[i].r = n + 1 /\ i = Len(T) + 4
             /\ U[i].t = "len" => U[i].r = n + 1 /\ i = Len(T) + 3
  <2>1. i \in {Len(T) + 1, Len(T) + 2, Len(T) + 3, Len(T) + 4, Len(T) + 5}
    OBVIOUS
  <2>2. CASE i = Len(T) + 1
    BY <2>2 DEF Txt
  <2>3. CASE i = Len(T) + 2
    BY <2>3 DEF Ipd
  <2>4. CASE i = Len(T) + 3
    BY <2>4 DEF Len_
  <2>5. CASE i = Len(T) + 4
    BY <2>5 DEF Get
  <2>6. CASE i = Len(T) + 5
    BY <2>6 DEF Fin
  <2> QED BY <2>1, <2>2, <2>3, <2>4, <2>5, <2>6
<1>a. \A i \in 1 .. Len(T) : T[i].r \in Nat
  BY Numeros
<1>3. Piezas_(U, n + 1, u)
  <2>1. ASSUME NEW i \in 1 .. Len(T) PROVE U[i].r <= n + 1
    <3>1. T[i].r <= n /\ T[i].r \in Nat /\ U[i] = T[i]
      BY <1>a DEF EnCola, Piezas_
    <3> QED BY <3>1
  <2>2. u.r \in Nat /\ u.conn \in Nat
    BY DEF Sucesos_
  <2>3. ASSUME NEW i \in 1 .. Len(T)
        PROVE  (U[i].t = "get" => U[i].r > u.r) /\ (U[i].t = "len" => U[i].r > u.conn)
    BY DEF EnCola, Piezas_
  <2>4. ASSUME NEW i \in Len(T) + 1 .. Len(T) + 5
        PROVE  /\ U[i].r <= n + 1
               /\ (U[i].t = "get" => U[i].r > u.r) /\ (U[i].t = "len" => U[i].r > u.conn)
    <3>1. /\ U[i].r <= n + 1
          /\ U[i].t = "get" => U[i].r = n + 1
          /\ U[i].t = "len" => U[i].r = n + 1
      BY <1>2
    <3>2. n + 1 > u.r /\ n + 1 > u.conn
      BY <2>2
    <3> QED BY <3>1, <3>2
  <2> QED BY <1>1, <2>1, <2>3, <2>4 DEF Piezas_
<1>4. Orden(U)
  <2> SUFFICES ASSUME NEW i \in 1 .. Len(U), NEW j \in 1 .. Len(U), i < j
               PROVE  /\ U[i].t = "get" /\ U[j].t = "get" => U[i].r < U[j].r
                      /\ U[i].t = "len" /\ U[j].t = "len" => U[i].r < U[j].r
                      /\ U[i].t = "len" /\ U[j].t = "get" => U[i].r <= U[j].r
    BY DEF Orden
  <2>1. CASE j \in 1 .. Len(T)
    BY <2>1 DEF EnCola, Orden
  <2>2. CASE i \in 1 .. Len(T) /\ j \in Len(T) + 1 .. Len(T) + 5
    <3>1. T[i].r <= n /\ T[i].r \in Nat /\ U[i] = T[i]
      BY <1>a, <2>2 DEF EnCola, Piezas_
    <3> QED BY <1>2, <2>2, <3>1
  <2>3. CASE i \in Len(T) + 1 .. Len(T) + 5 /\ j \in Len(T) + 1 .. Len(T) + 5
    BY <1>2, <2>3
  <2> QED BY <1>1, <2>1, <2>2, <2>3
<1>5. Enteras(U, rs)
  <2> SUFFICES ASSUME NEW i \in 1 .. Len(U), U[i].t = "len", U[i].r \notin rs
               PROVE  /\ U[i].n = LargoCuerpo /\ i + 2 <= Len(U)
                      /\ U[i + 1] = Get(U[i].r) /\ U[i + 2] = Fin(U[i].r)
    BY DEF Enteras
  <2>1. CASE i \in 1 .. Len(T)
    <3>1. /\ T[i].n = LargoCuerpo /\ i + 2 <= Len(T) /\ T[i] = U[i]
          /\ T[i + 1] = Get(T[i].r) /\ T[i + 2] = Fin(T[i].r)
      BY <2>1 DEF EnCola, Enteras
    <3>2. i + 1 \in 1 .. Len(T) /\ i + 2 \in 1 .. Len(T)
      BY <2>1, <3>1, SMTT(40)
    <3> QED BY <3>1, <3>2
  <2>2. CASE i \in Len(T) + 1 .. Len(T) + 5
    <3>1. i = Len(T) + 3
      BY <1>2, <2>2
    <3> QED BY <3>1 DEF Len_
  <2> QED BY <1>1, <2>1, <2>2
<1> QED BY <1>3, <1>4, <1>5 DEF EnCola

-----------------------------------------------------------------------------
(* What the actions do to the queue                                        *)

(* A piece goes from the air to the FIFO. *)
LEMMA PasaUna ==
  ASSUME NEW f \in Seq(Piezas), NEW a \in Seq(Piezas), a # <<>>
  PROVE  /\ Head(a) \in Piezas /\ Tail(a) \in Seq(Piezas)
         /\ Append(f, Head(a)) \o Tail(a) = f \o a
         /\ Len(f) + 1 \in 1 .. Len(f \o a) /\ (f \o a)[Len(f) + 1] = Head(a)
<1>1. /\ Head(a) \in Piezas /\ Tail(a) \in Seq(Piezas) /\ Len(a) \in Nat /\ Len(a) > 0
      /\ f \o a \in Seq(Piezas) /\ Len(f \o a) = Len(f) + Len(a) /\ Len(f) \in Nat
      /\ Head(a) = a[1] /\ Len(Tail(a)) = Len(a) - 1
  OBVIOUS
<1>2. (f \o a)[Len(f) + 1] = Head(a)
  BY <1>1
<1> DEFINE g == Append(f, Head(a))
<1>3. /\ g \in Seq(Piezas) /\ Len(g) = Len(f) + 1 /\ g[Len(f) + 1] = Head(a)
      /\ \A i \in 1 .. Len(f) : g[i] = f[i]
  BY <1>1
<1>4. /\ g \o Tail(a) \in Seq(Piezas) /\ Len(g \o Tail(a)) = Len(f \o a)
  BY <1>1, <1>3
<1>5. ASSUME NEW i \in 1 .. Len(f \o a)
      PROVE  (g \o Tail(a))[i] = (f \o a)[i]
  <2>1. CASE i \in 1 .. Len(f)
    BY <1>1, <1>3, <2>1
  <2>2. CASE i = Len(f) + 1
    BY <1>1, <1>2, <1>3, <2>2
  <2>3. CASE i \in Len(f) + 2 .. Len(f \o a)
    <3>1. i - Len(g) \in 1 .. Len(Tail(a))
      BY <1>1, <1>3, <2>3
    <3>2. (g \o Tail(a))[i] = Tail(a)[i - Len(g)]
      BY <1>1, <1>3, <2>3
    <3>3. Tail(a)[i - Len(g)] = a[i - Len(f)]
      BY <1>1, <1>3, <3>1
    <3> QED BY <1>1, <2>3, <3>2, <3>3
  <2> QED BY <1>1, <2>1, <2>2, <2>3
<1>6. g \o Tail(a) = f \o a
  BY <1>4, <1>5, <1>1
<1> QED BY <1>1, <1>2, <1>6

(* The first piece of the FIFO is read. *)
LEMMA LeeUna ==
  ASSUME NEW f \in Seq(Piezas), NEW a \in Seq(Piezas), f # <<>>
  PROVE  /\ Tail(f) \in Seq(Piezas) /\ Len(Tail(f)) = Len(f) - 1
         /\ f \o a \in Seq(Piezas) /\ Tail(f) \o a \in Seq(Piezas)
         /\ 1 \in 1 .. Len(f \o a) /\ (f \o a)[1] = Head(f)
         /\ Quita(f \o a, Tail(f) \o a, 1)
<1>1. /\ Head(f) = f[1] /\ Tail(f) \in Seq(Piezas) /\ Len(f) \in Nat /\ Len(f) > 0
      /\ f \o a \in Seq(Piezas) /\ Tail(f) \o a \in Seq(Piezas) /\ Len(a) \in Nat
      /\ Len(f \o a) = Len(f) + Len(a) /\ Len(Tail(f)) = Len(f) - 1
      /\ Len(Tail(f) \o a) = Len(f) - 1 + Len(a)
  OBVIOUS
<1>2. ASSUME NEW i \in 1 .. Len(Tail(f) \o a)
      PROVE  (Tail(f) \o a)[i] = (f \o a)[i + 1]
  <2>1. CASE i \in 1 .. Len(f) - 1
    BY <1>1, <2>1
  <2>2. CASE i \in Len(f) .. Len(Tail(f) \o a)
    BY <1>1, <2>2
  <2> QED BY <1>1, <2>1, <2>2
<1> QED BY <1>1, <1>2 DEF Quita

(* A piece of the air finds no room. *)
LEMMA PierdeUna ==
  ASSUME NEW f \in Seq(Piezas), NEW a \in Seq(Piezas), a # <<>>
  PROVE  /\ f \o a \in Seq(Piezas) /\ f \o Tail(a) \in Seq(Piezas)
         /\ Quita(f \o a, f \o Tail(a), Len(f) + 1)
<1>1. /\ Tail(a) \in Seq(Piezas) /\ Len(f) \in Nat /\ Len(a) > 0
      /\ f \o a \in Seq(Piezas) /\ f \o Tail(a) \in Seq(Piezas) /\ Len(a) \in Nat
      /\ Len(f \o a) = Len(f) + Len(a) /\ Len(Tail(a)) = Len(a) - 1
      /\ Len(f \o Tail(a)) = Len(f) + Len(a) - 1
  OBVIOUS
<1>2. ASSUME NEW i \in 1 .. Len(f \o Tail(a))
      PROVE  (f \o Tail(a))[i] = IF i < Len(f) + 1 THEN (f \o a)[i] ELSE (f \o a)[i + 1]
  <2>1. CASE i \in 1 .. Len(f)
    BY <1>1, <2>1
  <2>2. CASE i \in Len(f) + 1 .. Len(f \o Tail(a))
    <3>1. (f \o Tail(a))[i] = Tail(a)[i - Len(f)] /\ i - Len(f) \in 1 .. Len(Tail(a))
      BY <1>1, <2>2
    <3>2. Tail(a)[i - Len(f)] = a[i - Len(f) + 1]
      BY <1>1, <3>1
    <3>3. (f \o a)[i + 1] = a[i + 1 - Len(f)]
      BY <1>1, <2>2
    <3> QED BY <1>1, <2>2, <3>1, <3>2, <3>3
  <2> QED BY <1>1, <2>1, <2>2
<1> QED BY <1>1, <1>2 DEF Quita

(* A piece is written. *)
LEMMA EscribeUna ==
  ASSUME NEW f \in Seq(Piezas), NEW a \in Seq(Piezas), NEW x \in Piezas
  PROVE  /\ Append(a, x) \in Seq(Piezas) /\ f \o Append(a, x) \in Seq(Piezas)
         /\ f \o a \in Seq(Piezas)
         /\ Len(f \o Append(a, x)) = Len(f \o a) + 1
         /\ (f \o Append(a, x))[Len(f \o a) + 1] = x
         /\ \A i \in 1 .. Len(f \o a) : (f \o Append(a, x))[i] = (f \o a)[i]
<1>1. /\ Len(f) \in Nat /\ Len(a) \in Nat /\ Len(f \o a) = Len(f) + Len(a)
      /\ Append(a, x) \in Seq(Piezas) /\ Len(Append(a, x)) = Len(a) + 1
      /\ Append(a, x)[Len(a) + 1] = x /\ f \o Append(a, x) \in Seq(Piezas)
      /\ f \o a \in Seq(Piezas) /\ Len(f \o Append(a, x)) = Len(f) + Len(a) + 1
  OBVIOUS
<1>2. ASSUME NEW i \in 1 .. Len(f \o a)
      PROVE  (f \o Append(a, x))[i] = (f \o a)[i]
  <2>1. CASE i \in 1 .. Len(f)
    BY <1>1, <2>1
  <2>2. CASE i \in Len(f) + 1 .. Len(f) + Len(a)
    BY <1>1, <2>2
  <2> QED BY <1>1, <2>1, <2>2
<1>3. (f \o Append(a, x))[Len(f \o a) + 1] = x
  BY <1>1
<1> QED BY <1>1, <1>2, <1>3

-----------------------------------------------------------------------------
(* What the actions preserve                                               *)

ColaCuerpo == TypeUart /\ ColaInv /\ CuerpoInv

LEMMA Sueltas == {Txt, Ok, Prompt} \subseteq Piezas
BY EspAssumption DEF Txt, Ok, Prompt, Piezas

(* The types of what the lemmas about the queue speak of. *)
LEMMA Dominios ==
  ASSUME EspInv
  PROVE  /\ fifo \in Seq(Piezas) /\ aire \in Seq(Piezas) /\ Cola \in Seq(Piezas)
         /\ Len(pedidos) \in Nat /\ ultimo \in Sucesos_
         /\ reqBuf \in Seq(Piezas) /\ Len(reqBuf) \in Nat
         /\ \A k \in 1 .. Len(reqBuf) : reqBuf[k].r \in Nat
<1>1. fifo \in Seq(Piezas) /\ aire \in Seq(Piezas) /\ reqBuf \in Seq(Piezas)
      /\ pedidos \in Seq(Comandos)
  BY DEF EspInv, TypeOK, TypeUart, TypeAsm
<1>2. ultimo \in [r : 0 .. MaxPedidos, conn : 0 .. MaxPedidos]
  BY DEF EspInv, TypeOK, TypeControl
<1>3. ultimo \in Sucesos_
  BY <1>2, EspAssumption DEF Sucesos_
<1>4. \A k \in 1 .. Len(reqBuf) : reqBuf[k].r \in Nat
  BY <1>1, Numeros
<1> QED BY <1>1, <1>3, <1>4 DEF Cola

(* Nothing of the queue or the assembler changes. *)
LEMMA Igual ==
  ASSUME EspInv, UNCHANGED <<linea, asm, pedidos, ultimo, rotos>>
  PROVE  ColaCuerpo'
BY DEF EspInv, TypeOK, ColaCuerpo, TypeUart, ColaInv, CuerpoInv, Cola, linea, asm

LEMMA Agrega ==
  ASSUME EspInv, NEW x \in {Txt, Ok, Prompt}, aire' = Append(aire, x),
         UNCHANGED <<fifo, asm, pedidos, ultimo, rotos>>
  PROVE  ColaCuerpo'
<1>1. TypeUart'
  BY Dominios, Sueltas, EscribeUna DEF EspInv, TypeOK, TypeUart
<1>2. /\ Cola' \in Seq(Piezas) /\ Len(Cola') = Len(Cola) + 1 /\ Cola'[Len(Cola) + 1] = x
      /\ \A i \in 1 .. Len(Cola) : Cola'[i] = Cola[i]
  BY Dominios, Sueltas, EscribeUna DEF Cola
<1>3. ColaInv'
  <2>1. EnCola(Cola, Len(pedidos), ultimo, rotos)
    BY DEF EspInv, ColaInv
  <2>2. EnCola(Cola', Len(pedidos), ultimo, rotos)
    BY <1>2, <2>1, Dominios, AgregaCola
  <2> QED BY <2>2 DEF ColaInv
<1>4. CuerpoInv'
  <2>1. ASSUME curNeed # 0
        PROVE  EnCuerpo(Cola', reqBuf, curNeed, curConn, Len(pedidos), ultimo, rotos)
    <3>1. EnCuerpo(Cola, reqBuf, curNeed, curConn, Len(pedidos), ultimo, rotos)
      BY <2>1 DEF EspInv, CuerpoInv
    <3>2. \A i \in Len(Cola) + 1 .. Len(Cola') :
            Cola'[i].t \in {"get", "len"} => Cola'[i].r > Len(pedidos)
      <4>1. x.t \notin {"get", "len"}
        BY DEF Txt, Ok, Prompt
      <4> QED BY <1>2, <4>1, Dominios
    <3>3. Len(Cola) <= Len(Cola') /\ Len(pedidos) <= Len(pedidos)
      BY <1>2, Dominios
    <3> QED BY <1>2, <3>1, <3>2, <3>3, Dominios, AgregaCuerpo
  <2> QED BY <2>1 DEF EspInv, CuerpoInv, asm
<1> QED BY <1>1, <1>3, <1>4 DEF ColaCuerpo

(* A piece is read while no payload is, and perhaps another one written.   *)
LEMMA Lectura ==
  ASSUME EspInv, fifo # <<>>, fifo' = Tail(fifo), curNeed = 0,
         aire' = aire \/ \E x \in {Txt, Ok, Prompt} : aire' = Append(aire, x),
         UNCHANGED <<asm, pedidos, ultimo>>, rotos \subseteq rotos'
  PROVE  ColaCuerpo'
<1> DEFINE M == Tail(fifo) \o aire
<1>1. /\ Tail(fifo) \in Seq(Piezas) /\ Len(Tail(fifo)) = Len(fifo) - 1 /\ M \in Seq(Piezas)
      /\ 1 \in 1 .. Len(Cola) /\ Quita(Cola, M, 1)
  BY Dominios, LeeUna DEF Cola
<1>2. TypeUart'
  <2>1. aire' \in Seq(Piezas)
    <3>1. aire \in Seq(Piezas)
      BY Dominios
    <3>2. \A x \in {Txt, Ok, Prompt} : Append(aire, x) \in Seq(Piezas)
      BY <3>1, Sueltas
    <3> QED BY <3>1, <3>2
  <2>2. Len(fifo') <= FIFO
    <3>1. Len(fifo) <= FIFO /\ Len(fifo) \in Nat
      BY Dominios DEF EspInv, TypeOK, TypeUart
    <3> QED BY <1>1, <3>1, EspAssumption
  <2> QED BY <1>1, <2>1, <2>2 DEF EspInv, TypeOK, TypeUart
<1>3. EnCola(M, Len(pedidos), ultimo, rotos')
  <2>1. EnCola(Cola, Len(pedidos), ultimo, rotos)
    BY DEF EspInv, ColaInv
  <2> QED BY <1>1, <2>1, Dominios, QuitaCola
<1>4. EnCola(Cola', Len(pedidos), ultimo, rotos')
  <2>1. CASE aire' = aire
    BY <1>3, <2>1 DEF Cola
  <2>2. CASE \E x \in {Txt, Ok, Prompt} : aire' = Append(aire, x)
    <3>1. PICK x \in {Txt, Ok, Prompt} : aire' = Append(aire, x)
      BY <2>2
    <3>2. /\ Cola' \in Seq(Piezas) /\ Len(Cola') = Len(M) + 1 /\ Cola'[Len(M) + 1] = x
          /\ \A i \in 1 .. Len(M) : Cola'[i] = M[i]
      BY <1>1, <3>1, Dominios, Sueltas, EscribeUna DEF Cola
    <3> QED BY <1>1, <1>3, <3>2, Dominios, AgregaCola
  <2> QED BY <2>1, <2>2
<1>5. ColaInv' /\ CuerpoInv'
  BY <1>4 DEF ColaInv, CuerpoInv, EspInv, asm
<1> QED BY <1>2, <1>5 DEF ColaCuerpo

LEMMA PasoLlega ==
  ASSUME EspInv, Llega
  PROVE  ColaCuerpo'
<1>1. /\ aire # <<>> /\ Len(fifo) < FIFO /\ fifo' = Append(fifo, Head(aire)) /\ aire' = Tail(aire)
      /\ UNCHANGED <<asm, pedidos, ultimo, rotos>>
  BY DEF Llega, historia
<1>2. Cola' = Cola /\ Head(aire) \in Piezas /\ Tail(aire) \in Seq(Piezas)
  BY <1>1, Dominios, PasaUna DEF Cola
<1>3. TypeUart'
  BY <1>1, <1>2, Dominios, EspAssumption DEF EspInv, TypeOK, TypeUart
<1> QED BY <1>1, <1>2, <1>3 DEF EspInv, ColaCuerpo, ColaInv, CuerpoInv, asm

LEMMA PasoDesborda ==
  ASSUME EspInv, Desborda
  PROVE  ColaCuerpo'
<1>1. /\ aire # <<>> /\ aire' = Tail(aire) /\ Rompe(Head(aire).r)
      /\ UNCHANGED <<asm, fifo, pedidos>>
  BY DEF Desborda, Pierde
<1>2. rotos \subseteq rotos' /\ ultimo' = ultimo /\ (Head(aire).r = 0 \/ Head(aire).r \in rotos')
  BY <1>1 DEF Rompe
<1> DEFINE k == Len(fifo) + 1
<1>3. /\ k \in 1 .. Len(Cola) /\ Cola[k] = Head(aire) /\ Cola' \in Seq(Piezas) /\ Quita(Cola, Cola', k)
      /\ Tail(aire) \in Seq(Piezas)
  BY <1>1, Dominios, PasaUna, PierdeUna DEF Cola
<1> HIDE DEF k
<1>4. TypeUart'
  BY <1>1, <1>3 DEF EspInv, TypeOK, TypeUart
<1>5. ColaInv'
  <2>1. EnCola(Cola, Len(pedidos), ultimo, rotos)
    BY DEF EspInv, ColaInv
  <2>2. EnCola(Cola', Len(pedidos), ultimo, rotos')
    BY <1>2, <1>3, <2>1, Dominios, QuitaCola
  <2> QED BY <1>1, <1>2, <2>2 DEF ColaInv
<1>6. CuerpoInv'
  <2>1. ASSUME curNeed # 0
        PROVE  EnCuerpo(Cola', reqBuf, curNeed, curConn, Len(pedidos), ultimo, rotos')
    <3>1. EnCuerpo(Cola, reqBuf, curNeed, curConn, Len(pedidos), ultimo, rotos)
      BY <2>1 DEF EspInv, CuerpoInv
    <3> QED BY <1>2, <1>3, <3>1, Dominios, QuitaCuerpo
  <2> QED BY <1>1, <1>2, <2>1 DEF EspInv, CuerpoInv, asm
<1> QED BY <1>4, <1>5, <1>6 DEF ColaCuerpo

(* A length cut short changes nothing but its number of pieces. *)
LEMMA CortaUna ==
  ASSUME NEW f \in Seq(Piezas), NEW a \in Seq(Piezas), a # <<>>, NEW x \in Piezas
  PROVE  /\ Append(f, x) \in Seq(Piezas) /\ Append(f, x) \o Tail(a) \in Seq(Piezas)
         /\ Len(Append(f, x) \o Tail(a)) = Len(f \o a)
         /\ (Append(f, x) \o Tail(a))[Len(f) + 1] = x
         /\ \A i \in 1 .. Len(f \o a) :
              i # Len(f) + 1 => (Append(f, x) \o Tail(a))[i] = (f \o a)[i]
<1> DEFINE g == Append(f, x)
<1>1. /\ Tail(a) \in Seq(Piezas) /\ Len(f) \in Nat /\ Len(a) > 0 /\ Len(a) \in Nat
      /\ Len(Tail(a)) = Len(a) - 1 /\ Len(f \o a) = Len(f) + Len(a)
      /\ g \in Seq(Piezas) /\ Len(g) = Len(f) + 1 /\ g[Len(f) + 1] = x
      /\ \A i \in 1 .. Len(f) : g[i] = f[i]
  OBVIOUS
<1>2. g \o Tail(a) \in Seq(Piezas) /\ Len(g \o Tail(a)) = Len(f \o a)
  BY <1>1
<1>3. (g \o Tail(a))[Len(f) + 1] = x
  BY <1>1
<1>4. ASSUME NEW i \in 1 .. Len(f \o a), i # Len(f) + 1
      PROVE  (g \o Tail(a))[i] = (f \o a)[i]
  <2>1. CASE i \in 1 .. Len(f)
    BY <1>1, <2>1
  <2>2. CASE i \in Len(f) + 2 .. Len(f \o a)
    <3>1. (g \o Tail(a))[i] = Tail(a)[i - Len(g)] /\ i - Len(g) \in 1 .. Len(Tail(a))
      BY <1>1, <2>2
    <3>2. Tail(a)[i - Len(g)] = a[i - Len(f)]
      BY <1>1, <3>1
    <3> QED BY <1>1, <2>2, <3>1, <3>2
  <2> QED BY <1>1, <1>4, <2>1, <2>2
<1> QED BY <1>1, <1>2, <1>3, <1>4

LEMMA PasoMutila ==
  ASSUME EspInv, Mutila
  PROVE  ColaCuerpo'
<1>1. PICK m \in Mutilados : fifo' = Append(fifo, Len_(Head(aire).r, m))
  BY DEF Mutila
<1>2. /\ aire # <<>> /\ Len(fifo) = FIFO - 1 /\ aire' = Tail(aire) /\ Head(aire).t = "len"
      /\ Rompe(Head(aire).r) /\ UNCHANGED <<asm, pedidos>>
  BY DEF Mutila, Pierde
<1> DEFINE k == Len(fifo) + 1  x == Len_(Head(aire).r, m)
<1>3. k \in 1 .. Len(Cola) /\ Cola[k] = Head(aire) /\ Head(aire) \in Piezas
      /\ Tail(aire) \in Seq(Piezas)
  BY <1>2, Dominios, PasaUna DEF Cola
<1>4. x \in Piezas
  BY <1>3, EspAssumption DEF Piezas, Len_
<1>5. Head(aire).r # 0
  <2>1. Piezas_(Cola, Len(pedidos), ultimo)
    BY DEF EspInv, ColaInv, EnCola
  <2>2. Cola[k].r > ultimo.conn /\ ultimo.conn \in Nat
    BY <1>2, <1>3, <2>1, Dominios DEF Piezas_, Sucesos_
  <2> QED BY <1>3, <2>2
<1>6. rotos \subseteq rotos' /\ ultimo' = ultimo /\ Head(aire).r \in rotos'
  BY <1>2, <1>5 DEF Rompe
<1>7. /\ Cola' \in Seq(Piezas) /\ Len(Cola') = Len(Cola) /\ Cola'[k] = x
      /\ \A i \in 1 .. Len(Cola) : i # k => Cola'[i] = Cola[i]
      /\ Append(fifo, x) \in Seq(Piezas)
  BY <1>1, <1>2, <1>4, Dominios, CortaUna, SMTT(20) DEF Cola
<1>8. TypeUart'
  BY <1>1, <1>2, <1>3, <1>4, <1>7, Dominios, EspAssumption DEF EspInv, TypeOK, TypeUart
<1> HIDE DEF k
<1>9. ColaInv'
  <2>1. EnCola(Cola, Len(pedidos), ultimo, rotos)
    BY DEF EspInv, ColaInv
  <2>2. EnCola(Cola', Len(pedidos), ultimo, rotos')
    BY <1>2, <1>3, <1>6, <1>7, <2>1, Dominios, MutilaCola
  <2> QED BY <1>2, <1>6, <2>2 DEF ColaInv
<1>10. CuerpoInv'
  <2>1. ASSUME curNeed # 0
        PROVE  EnCuerpo(Cola', reqBuf, curNeed, curConn, Len(pedidos), ultimo, rotos')
    <3>1. EnCuerpo(Cola, reqBuf, curNeed, curConn, Len(pedidos), ultimo, rotos)
      BY <2>1 DEF EspInv, CuerpoInv
    <3> QED BY <1>2, <1>3, <1>6, <1>7, <3>1, Dominios, MutilaCuerpo
  <2> QED BY <1>2, <1>6, <2>1 DEF EspInv, CuerpoInv, asm
<1> QED BY <1>8, <1>9, <1>10 DEF ColaCuerpo

LEMMA Union2 ==
  ASSUME NEW f \in Seq(Piezas), NEW q \in Seq(Piezas)
  PROVE  /\ f \o q \in Seq(Piezas) /\ Len(f \o q) = Len(f) + Len(q)
         /\ Len(f) \in Nat /\ Len(q) \in Nat
         /\ \A i \in 1 .. Len(f) : (f \o q)[i] = f[i]
         /\ \A i \in 1 .. Len(q) : (f \o q)[Len(f) + i] = q[i]
<1>1. /\ f \o q \in Seq(Piezas) /\ Len(f \o q) = Len(f) + Len(q)
      /\ Len(f) \in Nat /\ Len(q) \in Nat
  OBVIOUS
<1>2. ASSUME NEW i \in 1 .. Len(q) PROVE (f \o q)[Len(f) + i] = q[i]
  <2> DEFINE j == Len(f) + i
  <2>1. j \in Len(f) + 1 .. Len(f) + Len(q) /\ j - Len(f) = i
    BY <1>1
  <2> HIDE DEF j
  <2>2. (f \o q)[j] = q[j - Len(f)]
    BY <1>1, <2>1
  <2> QED BY <2>1, <2>2 DEF j
<1>3. \A i \in 1 .. Len(f) : (f \o q)[i] = f[i]
  BY <1>1
<1> QED BY <1>1, <1>2, <1>3

(* A request is written. *)
LEMMA EscribePeticion ==
  ASSUME NEW f \in Seq(Piezas), NEW a \in Seq(Piezas), NEW r \in 1 .. MaxPedidos
  PROVE  /\ a \o Peticion(r) \in Seq(Piezas) /\ f \o (a \o Peticion(r)) \in Seq(Piezas)
         /\ Len(f \o (a \o Peticion(r))) = Len(f \o a) + 5
         /\ \A i \in 1 .. Len(f \o a) : (f \o (a \o Peticion(r)))[i] = (f \o a)[i]
         /\ \A i \in 1 .. 5 : (f \o (a \o Peticion(r)))[Len(f \o a) + i] = Peticion(r)[i]
<1>1. {Txt, Ipd(r), Len_(r, LargoCuerpo), Get(r), Fin(r)} \subseteq Piezas
  BY EspAssumption DEF Txt, Ipd, Len_, Get, Fin, Piezas, LargoCuerpo
<1>2. Peticion(r) \in Seq(Piezas) /\ Len(Peticion(r)) = 5
  BY <1>1 DEF Peticion
<1> DEFINE p == Peticion(r)  b == a \o p
<1>3. /\ Len(f) \in Nat /\ Len(a) \in Nat /\ Len(f \o a) = Len(f) + Len(a)
      /\ \A i \in 1 .. Len(f) : (f \o a)[i] = f[i]
      /\ \A i \in 1 .. Len(a) : (f \o a)[Len(f) + i] = a[i]
  BY Union2
<1>a. p \in Seq(Piezas) /\ Len(p) = 5
  BY <1>2
<1> HIDE DEF p
<1>4. /\ b \in Seq(Piezas) /\ Len(b) = Len(a) + 5
      /\ \A i \in 1 .. Len(a) : b[i] = a[i]
      /\ \A i \in 1 .. 5 : b[Len(a) + i] = p[i]
  <2>1. /\ b \in Seq(Piezas) /\ Len(b) = Len(a) + Len(p)
        /\ \A i \in 1 .. Len(a) : b[i] = a[i]
        /\ \A i \in 1 .. Len(p) : b[Len(a) + i] = p[i]
    BY <1>a, Union2
  <2> QED BY <1>a, <2>1
<1> HIDE DEF b
<1>5. /\ f \o b \in Seq(Piezas) /\ Len(f \o b) = Len(f) + Len(b)
      /\ \A i \in 1 .. Len(f) : (f \o b)[i] = f[i]
      /\ \A i \in 1 .. Len(b) : (f \o b)[Len(f) + i] = b[i]
  BY <1>4, Union2
<1>6. ASSUME NEW i \in 1 .. Len(f \o a)
      PROVE  (f \o b)[i] = (f \o a)[i]
  <2>1. CASE i \in 1 .. Len(f)
    BY <1>3, <1>5, <2>1
  <2>2. CASE i \in Len(f) + 1 .. Len(f) + Len(a)
    <3>1. PICK k \in 1 .. Len(a) : i = Len(f) + k
      <4>1. i - Len(f) \in 1 .. Len(a) /\ i = Len(f) + (i - Len(f))
        BY <1>3, <2>2
      <4> QED BY <4>1
    <3>2. k \in 1 .. Len(b)
      BY <1>3, <1>4
    <3> QED BY <1>3, <1>4, <1>5, <3>1, <3>2
  <2>3. /\ i \in 1 .. Len(f) + Len(a) /\ Len(f) \in Nat /\ Len(a) \in Nat
    BY <1>3
  <2>4. i \in 1 .. Len(f) \/ i \in Len(f) + 1 .. Len(f) + Len(a)
    BY <2>3
  <2> QED BY <2>1, <2>2, <2>4
<1>7. ASSUME NEW i \in 1 .. 5
      PROVE  (f \o b)[Len(f \o a) + i] = p[i]
  <2>1. Len(a) + i \in 1 .. Len(b)
    BY <1>3, <1>4
  <2>2. (f \o b)[Len(f) + (Len(a) + i)] = p[i]
    BY <1>4, <1>5, <2>1
  <2>3. Len(f) + (Len(a) + i) = Len(f \o a) + i
    BY <1>3
  <2> QED BY <2>2, <2>3
<1>8. Len(f \o b) = Len(f \o a) + 5
  BY <1>3, <1>4, <1>5
<1> QED BY <1>4, <1>5, <1>6, <1>7, <1>8 DEF b, p

LEMMA PasoPedir ==
  ASSUME EspInv, Pedir
  PROVE  ColaCuerpo'
<1> DEFINE n == Len(pedidos)  r == n + 1
<1>1. PICK c \in Comandos : pedidos' = Append(pedidos, c)
  BY DEF Pedir
<1>2. /\ n < MaxPedidos /\ n \in Nat /\ pedidos \in Seq(Comandos)
  BY DEF Pedir, EspInv, TypeOK, TypeUart
<1>3. Len(pedidos') = r /\ pedidos' \in Seq(Comandos) /\ r \in 1 .. MaxPedidos
  BY <1>1, <1>2, EspAssumption
<1>4. aire' = aire \o Peticion(r) /\ UNCHANGED <<fifo, asm, ultimo, rotos>>
  BY <1>3 DEF Pedir, historia
<1>5. /\ aire' \in Seq(Piezas) /\ Cola' \in Seq(Piezas) /\ Len(Cola') = Len(Cola) + 5
      /\ \A i \in 1 .. Len(Cola) : Cola'[i] = Cola[i]
      /\ \A i \in 1 .. 5 : Cola'[Len(Cola) + i] = Peticion(r)[i]
  <2>1. fifo \in Seq(Piezas) /\ aire \in Seq(Piezas)
    BY Dominios
  <2>2. Cola' = fifo \o (aire \o Peticion(r))
    BY <1>4 DEF Cola
  <2> HIDE DEF r
  <2>3. aire' \in Seq(Piezas)
    BY <1>3, <1>4, <2>1, EscribePeticion
  <2>4. Cola = fifo \o aire
    BY DEF Cola
  <2> DEFINE b == aire \o Peticion(r)
  <2>5. /\ fifo \o b \in Seq(Piezas) /\ Len(fifo \o b) = Len(fifo \o aire) + 5
        /\ \A i \in 1 .. Len(fifo \o aire) : (fifo \o b)[i] = (fifo \o aire)[i]
        /\ \A i \in 1 .. 5 : (fifo \o b)[Len(fifo \o aire) + i] = Peticion(r)[i]
    BY <1>3, <2>1, EscribePeticion
  <2>6. Cola' = fifo \o b
    BY <2>2
  <2> HIDE DEF b
  <2> QED BY <2>3, <2>4, <2>5, <2>6
<1>6. /\ Cola'[Len(Cola) + 1] = Txt /\ Cola'[Len(Cola) + 2] = Ipd(r)
      /\ Cola'[Len(Cola) + 3] = Len_(r, LargoCuerpo)
      /\ Cola'[Len(Cola) + 4] = Get(r) /\ Cola'[Len(Cola) + 5] = Fin(r)
  BY <1>5 DEF Peticion
<1>7. TypeUart'
  BY <1>2, <1>3, <1>4, <1>5 DEF EspInv, TypeOK, TypeUart
<1>8. ultimo.r <= n /\ ultimo.conn <= n
  BY DEF EspInv, EventoInv
<1>9. ColaInv'
  <2>1. EnCola(Cola, n, ultimo, rotos)
    BY DEF EspInv, ColaInv
  <2>2. EnCola(Cola', r, ultimo, rotos)
    BY <1>2, <1>5, <1>6, <1>8, <2>1, Dominios, PideCola
  <2> QED BY <1>3, <1>4, <2>2 DEF ColaInv
<1>10. CuerpoInv'
  <2>1. ASSUME curNeed # 0
        PROVE  EnCuerpo(Cola', reqBuf, curNeed, curConn, r, ultimo, rotos)
    <3>1. EnCuerpo(Cola, reqBuf, curNeed, curConn, n, ultimo, rotos)
      BY <2>1 DEF EspInv, CuerpoInv
    <3>2. \A i \in Len(Cola) + 1 .. Len(Cola') :
            Cola'[i].t \in {"get", "len"} => Cola'[i].r > n
      <4>1. \A i \in Len(Cola) + 1 .. Len(Cola') :
              i \in {Len(Cola) + 1, Len(Cola) + 2, Len(Cola) + 3, Len(Cola) + 4, Len(Cola) + 5}
        <5>1. Len(Cola) \in Nat
          BY Dominios
        <5> QED BY <1>5, <5>1
      <4>2. /\ Txt.t \notin {"get", "len"} /\ Ipd(r).t \notin {"get", "len"}
            /\ Fin(r).t \notin {"get", "len"} /\ Len_(r, LargoCuerpo).r = r /\ Get(r).r = r
        BY DEF Txt, Ipd, Len_, Get, Fin
      <4>3. r > n
        BY <1>2
      <4> HIDE DEF r
      <4> QED BY <1>6, <4>1, <4>2, <4>3
    <3>3. Len(Cola) <= Len(Cola') /\ n <= r /\ r \in Nat
      BY <1>2, <1>5, Dominios
    <3> HIDE DEF r
    <3> QED BY <1>2, <1>5, <3>1, <3>2, <3>3, Dominios, AgregaCuerpo
  <2> QED BY <1>3, <1>4, <2>1 DEF EspInv, CuerpoInv, asm
<1> QED BY <1>7, <1>9, <1>10 DEF ColaCuerpo

(* The header ends with the piece just read: an earlier one would have     *)
(* been taken from the buffer then.                                        *)
LEMMA CabeceraFin ==
  ASSUME NEW b \in Seq(Piezas), NEW p \in Piezas, Cabeceras(b) = {},
         ipd_parse_header(Append(b, p)) # 0
  PROVE  ipd_parse_header(Append(b, p)) = Len(b) + 1 /\ p.t = "len"
<1> DEFINE c == Append(b, p)
<1>1. /\ Len(b) \in Nat /\ Len(c) = Len(b) + 1 /\ c[Len(b) + 1] = p
      /\ \A i \in 1 .. Len(b) : c[i] = b[i]
  OBVIOUS
<1> HIDE DEF c
<1>2. Cabeceras(c) # {} /\ ipd_parse_header(c) = 1 + CHOOSE i \in Cabeceras(c) : TRUE
  BY DEF ipd_parse_header, c
<1>3. ASSUME NEW i \in Cabeceras(c) PROVE i = Len(b) /\ p.t = "len"
  <2>1. /\ i \in 1 .. Len(c) - 1 /\ c[i].t = "ipd" /\ c[i + 1].t = "len"
        /\ \A j \in 1 .. i - 1 : c[j].t # "ipd"
    BY DEF Cabeceras
  <2>2. ASSUME i # Len(b) PROVE FALSE
    <3>1. i \in 1 .. Len(b) - 1 /\ i + 1 \in 1 .. Len(b) /\ i \in 1 .. Len(b)
      BY <1>1, <2>1, <2>2
    <3>2. \A j \in 1 .. i - 1 : c[j] = b[j]
      BY <1>1, <3>1
    <3>3. i \in Cabeceras(b)
      BY <1>1, <2>1, <3>1, <3>2 DEF Cabeceras
    <3> QED BY <3>3
  <2> QED BY <1>1, <2>1, <2>2
<1>4. (CHOOSE i \in Cabeceras(c) : TRUE) = Len(b) /\ p.t = "len"
  <2>1. (CHOOSE i \in Cabeceras(c) : TRUE) \in Cabeceras(c)
    BY <1>2
  <2> QED BY <1>3, <2>1
<1> DEFINE h == CHOOSE i \in Cabeceras(c) : TRUE
<1>5. ipd_parse_header(c) = 1 + h /\ h = Len(b)
  BY <1>2, <1>4
<1> HIDE DEF h
<1>6. ipd_parse_header(c) = Len(b) + 1
  BY <1>1, <1>5
<1> QED BY <1>4, <1>6 DEF c

LEMMA SinCabecera == Cabeceras(<<>>) = {}
BY DEF Cabeceras

(* What a piece that is read leaves. *)
LEMMA Leida ==
  ASSUME EspInv, NEW p, Lee(p)
  PROVE  /\ p \in Piezas /\ fifo' = Tail(fifo) /\ Tail(fifo) \o aire \in Seq(Piezas)
         /\ 1 \in 1 .. Len(Cola) /\ Cola[1] = p /\ Quita(Cola, Tail(fifo) \o aire, 1)
         /\ fifo' \in Seq(Piezas) /\ Len(fifo') <= FIFO
<1>1. fifo # <<>> /\ p = Head(fifo) /\ fifo' = Tail(fifo)
  BY DEF Lee
<1>2. /\ Tail(fifo) \in Seq(Piezas) /\ Len(Tail(fifo)) = Len(fifo) - 1
      /\ Tail(fifo) \o aire \in Seq(Piezas) /\ 1 \in 1 .. Len(Cola) /\ Cola[1] = p
      /\ Quita(Cola, Tail(fifo) \o aire, 1)
  BY <1>1, Dominios, LeeUna DEF Cola
<1>3. Len(fifo) <= FIFO /\ Len(fifo) \in Nat /\ p \in Piezas
  BY <1>1, Dominios DEF EspInv, TypeOK, TypeUart
<1> QED BY <1>1, <1>2, <1>3, EspAssumption

(* The header of a request: nothing older is on its way, and the payload   *)
(* of a whole one comes next.                                              *)
LEMMA EmpiezaCuerpo ==
  ASSUME NEW T \in Seq(Piezas), NEW U \in Seq(Piezas), 1 \in 1 .. Len(T), Quita(T, U, 1),
         NEW n \in Nat, NEW u \in Sucesos_, NEW rs, EnCola(T, n, u, rs), T[1].t = "len"
  PROVE  EnCuerpo(U, <<>>, T[1].n, T[1].r, n, u, rs)
<1> DEFINE c == T[1].r
<1>1. /\ Len(T) \in Nat /\ Len(U) \in Nat /\ Len(U) = Len(T) - 1
      /\ \A i \in 1 .. Len(U) : i + 1 \in 1 .. Len(T) /\ U[i] = T[i + 1] /\ 1 < i + 1
  BY DEF Quita
<1>2. c \in 1 .. n /\ c > u.conn /\ T[1].n \in 0 .. LargoMax
  <2>1. c \in Nat /\ T[1].n \in 0 .. LargoMax
    BY Numeros
  <2>2. c <= n /\ c > u.conn /\ u.conn \in Nat
    BY DEF EnCola, Piezas_, Sucesos_
  <2> QED BY <2>1, <2>2
<1>3. \A i \in 1 .. Len(U) :
        /\ U[i].t = "len" => U[i].r > c
        /\ U[i].t = "get" => U[i].r >= c
  <2>1. ASSUME NEW i \in 1 .. Len(U)
        PROVE  /\ U[i].t = "len" => c < U[i].r
               /\ U[i].t = "get" => c <= U[i].r
    BY <1>1 DEF EnCola, Orden
  <2> QED BY <2>1
<1>4. ASSUME c \notin rs
      PROVE  T[1].n = 2 /\ Len(U) >= 2 /\ U[1] = Get(c) /\ U[2] = Fin(c)
  <2>1. T[1].n = 2 /\ 3 <= Len(T) /\ T[2] = Get(c) /\ T[3] = Fin(c)
    BY <1>4 DEF EnCola, Enteras, LargoCuerpo
  <2>2. 1 \in 1 .. Len(U) /\ 2 \in 1 .. Len(U)
    BY <1>1, <2>1
  <2> QED BY <1>1, <2>1, <2>2
<1>5. Len(<<>>) = 0
  OBVIOUS
<1> QED BY <1>2, <1>3, <1>4, <1>5 DEF EnCuerpo

(* What a piece makes of the assembler that looks for a header. *)
LEMMA Ensambla ==
  ASSUME EspInv, NEW p, esp_poll_cabecera(p)
  PROVE  /\ Lee(p) /\ curNeed = 0 /\ Acumula(p) \in Seq(Piezas) /\ Len(Acumula(p)) <= REQBUF
         /\ \/ /\ reqBuf' = Acumula(p) /\ UNCHANGED <<curConn, curNeed, anunciado>>
               /\ Cabeceras(reqBuf') = {}
            \/ /\ Len(reqBuf) < REQBUF /\ p.t = "len"
               /\ reqBuf' = <<>> /\ curConn' = p.r /\ curNeed' = p.n
               /\ anunciado' = IF p.r \in rotos THEN p.n ELSE anunciado
<1> DEFINE buf == Acumula(p)  fin == ipd_parse_header(buf)
<1>1. /\ Lee(p) /\ curNeed = 0
      /\ IF fin # 0
         THEN /\ curConn' = buf[fin].r
              /\ curNeed' = Faltan(buf, fin)
              /\ reqBuf' = Compacta(buf, fin)
              /\ anunciado' = IF curConn' \in rotos THEN curNeed' ELSE anunciado
         ELSE reqBuf' = buf /\ UNCHANGED <<curConn, curNeed, anunciado>>
  BY DEF esp_poll_cabecera
<1>2. p \in Piezas
  BY <1>1, Leida
<1>3. /\ reqBuf \in Seq(Piezas) /\ Len(reqBuf) \in Nat /\ Len(reqBuf) <= REQBUF
      /\ Cabeceras(reqBuf) = {} /\ REQBUF \in Nat
  BY <1>1, Dominios, EspAssumption DEF EspInv, CuerpoInv, TypeOK, TypeAsm
<1>4. /\ buf \in Seq(Piezas) /\ Len(buf) <= REQBUF
      /\ buf = <<>> \/ (buf = Append(reqBuf, p) /\ Len(reqBuf) < REQBUF)
  <2>1. CASE Len(reqBuf) < REQBUF
    BY <1>2, <1>3, <2>1 DEF Acumula
  <2>2. CASE ~(Len(reqBuf) < REQBUF)
    BY <1>3, <2>2 DEF Acumula
  <2> QED BY <2>1, <2>2
<1> HIDE DEF buf
<1>5. CASE fin = 0
  <2>1. reqBuf' = buf /\ UNCHANGED <<curConn, curNeed, anunciado>>
    BY <1>1, <1>5
  <2>2. Cabeceras(buf) = {}
    <3>1. ASSUME Cabeceras(buf) # {} PROVE FALSE
      <4>1. (CHOOSE i \in Cabeceras(buf) : TRUE) \in Cabeceras(buf)
        BY <3>1
      <4>2. (CHOOSE i \in Cabeceras(buf) : TRUE) >= 1 /\ (CHOOSE i \in Cabeceras(buf) : TRUE) \in Int
        BY <4>1, <1>4 DEF Cabeceras
      <4> QED BY <1>5, <3>1, <4>2 DEF ipd_parse_header
    <3> QED BY <3>1
  <2> QED BY <1>1, <1>4, <2>1, <2>2 DEF buf
<1>6. CASE fin # 0
  <2>1. buf = Append(reqBuf, p) /\ Len(reqBuf) < REQBUF
    BY <1>4, <1>6, SinCabecera DEF ipd_parse_header
  <2>2. fin = Len(reqBuf) + 1 /\ p.t = "len"
    BY <1>2, <1>3, <1>6, <2>1, CabeceraFin
  <2>3. Len(buf) = Len(reqBuf) + 1 /\ buf[Len(reqBuf) + 1] = p
    BY <1>2, <1>3, <2>1
  <2>4. p.n \in 0 .. LargoMax
    BY <1>2 DEF Piezas
  <2>5. Faltan(buf, fin) = p.n /\ Compacta(buf, fin) = <<>>
    <3>1. Faltan(buf, fin) = p.n
      BY <1>3, <2>2, <2>3, <2>4, EspAssumption DEF Faltan
    <3>2. SubSeq(buf, Len(buf) + 1, Len(buf)) = <<>>
      BY <1>4
    <3> QED BY <2>2, <2>3, <3>1, <3>2 DEF Compacta
  <2>6. /\ curConn' = p.r /\ curNeed' = p.n /\ reqBuf' = <<>>
        /\ anunciado' = IF p.r \in rotos THEN p.n ELSE anunciado
    BY <1>1, <1>6, <2>2, <2>3, <2>5
  <2> QED BY <1>1, <1>4, <2>1, <2>2, <2>6 DEF buf
<1> QED BY <1>5, <1>6

LEMMA PasoCabecera ==
  ASSUME EspInv, NEW p, esp_poll_cabecera(p)
  PROVE  ColaCuerpo' /\ TypeAsm'
<1>1. /\ Lee(p) /\ curNeed = 0 /\ aire' = aire /\ pedidos' = pedidos
      /\ ultimo' = ultimo /\ rotos' = rotos
  BY DEF esp_poll_cabecera, Cuenta
<1>2. /\ p \in Piezas /\ Cola' \in Seq(Piezas) /\ 1 \in 1 .. Len(Cola) /\ Cola[1] = p
      /\ Quita(Cola, Cola', 1) /\ fifo' \in Seq(Piezas) /\ Len(fifo') <= FIFO
  BY <1>1, Leida DEF Cola
<1>3. TypeUart'
  BY <1>1, <1>2 DEF EspInv, TypeOK, TypeUart
<1>4. EnCola(Cola, Len(pedidos), ultimo, rotos)
  BY DEF EspInv, ColaInv
<1>5. ColaInv'
  <2>1. EnCola(Cola', Len(pedidos), ultimo, rotos)
    BY <1>2, <1>4, Dominios, QuitaCola
  <2> QED BY <1>1, <2>1 DEF ColaInv
<1>6. /\ Acumula(p) \in Seq(Piezas) /\ Len(Acumula(p)) <= REQBUF
      /\ \/ /\ reqBuf' = Acumula(p) /\ UNCHANGED <<curConn, curNeed, anunciado>>
            /\ Cabeceras(reqBuf') = {}
         \/ /\ Len(reqBuf) < REQBUF /\ p.t = "len"
            /\ reqBuf' = <<>> /\ curConn' = p.r /\ curNeed' = p.n
            /\ anunciado' = IF p.r \in rotos THEN p.n ELSE anunciado
  BY Ensambla
<1>7. CASE /\ reqBuf' = Acumula(p) /\ UNCHANGED <<curConn, curNeed, anunciado>>
           /\ Cabeceras(reqBuf') = {}
  <2>1. TypeAsm'
    BY <1>6, <1>7 DEF EspInv, TypeOK, TypeAsm
  <2>2. CuerpoInv'
    BY <1>1, <1>7 DEF CuerpoInv
  <2> QED BY <1>3, <1>5, <2>1, <2>2 DEF ColaCuerpo
<1>8. CASE /\ Len(reqBuf) < REQBUF /\ p.t = "len"
           /\ reqBuf' = <<>> /\ curConn' = p.r /\ curNeed' = p.n
           /\ anunciado' = IF p.r \in rotos THEN p.n ELSE anunciado
  <2>1. p.n \in 0 .. LargoMax /\ p.r \in 0 .. MaxPedidos
    BY <1>2 DEF Piezas
  <2>2. TypeAsm'
    BY <1>8, <2>1, EspAssumption DEF EspInv, TypeOK, TypeAsm
  <2>3. EnCuerpo(Cola', <<>>, p.n, p.r, Len(pedidos), ultimo, rotos)
    BY <1>2, <1>4, <1>8, Dominios, EmpiezaCuerpo
  <2>4. CuerpoInv'
    BY <1>1, <1>8, <2>3, SinCabecera DEF CuerpoInv
  <2> QED BY <1>3, <1>5, <2>2, <2>4 DEF ColaCuerpo
<1> QED BY <1>6, <1>7, <1>8

(* A piece of the payload is read. *)
Cabe(U, b, c, n, u) ==
  /\ c \in 1 .. n /\ c > u.conn
  /\ \A i \in 1 .. Len(U) :
       /\ U[i].t = "len" => U[i].r > c
       /\ U[i].t = "get" => U[i].r >= c
  /\ \A k \in 1 .. Len(b) : b[k].t = "get" =>
       /\ b[k].r >= c /\ b[k].r > u.r /\ b[k].r <= n
       /\ \A i \in 1 .. Len(U) : U[i].t = "get" => U[i].r > b[k].r

Entero(d, c) == Len(d) = 2 /\ d[1] = Get(c) /\ d[2] = Fin(c)

LEMMA SigueCuerpo ==
  ASSUME NEW T \in Seq(Piezas), NEW U \in Seq(Piezas), 1 \in 1 .. Len(T), Quita(T, U, 1),
         NEW n \in Nat, NEW u \in Sucesos_, NEW rs, EnCola(T, n, u, rs),
         NEW b \in Seq(Piezas), NEW need \in Nat \ {0}, NEW c,
         EnCuerpo(T, b, need, c, n, u, rs),
         NEW p, p = T[1], NEW d, d = Append(b, p) \/ (d = b /\ Len(b) > 1)
  PROVE  /\ Cabe(U, d, c, n, u)
         /\ need # 1 => EnCuerpo(U, d, need - 1, c, n, u, rs)
         /\ need = 1 /\ c \notin rs => Entero(d, c)
<1>1. /\ Len(T) \in Nat /\ Len(U) \in Nat /\ Len(U) = Len(T) - 1
      /\ \A i \in 1 .. Len(U) : i + 1 \in 1 .. Len(T) /\ U[i] = T[i + 1] /\ 1 < i + 1
  BY DEF Quita
<1>a. p \in Piezas
  BY Numeros
<1>2. /\ p \in Piezas /\ Len(b) \in Nat
      /\ \A k \in 1 .. Len(b) : d[k] = b[k]
      /\ \A k \in 1 .. Len(d) : k \in 1 .. Len(b) \/ (k = Len(b) + 1 /\ d[k] = p)
      /\ Len(b) <= 1 => d = Append(b, p) /\ Len(d) = Len(b) + 1 /\ d[Len(b) + 1] = p
  <2>1. Len(b) \in Nat
    OBVIOUS
  <2>2. CASE d = Append(b, p)
    BY <1>a, <2>1, <2>2
  <2>3. CASE d = b /\ Len(b) > 1
    BY <1>a, <2>1, <2>3
  <2> QED BY <2>2, <2>3
<1>3. c \in 1 .. n /\ c > u.conn
  BY DEF EnCuerpo
<1>4. \A i \in 1 .. Len(U) :
        /\ U[i].t = "len" => U[i].r > c
        /\ U[i].t = "get" => U[i].r >= c
  BY <1>1 DEF EnCuerpo
<1>5. p.t = "get" =>
        /\ p.r >= c /\ p.r > u.r /\ p.r <= n
        /\ \A i \in 1 .. Len(U) : U[i].t = "get" => U[i].r > p.r
  <2> SUFFICES ASSUME p.t = "get"
               PROVE  /\ p.r >= c /\ p.r > u.r /\ p.r <= n
                      /\ \A i \in 1 .. Len(U) : U[i].t = "get" => U[i].r > p.r
    OBVIOUS
  <2>1. p.r >= c
    BY DEF EnCuerpo
  <2>2. p.r > u.r /\ p.r <= n
    BY DEF EnCola, Piezas_
  <2>3. \A i \in 1 .. Len(U) : U[i].t = "get" => p.r < U[i].r
    BY <1>1 DEF EnCola, Orden
  <2> QED BY <2>1, <2>2, <2>3
<1>6. \A k \in 1 .. Len(b) : b[k].t = "get" =>
        /\ b[k].r >= c /\ b[k].r > u.r /\ b[k].r <= n
        /\ \A i \in 1 .. Len(U) : U[i].t = "get" => U[i].r > b[k].r
  BY <1>1 DEF EnCuerpo
<1>7. Cabe(U, d, c, n, u)
  <2>1. ASSUME NEW k \in 1 .. Len(d), d[k].t = "get"
        PROVE  /\ d[k].r >= c /\ d[k].r > u.r /\ d[k].r <= n
               /\ \A i \in 1 .. Len(U) : U[i].t = "get" => U[i].r > d[k].r
    <3>1. CASE k \in 1 .. Len(b)
      BY <1>2, <1>6, <2>1, <3>1
    <3>2. CASE k = Len(b) + 1 /\ d[k] = p
      BY <1>2, <1>5, <2>1, <3>2
    <3> QED BY <1>2, <3>1, <3>2
  <2> QED BY <1>3, <1>4, <2>1 DEF Cabe
<1>8. ASSUME need # 1 PROVE EnCuerpo(U, d, need - 1, c, n, u, rs)
  <2>1. ASSUME c \notin rs
        PROVE  need - 1 = 1 /\ d = <<Get(c)>> /\ Len(U) >= 1 /\ U[1] = Fin(c)
    <3>1. need = 2 /\ b = <<>> /\ Len(T) >= 2 /\ T[1] = Get(c) /\ T[2] = Fin(c)
      BY <1>8, <2>1 DEF EnCuerpo
    <3>2. 1 \in 1 .. Len(U)
      BY <1>1, <3>1
    <3>3. d = <<Get(c)>>
      BY <1>2, <3>1
    <3> QED BY <1>1, <3>1, <3>2, <3>3
  <2> QED BY <1>7, <2>1 DEF Cabe, EnCuerpo
<1>9. ASSUME need = 1, c \notin rs PROVE Entero(d, c)
  <2>1. b = <<Get(c)>> /\ p = Fin(c)
    BY <1>9 DEF EnCuerpo
  <2>2. Len(b) = 1 /\ b[1] = Get(c)
    BY <2>1
  <2> QED BY <1>2, <2>1, <2>2 DEF Entero
<1> QED BY <1>7, <1>8, <1>9

(* A set of numbers has a least one. *)
LEMMA Minimo ==
  ASSUME NEW S, S \subseteq Nat, S # {}
  PROVE  \E x \in S : \A y \in S : x <= y
<1>1. \E x \in S : \A y \in S : <<y, x>> \notin OpToRel(<, Nat)
  BY NatLessThanWellFounded, WFMin, Zenon
<1>2. \A x, y \in S : <<y, x>> \notin OpToRel(<, Nat) => ~(y < x)
  BY Zenon DEF OpToRel
<1>3. \A x, y \in S : ~(y < x) => x <= y
  OBVIOUS
<1>4. PICK x \in S : \A y \in S : <<y, x>> \notin OpToRel(<, Nat)
  BY <1>1, Zenon
<1> QED BY <1>2, <1>3, <1>4, Zenon

(* Of the requests in the buffer one comes first: the oldest of those with *)
(* the first command.                                                      *)
LEMMA ElegidoEs ==
  ASSUME pedidos \in Seq(Comandos), NEW b \in Seq(Piezas),
         Gets(b) \subseteq 1 .. Len(pedidos), Gets(b) # {}
  PROVE  Elegido(b) \in Gets(b)
<1> DEFINE G == Gets(b)
           C == {pedidos[r] : r \in G}
<1>1. \A r \in G : pedidos[r] \in Nat /\ r \in Nat
  <2> SUFFICES ASSUME NEW r \in G PROVE pedidos[r] \in Nat /\ r \in Nat
    OBVIOUS
  <2>1. r \in 1 .. Len(pedidos)
    OBVIOUS
  <2>2. pedidos[r] \in Comandos
    BY <2>1, EnSeq
  <2>3. Len(pedidos) \in Nat
    OBVIOUS
  <2>4. pedidos[r] \in Nat
    BY <2>2, EspAssumption
  <2>5. r \in Nat
    BY <2>1, <2>3
  <2> QED BY <2>4, <2>5
<1>2. G # {}
  OBVIOUS
<1> HIDE DEF G
<1>3. PICK m \in C : \A y \in C : m <= y
  <2>1. C \subseteq Nat /\ C # {}
    BY <1>1, <1>2
  <2> QED BY <2>1, Minimo
<1> DEFINE M == {r \in G : pedidos[r] = m}
<1>4. PICK r \in M : \A s \in M : r <= s
  <2>1. M \subseteq Nat /\ M # {}
    BY <1>1, <1>3
  <2> QED BY <2>1, Minimo
<1>5. ASSUME NEW s \in G
      PROVE  pedidos[r] < pedidos[s] \/ (pedidos[r] = pedidos[s] /\ r <= s)
  <2>1. pedidos[s] \in C /\ pedidos[r] = m /\ pedidos[s] \in Nat /\ m \in Nat
    BY <1>1, <1>3, <1>4
  <2>2. m <= pedidos[s]
    BY <1>3, <2>1
  <2> QED BY <1>4, <2>1, <2>2
<1>6. r \in G
  BY <1>4
<1> QED BY <1>5, <1>6 DEF Elegido, G

LEMMA PasoCuerpo ==
  ASSUME EspInv, NEW p, esp_poll_cuerpo(p)
  PROVE  /\ ColaCuerpo' /\ TypeAsm'
         /\ \/ pc' \in {"poll", "resto"} /\ UNCHANGED <<ev, ultimo>>
            \/ /\ pc' = "atiende" /\ ultimo' = ev'
               /\ ev' = [r |-> ev'.r, conn |-> curConn] /\ curNeed' = 0
               /\ ev'.r \in 1 .. Len(pedidos) /\ curConn \in 1 .. Len(pedidos)
               /\ ev'.r > ultimo.r /\ curConn > ultimo.conn /\ ev'.r >= curConn
               /\ curConn \notin rotos => ev'.r = curConn
<1> DEFINE buf == Guarda(p)  U == Tail(fifo) \o aire  n == Len(pedidos)
<1>1. /\ Lee(p) /\ curNeed # 0 /\ aire' = aire /\ pedidos' = pedidos /\ rotos' = rotos
  BY DEF esp_poll_cuerpo, Cuenta
<1>2. /\ p \in Piezas /\ U \in Seq(Piezas) /\ Cola' = U /\ 1 \in 1 .. Len(Cola)
      /\ Cola[1] = p /\ Quita(Cola, U, 1) /\ fifo' \in Seq(Piezas) /\ Len(fifo') <= FIFO
  BY <1>1, Leida DEF Cola
<1> HIDE DEF U
<1>3. TypeUart'
  BY <1>1, <1>2 DEF EspInv, TypeOK, TypeUart
<1>4. EnCola(Cola, n, ultimo, rotos)
  BY DEF EspInv, ColaInv
<1>5. EnCola(U, n, ultimo, rotos)
  BY <1>2, <1>4, Dominios, QuitaCola
<1>6. /\ EnCuerpo(Cola, reqBuf, curNeed, curConn, n, ultimo, rotos)
      /\ curNeed \in 1 .. LargoMax /\ curNeed \in Nat \ {0} /\ curConn \in 0 .. MaxPedidos
      /\ anunciado \in 0 .. LargoMax
  <2>1. curNeed \in 0 .. LargoMax /\ anunciado \in 0 .. LargoMax
    BY DEF EspInv, TypeOK, TypeAsm
  <2> QED BY <1>1, <2>1, EspAssumption DEF EspInv, CuerpoInv, TypeOK, TypeAsm
<1>7. /\ buf \in Seq(Piezas) /\ Len(buf) \in Nat /\ Len(buf) <= REQBUF
      /\ buf = Append(reqBuf, p) \/ (buf = reqBuf /\ Len(reqBuf) > 1)
  <2>1. reqBuf \in Seq(Piezas) /\ Len(reqBuf) \in Nat /\ Len(reqBuf) <= REQBUF
    BY Dominios DEF EspInv, TypeOK, TypeAsm
  <2>2. REQBUF \in Nat /\ REQBUF > 5
    BY EspAssumption DEF LargoCuerpo
  <2>3. CASE Len(reqBuf) < REQBUF
    BY <1>2, <2>1, <2>2, <2>3 DEF Guarda
  <2>4. CASE ~(Len(reqBuf) < REQBUF)
    BY <2>1, <2>2, <2>4 DEF Guarda
  <2> QED BY <2>3, <2>4
<1> HIDE DEF buf
<1>8. /\ Cabe(U, buf, curConn, n, ultimo)
      /\ curNeed # 1 => EnCuerpo(U, buf, curNeed - 1, curConn, n, ultimo, rotos)
      /\ curNeed = 1 /\ curConn \notin rotos => Entero(buf, curConn)
  <2>1. /\ Cola \in Seq(Piezas) /\ n \in Nat /\ ultimo \in Sucesos_ /\ reqBuf \in Seq(Piezas)
    BY Dominios
  <2> HIDE DEF n
  <2> QED BY <1>2, <1>4, <1>6, <1>7, <2>1, SigueCuerpo
<1>9. CASE curNeed # 1
  <2>1. reqBuf' = buf /\ curNeed' = curNeed - 1 /\ UNCHANGED <<pc, curConn, ev, ultimo, anunciado>>
    BY <1>9 DEF esp_poll_cuerpo, Cuenta, buf
  <2>2. ColaInv'
    BY <1>1, <1>2, <1>5, <2>1 DEF ColaInv
  <2>3. TypeAsm'
    BY <1>6, <1>7, <1>9, <2>1, EspAssumption DEF TypeAsm
  <2>4. CuerpoInv'
    BY <1>1, <1>2, <1>6, <1>8, <1>9, <2>1 DEF CuerpoInv
  <2> QED BY <1>1, <1>3, <2>1, <2>2, <2>3, <2>4 DEF ColaCuerpo, Lee
<1>10. CASE curNeed = 1
  <2>1. /\ reqBuf' = <<>> /\ curNeed' = 0 /\ curConn' = NadieMas /\ anunciado' = anunciado
        /\ IF Gets(buf) # {}
           THEN /\ pc' = "atiende"
                /\ ev' = [r |-> Elegido(buf), conn |-> curConn]
                /\ ultimo' = ev'
           ELSE pc' = "resto" /\ UNCHANGED <<ev, ultimo>>
    BY <1>10 DEF esp_poll_cuerpo, Cuenta, buf
  <2>2. TypeAsm'
    BY <1>6, <2>1, EspAssumption DEF TypeAsm, NadieMas
  <2>3. CuerpoInv'
    BY <2>1, SinCabecera DEF CuerpoInv
  <2>4. CASE Gets(buf) = {}
    <3>1. ColaInv'
      BY <1>1, <1>2, <1>5, <2>1, <2>4 DEF ColaInv
    <3> QED BY <1>3, <2>1, <2>2, <2>3, <2>4, <3>1 DEF ColaCuerpo
  <2>5. CASE Gets(buf) # {}
    <3> DEFINE e == Elegido(buf)
    <3>1. \A r \in Gets(buf) :
            /\ r \in 1 .. n /\ r >= curConn /\ r > ultimo.r
            /\ \A i \in 1 .. Len(U) : U[i].t = "get" => U[i].r > r
      <4> SUFFICES ASSUME NEW k \in 1 .. Len(buf), buf[k].t = "get"
                   PROVE  /\ buf[k].r \in 1 .. n /\ buf[k].r >= curConn /\ buf[k].r > ultimo.r
                          /\ \A i \in 1 .. Len(U) : U[i].t = "get" => U[i].r > buf[k].r
        BY DEF Gets
      <4>1. buf[k].r \in Nat
        BY <1>7, Numeros
      <4>2. /\ buf[k].r >= curConn /\ buf[k].r > ultimo.r /\ buf[k].r <= n
            /\ \A i \in 1 .. Len(U) : U[i].t = "get" => U[i].r > buf[k].r
        BY <1>8 DEF Cabe
      <4>3. ultimo.r \in Nat /\ n \in Nat
        BY Dominios DEF Sucesos_
      <4> QED BY <4>1, <4>2, <4>3
    <3>2. e \in Gets(buf)
      <4>1. pedidos \in Seq(Comandos)
        BY DEF EspInv, TypeOK, TypeUart
      <4>2. Gets(buf) \subseteq 1 .. Len(pedidos)
        BY <3>1
      <4> QED BY <1>7, <2>5, <4>1, <4>2, ElegidoEs
    <3>3. curConn \notin rotos => e = curConn
      <4> SUFFICES ASSUME curConn \notin rotos PROVE e = curConn
        OBVIOUS
      <4>1. Len(buf) = 2 /\ buf[1] = Get(curConn) /\ buf[2] = Fin(curConn)
        BY <1>8, <1>10 DEF Entero
      <4>2. \A k \in 1 .. Len(buf) : k = 1 \/ k = 2
        BY <4>1
      <4>3. \A r \in Gets(buf) : r = curConn
        BY <4>1, <4>2 DEF Gets, Get, Fin
      <4> QED BY <3>2, <4>3
    <3> HIDE DEF e
    <3>4. ultimo' = [r |-> e, conn |-> curConn]
      BY <2>1, <2>5 DEF e
    <3>5. EnCola(U, n, ultimo', rotos)
      <4>1. Piezas_(U, n, ultimo')
        BY <1>5, <1>8, <3>1, <3>2, <3>4 DEF EnCola, Piezas_, Cabe
      <4> QED BY <1>5, <4>1 DEF EnCola
    <3>6. ColaInv'
      BY <1>1, <1>2, <3>5 DEF ColaInv
    <3>7. /\ e \in 1 .. n /\ e >= curConn /\ e > ultimo.r
          /\ curConn \in 1 .. n /\ curConn > ultimo.conn
      BY <1>8, <3>1, <3>2 DEF Cabe
    <3>8. pc' = "atiende" /\ ultimo' = ev' /\ ev'.r = e
      BY <2>1, <2>5 DEF e
    <3> QED BY <1>3, <2>1, <2>2, <2>3, <3>3, <3>4, <3>6, <3>7, <3>8 DEF ColaCuerpo
  <2> QED BY <2>4, <2>5
<1> QED BY <1>9, <1>10

-----------------------------------------------------------------------------
(* The inductive invariant                                                 *)

Respuestas == [n : 0 .. ESPBUF, vista : {"toda", "mitad", "oculta"}]

LEMMA VaciaTipo == RespVacia \in Respuestas
BY EspAssumption DEF RespVacia, Respuestas

LEMMA EmpiezaInv ==
  ASSUME Init
  PROVE  EspInv
<1>1. {Txt, Ok, Prompt} \subseteq Piezas
  BY Sueltas
<1>2. TypeOK
  <2>1. fifo \in Seq(Piezas) /\ Len(fifo) <= FIFO
    <3>1. CASE fifo = <<>>
      BY <3>1, EspAssumption
    <3>2. CASE fifo = <<Ok>>
      BY <1>1, <3>2, EspAssumption
    <3> QED BY <3>1, <3>2 DEF Init
  <2>2. TypeUart /\ TypeAsm
    BY <2>1, EspAssumption DEF Init, TypeUart, TypeAsm, NadieMas
  <2>3. TypeControl
    <3>1. SinEvento \in [r : 0 .. MaxPedidos, conn : 0 .. MaxPedidos]
      BY EspAssumption DEF SinEvento
    <3>2. AT \in AT .. Listo
      BY DEF AT, Listo
    <3> QED BY <3>1, <3>2, VaciaTipo DEF Init, TypeControl, Respuestas
  <2> QED BY <2>2, <2>3 DEF TypeOK
<1>3. Cola = <<>> \/ Cola = <<Ok>>
  <2>1. aire = <<>> /\ fifo \in {<<>>, <<Ok>>}
    BY DEF Init
  <2>2. <<Ok>> \in Seq(Piezas)
    BY <1>1
  <2> QED BY <2>1, <2>2 DEF Cola
<1>4. ColaInv
  <2>1. CASE Cola = <<>>
    BY <2>1 DEF ColaInv, EnCola, Piezas_, Orden, Enteras
  <2>2. CASE Cola = <<Ok>>
    <3>1. /\ Len(Cola) = 1 /\ Cola[1].r = 0 /\ Cola[1].t = "ok" /\ Len(pedidos) = 0
          /\ \A i \in 1 .. 1 : i = 1
      BY <2>2 DEF Ok, Init
    <3>2. Piezas_(Cola, 0, ultimo) /\ Orden(Cola) /\ Enteras(Cola, rotos)
      BY <3>1 DEF Piezas_, Orden, Enteras
    <3> QED BY <3>1, <3>2 DEF ColaInv, EnCola
  <2> QED BY <1>3, <2>1, <2>2
<1>5. CuerpoInv
  BY SinCabecera DEF Init, CuerpoInv
<1>6. EventoInv
  BY DEF Init, EventoInv, SinEvento, AT, Listo
<1> QED BY <1>2, <1>4, <1>5, <1>6 DEF EspInv

(* The requests that lost a piece are requests that were sent. *)
LEMMA RompeTipo ==
  ASSUME EspInv, NEW r \in 0 .. MaxPedidos, Rompe(r)
  PROVE  /\ rotos' \subseteq 1 .. MaxPedidos /\ rotos \subseteq rotos' /\ ultimo' = ultimo
         /\ anunciado' \in {anunciado, curNeed}
<1>1. rotos \subseteq 1 .. MaxPedidos
  BY DEF EspInv, TypeOK, TypeControl
<1>2. CASE r = 0
  BY <1>1, <1>2 DEF Rompe
<1>3. CASE r # 0
  <2>1. r \in 1 .. MaxPedidos
    BY <1>3, EspAssumption
  <2> QED BY <1>1, <1>3, <2>1 DEF Rompe
<1> QED BY <1>2, <1>3

(* What esp_send_cmd keeps of a piece. *)
LEMMA AnotaTipo ==
  ASSUME EspInv, NEW p
  PROVE  Anota(p) \in Respuestas
<1>1. resp \in Respuestas
  BY DEF EspInv, TypeOK, TypeControl, Respuestas
<1>2. ESPBUF \in Nat /\ ESPBUF > 1 /\ resp.n \in 0 .. ESPBUF
  BY <1>1, EspAssumption DEF Respuestas
<1>3. (IF Lleno THEN ESPBUF \div 2 + 1 ELSE resp.n + 1) \in 0 .. ESPBUF
  <2>1. ESPBUF \div 2 + 1 \in 0 .. ESPBUF
    BY <1>2
  <2> QED BY <1>2, <2>1 DEF Lleno
<1>4. (IF p.t = Esperado THEN "oculta" ELSE IF Lleno THEN "mitad" ELSE resp.vista)
        \in {"toda", "mitad", "oculta"}
  BY <1>1 DEF Respuestas
<1> QED BY <1>3, <1>4 DEF Anota, Respuestas

(* A piece is read, and perhaps another one written, while no payload is   *)
(* awaited.                                                                *)
LEMMA PasoConsume ==
  ASSUME EspInv, Consume, pc \in {"main", "init", "cmd"},
         aire' = aire \/ \E x \in {Txt, Ok, Prompt} : aire' = Append(aire, x),
         UNCHANGED <<asm, pedidos>>
  PROVE  /\ ColaCuerpo' /\ TypeAsm'
         /\ rotos' \subseteq 1 .. MaxPedidos /\ ultimo' = ultimo /\ curNeed' = 0
<1>1. /\ fifo # <<>> /\ fifo' = Tail(fifo) /\ Rompe(Head(fifo).r) /\ curNeed = 0
  BY DEF Consume, EspInv, EventoInv
<1>2. Head(fifo).r \in 0 .. MaxPedidos
  <2>1. Head(fifo) \in Piezas
    BY <1>1, Dominios
  <2> QED BY <2>1 DEF Piezas
<1>3. /\ rotos' \subseteq 1 .. MaxPedidos /\ rotos \subseteq rotos' /\ ultimo' = ultimo
      /\ anunciado' \in {anunciado, curNeed}
  BY <1>1, <1>2, RompeTipo
<1>4. ColaCuerpo'
  BY <1>1, <1>3, Lectura
<1> QED BY <1>1, <1>3, <1>4 DEF EspInv, TypeOK, TypeAsm, asm

LEMMA PasoOlvida ==
  ASSUME EspInv, Olvida, pc \in {"init", "cmd"}
  PROVE  EspInv'
<1>1. /\ Consume /\ resp' = Anota(Head(fifo))
      /\ UNCHANGED <<pc, asm, ev, aire, pedidos, arranque>>
  BY DEF Olvida
<1>2. /\ ColaCuerpo' /\ TypeAsm'
      /\ rotos' \subseteq 1 .. MaxPedidos /\ ultimo' = ultimo /\ curNeed' = 0
  BY <1>1, PasoConsume
<1>3. resp' \in Respuestas
  BY <1>1, AnotaTipo
<1>4. TypeControl' /\ EventoInv'
  BY <1>1, <1>2, <1>3 DEF EspInv, TypeOK, TypeControl, EventoInv, arranque, Respuestas
<1> QED BY <1>2, <1>4 DEF ColaCuerpo, EspInv, TypeOK

(* A command of esp_init_ap_server. *)
LEMMA PasoManda ==
  ASSUME EspInv, NEW k \in AT .. Listo, Manda(k), pc \in {"main", "init"}, puntual' \in BOOLEAN,
         resp' = RespVacia, UNCHANGED <<fifo, historia>> \/ Consume
  PROVE  EspInv'
<1>1. /\ orden' = k /\ pc' = IF k = Listo THEN "resto" ELSE "init"
      /\ (aire' = aire \/ aire' = Append(aire, Ok))
      /\ modulo' \in {modulo, "mux", "servidor"} /\ UNCHANGED <<asm, ev, pedidos>>
  BY DEF Manda
<1>2. ev = SinEvento /\ curNeed = 0
  BY DEF EspInv, EventoInv
<1>3. /\ ColaCuerpo' /\ TypeAsm'
      /\ rotos' \subseteq 1 .. MaxPedidos /\ ultimo' = ultimo /\ curNeed' = 0
  <2>1. CASE UNCHANGED <<fifo, historia>>
    <3>1. TypeAsm' /\ rotos' \subseteq 1 .. MaxPedidos /\ ultimo' = ultimo /\ curNeed' = 0
      BY <1>1, <1>2, <2>1 DEF EspInv, TypeOK, TypeAsm, TypeControl, asm, historia
    <3>2. CASE aire' = aire
      BY <1>1, <2>1, <3>1, <3>2, Igual DEF historia, linea
    <3>3. CASE aire' = Append(aire, Ok)
      BY <1>1, <2>1, <3>1, <3>3, Agrega DEF historia
    <3> QED BY <1>1, <3>1, <3>2, <3>3
  <2>2. CASE Consume
    <3>1. aire' = aire \/ \E x \in {Txt, Ok, Prompt} : aire' = Append(aire, x)
      BY <1>1
    <3> QED BY <1>1, <2>2, <3>1, PasoConsume
  <2> QED BY <2>1, <2>2
<1>4. TypeControl'
  <2>1. modulo' \in {"nada", "mux", "servidor"} /\ pc' \in {"resto", "init"}
    BY <1>1 DEF EspInv, TypeOK, TypeControl
  <2>2. resp' \in Respuestas
    BY VaciaTipo
  <2> QED BY <1>1, <1>3, <2>1, <2>2 DEF EspInv, TypeOK, TypeControl, Respuestas
<1>5. EventoInv'
  BY <1>1, <1>2, <1>3 DEF EspInv, EventoInv, RespVacia
<1> QED BY <1>3, <1>4, <1>5 DEF ColaCuerpo, EspInv, TypeOK

LEMMA PasoArranque ==
  ASSUME EspInv, esp_init_ap_server
  PROVE  EspInv'
<1>0. orden \in AT .. Listo /\ puntual \in BOOLEAN
  BY DEF EspInv, TypeOK, TypeControl
<1>a. CASE esp_init_vacia
  <2>1. pc = "main" /\ Consume /\ UNCHANGED <<pc, asm, resp, ev, aire, pedidos, arranque>>
    BY <1>a DEF esp_init_vacia
  <2>2. /\ ColaCuerpo' /\ TypeAsm'
        /\ rotos' \subseteq 1 .. MaxPedidos /\ ultimo' = ultimo /\ curNeed' = 0
    BY <2>1, PasoConsume
  <2>3. TypeControl' /\ EventoInv'
    BY <2>1, <2>2 DEF EspInv, TypeOK, TypeControl, EventoInv, arranque, RespVacia
  <2> QED BY <2>2, <2>3 DEF ColaCuerpo, EspInv, TypeOK
<1>1. CASE esp_init_limpia
  <2>1. /\ pc = "main" /\ Manda(AT) /\ resp' = RespVacia /\ puntual' = puntual
        /\ UNCHANGED <<fifo, historia>>
    BY <1>1 DEF esp_init_limpia, EspInv, EventoInv
  <2>2. AT \in AT .. Listo
    BY DEF AT, Listo
  <2> QED BY <1>0, <2>1, <2>2, PasoManda
<1>2. CASE esp_init_ok
  <2> DEFINE k == IF orden < CWMODE THEN CWMODE ELSE orden + 1
  <2>1. orden # Listo
    BY <1>2 DEF esp_init_ok, EspInv, EventoInv
  <2>2. k \in AT .. Listo
    BY <1>0, <2>1 DEF AT, Listo, CWMODE
  <2>3. pc = "init" /\ Manda(k) /\ puntual' = puntual /\ Consume /\ resp' = RespVacia
    BY <1>2 DEF esp_init_ok, Encuentra
  <2> HIDE DEF k
  <2> QED BY <1>0, <2>2, <2>3, PasoManda
<1>3. CASE esp_init_vence
  <2>1. TrasVencer(orden) \in AT .. Listo
    BY <1>0 DEF TrasVencer, AT, Listo, CWMODE
  <2>2. /\ pc = "init" /\ Manda(TrasVencer(orden)) /\ puntual' = FALSE /\ resp' = RespVacia
        /\ UNCHANGED <<fifo, historia>>
    BY <1>3 DEF esp_init_vence, Vence
  <2> QED BY <2>1, <2>2, PasoManda
<1>4. CASE pc = "init" /\ Olvida
  BY <1>4, PasoOlvida
<1> QED BY <1>a, <1>1, <1>2, <1>3, <1>4 DEF esp_init_ap_server

LEMMA PasoModulo ==
  ASSUME EspInv, Modulo
  PROVE  EspInv'
<1>1. CASE Pedir
  <2>1. PICK c \in Comandos : pedidos' = Append(pedidos, c)
    BY <1>1 DEF Pedir
  <2>2. pedidos \in Seq(Comandos)
    BY DEF EspInv, TypeOK, TypeUart
  <2>3. Len(pedidos') = Len(pedidos) + 1 /\ Len(pedidos) \in Nat
    BY <2>1, <2>2
  <2>4. ColaCuerpo' /\ UNCHANGED <<pc, asm, resp, ev, arranque, historia>>
    BY <1>1, PasoPedir DEF Pedir
  <2>5. TypeAsm' /\ TypeControl'
    BY <2>4 DEF EspInv, TypeOK, TypeAsm, TypeControl, asm, arranque, historia
  <2>6. EventoInv'
    <3>1. ultimo \in Sucesos_
      BY Dominios
    <3> QED BY <2>3, <2>4, <3>1 DEF EspInv, EventoInv, asm, arranque, historia, Sucesos_
  <2> QED BY <2>4, <2>5, <2>6 DEF ColaCuerpo, EspInv, TypeOK
<1>2. CASE Llega
  <2>1. ColaCuerpo' /\ UNCHANGED <<pc, asm, resp, ev, pedidos, arranque, historia>>
    BY <1>2, PasoLlega DEF Llega
  <2> QED BY <2>1 DEF ColaCuerpo, EspInv, TypeOK, TypeAsm, TypeControl, EventoInv, asm, arranque, historia
<1>3. CASE Desborda \/ Mutila
  <2>1. /\ ColaCuerpo' /\ aire # <<>> /\ Rompe(Head(aire).r)
        /\ UNCHANGED <<pc, asm, resp, ev, pedidos, arranque>>
    BY <1>3, PasoDesborda, PasoMutila DEF Desborda, Mutila, Pierde
  <2>2. Head(aire).r \in 0 .. MaxPedidos
    <3>1. Head(aire) \in Piezas
      BY <2>1, Dominios
    <3> QED BY <3>1 DEF Piezas
  <2>3. /\ rotos' \subseteq 1 .. MaxPedidos /\ ultimo' = ultimo
        /\ anunciado' \in {anunciado, curNeed}
    BY <2>1, <2>2, RompeTipo
  <2> QED BY <2>1, <2>3
          DEF ColaCuerpo, EspInv, TypeOK, TypeAsm, TypeControl, EventoInv, asm, arranque
<1> QED BY <1>1, <1>2, <1>3 DEF Modulo

LEMMA PasoPoll ==
  ASSUME EspInv, esp_poll
  PROVE  EspInv'
<1>1. ASSUME NEW p, esp_poll_cabecera(p) PROVE EspInv'
  <2>1. ColaCuerpo' /\ TypeAsm'
    BY <1>1, PasoCabecera
  <2>2. pc = "poll" /\ UNCHANGED <<pc, resp, ev, pedidos, arranque, rotos, ultimo>>
    BY <1>1 DEF esp_poll_cabecera, Lee, Cuenta
  <2>3. TypeControl' /\ EventoInv'
    BY <2>2 DEF EspInv, TypeOK, TypeControl, EventoInv, arranque
  <2> QED BY <2>1, <2>3 DEF ColaCuerpo, EspInv, TypeOK
<1>2. ASSUME NEW p, esp_poll_cuerpo(p) PROVE EspInv'
  <2>1. /\ ColaCuerpo' /\ TypeAsm'
        /\ \/ pc' \in {"poll", "resto"} /\ UNCHANGED <<ev, ultimo>>
           \/ /\ pc' = "atiende" /\ ultimo' = ev' /\ curNeed' = 0
              /\ ev' = [r |-> ev'.r, conn |-> curConn]
              /\ ev'.r \in 1 .. Len(pedidos) /\ curConn \in 1 .. Len(pedidos)
    BY <1>2, PasoCuerpo
  <2>2. pc = "poll" /\ UNCHANGED <<resp, pedidos, arranque, rotos>>
    BY <1>2 DEF esp_poll_cuerpo, Lee, Cuenta
  <2>3. CASE pc' \in {"poll", "resto"} /\ UNCHANGED <<ev, ultimo>>
    BY <2>1, <2>2, <2>3 DEF ColaCuerpo, EspInv, TypeOK, TypeControl, EventoInv, arranque
  <2>4. CASE /\ pc' = "atiende" /\ ultimo' = ev' /\ curNeed' = 0
             /\ ev' = [r |-> ev'.r, conn |-> curConn]
             /\ ev'.r \in 1 .. Len(pedidos) /\ curConn \in 1 .. Len(pedidos)
    <3>1. Len(pedidos) <= MaxPedidos /\ Len(pedidos) \in Nat
      BY Dominios DEF EspInv, TypeOK, TypeUart
    <3>2. PICK r, c : r = ev'.r /\ c = curConn
      OBVIOUS
    <3>3. /\ r \in 1 .. Len(pedidos) /\ c \in 1 .. Len(pedidos)
          /\ r \in 0 .. MaxPedidos /\ c \in 0 .. MaxPedidos
      BY <2>4, <3>1, <3>2, EspAssumption
    <3>4. ev' = [r |-> r, conn |-> c] /\ ultimo' = [r |-> r, conn |-> c]
      BY <2>4, <3>2
    <3>5. TypeControl'
      BY <2>2, <2>4, <3>3, <3>4 DEF EspInv, TypeOK, TypeControl, arranque
    <3>6. EventoInv'
      BY <2>2, <2>4, <3>3, <3>4 DEF EspInv, EventoInv, arranque, RespVacia
    <3> QED BY <2>1, <3>5, <3>6 DEF ColaCuerpo, EspInv, TypeOK
  <2> QED BY <2>1, <2>3, <2>4
<1>3. CASE esp_poll_vacio
  <2>1. pc = "poll" /\ pc' = "resto" /\ UNCHANGED <<asm, resp, ev, linea, pedidos, arranque, historia>>
    BY <1>3 DEF esp_poll_vacio
  <2>2. ColaCuerpo'
    BY <2>1, Igual DEF historia
  <2> QED BY <2>1, <2>2
          DEF ColaCuerpo, EspInv, TypeOK, TypeAsm, TypeControl, EventoInv, asm, arranque, historia
<1> QED BY <1>1, <1>2, <1>3 DEF esp_poll

LEMMA PasoHandler ==
  ASSUME EspInv, esp_handler
  PROVE  EspInv'
<1>1. CASE esp_send_http_ok
  <2>1. /\ pc = "atiende" /\ pc' = "cmd" /\ aire' = Append(aire, Prompt)
        /\ UNCHANGED <<asm, resp, ev, fifo, pedidos, arranque, historia>>
    BY <1>1 DEF esp_send_http_ok
  <2>2. ColaCuerpo'
    BY <2>1, Agrega DEF historia
  <2> QED BY <2>1, <2>2
          DEF ColaCuerpo, EspInv, TypeOK, TypeAsm, TypeControl, EventoInv, asm, arranque, historia, RespVacia
<1>2. CASE esp_send_cmd_prompt
  <2>1. /\ pc = "cmd" /\ pc' = "cierra" /\ Consume /\ resp' = RespVacia
        /\ aire' = Append(aire, Txt) /\ UNCHANGED <<asm, ev, pedidos, arranque>>
    BY <1>2 DEF esp_send_cmd_prompt, Encuentra
  <2>2. /\ ColaCuerpo' /\ TypeAsm'
        /\ rotos' \subseteq 1 .. MaxPedidos /\ ultimo' = ultimo /\ curNeed' = 0
    BY <2>1, PasoConsume
  <2>3. resp' \in Respuestas
    BY <2>1, VaciaTipo
  <2>4. TypeControl' /\ EventoInv'
    BY <2>1, <2>2, <2>3
       DEF EspInv, TypeOK, TypeControl, EventoInv, arranque, Respuestas, RespVacia
  <2> QED BY <2>2, <2>4 DEF ColaCuerpo, EspInv, TypeOK
<1>3. CASE esp_send_cmd_vence
  <2>1. /\ pc = "cmd" /\ pc' = "cierra" /\ resp' = RespVacia
        /\ UNCHANGED <<asm, ev, linea, pedidos, arranque, historia>>
    BY <1>3 DEF esp_send_cmd_vence, Vence, linea
  <2>2. ColaCuerpo'
    BY <2>1, Igual DEF historia
  <2>3. resp' \in Respuestas
    BY <2>1, VaciaTipo
  <2>4. TypeAsm' /\ TypeControl' /\ EventoInv'
    BY <2>1, <2>3 DEF EspInv, TypeOK, TypeAsm, TypeControl, EventoInv, asm, arranque, historia,
                      Respuestas, RespVacia
  <2> QED BY <2>2, <2>4 DEF ColaCuerpo, EspInv, TypeOK
<1>4. CASE esp_close_conn
  <2>1. /\ pc = "cierra" /\ pc' = "resto" /\ aire' = Append(aire, Txt) /\ ev' = SinEvento
        /\ UNCHANGED <<asm, resp, fifo, pedidos, arranque, historia>>
    BY <1>4 DEF esp_close_conn
  <2>2. ColaCuerpo'
    BY <2>1, Agrega DEF historia
  <2>3. SinEvento \in [r : 0 .. MaxPedidos, conn : 0 .. MaxPedidos]
    BY EspAssumption DEF SinEvento
  <2> QED BY <2>1, <2>2, <2>3
          DEF ColaCuerpo, EspInv, TypeOK, TypeAsm, TypeControl, EventoInv, asm, arranque, historia, RespVacia
<1>5. CASE pc = "cmd" /\ Olvida
  BY <1>5, PasoOlvida
<1> QED BY <1>1, <1>2, <1>3, <1>4, <1>5 DEF esp_handler

LEMMA Inductiva ==
  ASSUME EspInv, [Next]_vars
  PROVE  EspInv'
<1>1. CASE resto
  <2>1. /\ pc = "resto" /\ pc' = "poll" /\ puntual' = FALSE
        /\ UNCHANGED <<asm, resp, ev, linea, pedidos, orden, modulo, historia>>
    BY <1>1 DEF resto
  <2>2. ColaCuerpo'
    BY <2>1, Igual DEF historia
  <2> QED BY <2>1, <2>2
          DEF ColaCuerpo, EspInv, TypeOK, TypeAsm, TypeControl, EventoInv, asm, historia, RespVacia
<1>2. CASE UNCHANGED vars
  <2>1. UNCHANGED <<pc, asm, resp, ev, linea, pedidos, arranque, historia>>
    BY <1>2 DEF vars
  <2>2. ColaCuerpo'
    BY <2>1, Igual DEF historia
  <2> QED BY <2>1, <2>2
          DEF ColaCuerpo, EspInv, TypeOK, TypeAsm, TypeControl, EventoInv, asm, arranque, historia, RespVacia
<1> QED BY <1>1, <1>2, PasoArranque, PasoModulo, PasoPoll, PasoHandler DEF Next

(* The pieces of the requests keep their order and whole requests stay in  *)
(* one piece, on the line and in the assembler (esp8266_at.c:290-330).     *)
THEOREM Orden_ == Spec => []EspInv
<1>1. Init => EspInv
  BY EmpiezaInv
<1>2. EspInv /\ [Next]_vars => EspInv'
  BY Inductiva
<1> QED BY <1>1, <1>2, PTL DEF Spec

(* Every variable keeps its type; in particular the payload awaited is     *)
(* never negative (esp8266_at.c:308-325).                                  *)
THEOREM Tipos == Spec => []TypeOK
<1>1. EspInv => TypeOK
  BY DEF EspInv
<1> QED BY <1>1, Orden_, PTL

-----------------------------------------------------------------------------
(* The link implements Enlace                                              *)

(* What loses a piece is a request that was sent. *)
LEMMA RompeEnlace ==
  ASSUME EspInv, NEW k \in 1 .. Len(Cola), Rompe(Cola[k].r), UNCHANGED <<pedidos, ev>>
  PROVE  [E!EnlaceNext]_(E!enlace)
<1> DEFINE r == Cola[k].r
<1>1. r \in Nat /\ r <= Len(pedidos) /\ Len(pedidos) \in Nat
  <2>1. Cola \in Seq(Piezas) /\ Len(pedidos) \in Nat
    BY Dominios
  <2>2. r <= Len(pedidos)
    BY DEF EspInv, ColaInv, EnCola, Piezas_
  <2> QED BY <2>1, <2>2, Numeros
<1> HIDE DEF r
<1>2. CASE r = 0
  <2>1. UNCHANGED <<pedidos, rotos, ev, ultimo>>
    BY <1>2 DEF Rompe, r
  <2> QED BY <2>1 DEF E!enlace
<1>3. CASE r # 0
  <2>1. r \in 1 .. Len(pedidos)
    BY <1>1, <1>3
  <2>2. rotos' = rotos \cup {r} /\ ultimo' = ultimo
    BY <1>3 DEF Rompe, r
  <2>3. E!Estropear(r)
    BY <2>2 DEF E!Estropear
  <2> QED BY <2>1, <2>3 DEF E!EnlaceNext
<1> QED BY <1>2, <1>3

LEMMA PasoEnlace ==
  ASSUME EspInv, [Next]_vars
  PROVE  [E!EnlaceNext]_(E!enlace)
<1>1. ASSUME UNCHANGED <<pedidos, rotos, ev, ultimo>>
      PROVE  [E!EnlaceNext]_(E!enlace)
  BY <1>1 DEF E!enlace
<1>2. ASSUME Consume, UNCHANGED <<pedidos, ev>> PROVE [E!EnlaceNext]_(E!enlace)
  <2>1. fifo # <<>> /\ Rompe(Head(fifo).r)
    BY <1>2 DEF Consume
  <2>2. 1 \in 1 .. Len(Cola) /\ Cola[1] = Head(fifo)
    BY <2>1, Dominios, LeeUna DEF Cola
  <2> QED BY <1>2, <2>1, <2>2, RompeEnlace
<1>3. ASSUME NEW k, Manda(k), Consume \/ UNCHANGED historia PROVE [E!EnlaceNext]_(E!enlace)
  <2>1. UNCHANGED <<pedidos, ev>>
    BY <1>3 DEF Manda
  <2> QED BY <1>1, <1>2, <1>3, <2>1 DEF historia
<1>a. ASSUME Olvida PROVE [E!EnlaceNext]_(E!enlace)
  BY <1>2, <1>a DEF Olvida
<1>4. CASE esp_init_ap_server
  <2>1. CASE esp_init_vacia
    BY <1>2, <2>1 DEF esp_init_vacia
  <2>2. CASE esp_init_limpia
    BY <1>3, <2>2 DEF esp_init_limpia
  <2>3. CASE esp_init_ok
    BY <1>3, <2>3 DEF esp_init_ok, Encuentra
  <2>4. CASE esp_init_vence
    BY <1>3, <2>4 DEF esp_init_vence, Vence
  <2> QED BY <1>4, <1>a, <2>1, <2>2, <2>3, <2>4 DEF esp_init_ap_server
<1>5. CASE Pedir
  <2>1. PICK c \in Comandos : pedidos' = Append(pedidos, c)
    BY <1>5 DEF Pedir
  <2>2. Len(pedidos') = Len(pedidos) + 1
    BY <2>1 DEF EspInv, TypeOK, TypeUart
  <2>3. UNCHANGED <<rotos, ev, ultimo>>
    BY <1>5 DEF Pedir, historia
  <2> QED BY <2>2, <2>3 DEF E!Enviar, E!EnlaceNext
<1>6. CASE Llega \/ resto \/ esp_poll_vacio
  BY <1>1, <1>6 DEF Llega, resto, esp_poll_vacio, historia
<1>7. CASE Desborda \/ Mutila
  <2>1. aire # <<>> /\ Rompe(Head(aire).r) /\ UNCHANGED <<pedidos, ev>>
    BY <1>7 DEF Desborda, Mutila, Pierde
  <2>2. Len(fifo) + 1 \in 1 .. Len(Cola) /\ Cola[Len(fifo) + 1] = Head(aire)
    BY <2>1, Dominios, PasaUna DEF Cola
  <2> QED BY <2>1, <2>2, RompeEnlace
<1>8. ASSUME NEW p, esp_poll_cabecera(p) PROVE [E!EnlaceNext]_(E!enlace)
  BY <1>1, <1>8 DEF esp_poll_cabecera, Cuenta
<1>9. ASSUME NEW p, esp_poll_cuerpo(p) PROVE [E!EnlaceNext]_(E!enlace)
  <2>1. pc = "poll" /\ pedidos' = pedidos /\ rotos' = rotos
    BY <1>9 DEF esp_poll_cuerpo, Lee, Cuenta
  <2>2. CASE UNCHANGED <<ev, ultimo>>
    BY <1>1, <2>1, <2>2
  <2>3. CASE /\ ultimo' = ev' /\ ev' = [r |-> ev'.r, conn |-> curConn]
             /\ ev'.r \in 1 .. Len(pedidos) /\ curConn \in 1 .. Len(pedidos)
             /\ ev'.r > ultimo.r /\ curConn > ultimo.conn /\ ev'.r >= curConn
             /\ curConn \notin rotos => ev'.r = curConn
    <3>1. PICK e : e = ev'
      OBVIOUS
    <3>2. e \in E!Sucesos /\ e.conn = curConn
      BY <2>3, <3>1 DEF E!Sucesos
    <3>3. ev = E!Libre
      BY <2>1 DEF EspInv, EventoInv, SinEvento, E!Libre
    <3>4. E!Atender(e)
      BY <2>1, <2>3, <3>1, <3>2, <3>3 DEF E!Atender
    <3> QED BY <3>2, <3>4 DEF E!EnlaceNext
  <2> QED BY <1>9, <2>2, <2>3, PasoCuerpo
<1>10. CASE esp_handler
  <2>1. CASE esp_close_conn
    <3>1. ev # E!Libre /\ ev' = E!Libre /\ UNCHANGED <<pedidos, rotos, ultimo>>
      BY <2>1 DEF esp_close_conn, EspInv, EventoInv, SinEvento, E!Libre, historia
    <3> QED BY <3>1 DEF E!Terminar, E!EnlaceNext
  <2>2. CASE esp_send_http_ok \/ esp_send_cmd_vence
    BY <1>1, <2>2 DEF esp_send_http_ok, esp_send_cmd_vence, Vence, historia
  <2>3. CASE esp_send_cmd_prompt
    BY <1>2, <2>3 DEF esp_send_cmd_prompt, Encuentra
  <2> QED BY <1>a, <1>10, <2>1, <2>2, <2>3 DEF esp_handler
<1>11. CASE UNCHANGED vars
  BY <1>1, <1>11 DEF vars, historia
<1> QED BY <1>4, <1>5, <1>6, <1>7, <1>8, <1>9, <1>10, <1>11 DEF Next, Modulo, esp_poll

(* Requests are executed in their order and at most once, whatever rests of *)
(* earlier ones are in the buffer, and a whole one whose header was         *)
(* recognised is the one that is executed and answered                      *)
(* (esp8266_at.c:304-341).                                                  *)
THEOREM Enlaza == Spec => CumpleEnlace
<1>1. Init => E!EnlaceInit
  BY DEF Init, E!EnlaceInit, SinEvento, E!Libre
<1>2. EspInv /\ [Next]_vars => [E!EnlaceNext]_(E!enlace)
  BY PasoEnlace
<1> QED BY <1>1, <1>2, Orden_, PTL DEF Spec, CumpleEnlace, E!EnlaceSpec

-----------------------------------------------------------------------------
(* The OK that is read is the answer to the command that waits             *)

SinOk(T) == \A i \in 1 .. Len(T) : T[i].t # "ok"
UnOk(T) == \A i, j \in 1 .. Len(T) : T[i].t = "ok" /\ T[j].t = "ok" => i = j

(* What the module did, if it answered the command k. *)
Hecho(k) == /\ k = CIPMUX => modulo # "nada"
            /\ k = CIPSERVER => modulo = "servidor"

RespuestaInv == puntual =>
  /\ pc = "main" => SinOk(aire)
  /\ pc = "init" => /\ UnOk(Cola) /\ (SinOk(Cola) \/ Hecho(orden))
                    /\ orden > CIPMUX => modulo # "nada"
                    /\ resp.vista = "oculta" => SinOk(Cola) /\ Hecho(orden)
  /\ orden = Listo => modulo = "servidor"

LEMMA QuitaOk ==
  ASSUME NEW T \in Seq(Piezas), NEW U \in Seq(Piezas), NEW k \in 1 .. Len(T), Quita(T, U, k)
  PROVE  /\ SinOk(T) => SinOk(U)
         /\ UnOk(T) => UnOk(U)
         /\ T[k].t = "ok" /\ UnOk(T) => SinOk(U)
<1> DEFINE f(i) == IF i < k THEN i ELSE i + 1
<1>1. /\ Len(T) \in Nat /\ Len(U) \in Nat /\ Len(U) = Len(T) - 1 /\ k \in Nat
      /\ \A i \in 1 .. Len(U) : f(i) \in 1 .. Len(T) /\ f(i) # k /\ U[i] = T[f(i)]
      /\ \A i, j \in 1 .. Len(U) : f(i) = f(j) => i = j
  BY DEF Quita
<1> HIDE DEF f
<1>2. SinOk(T) => SinOk(U)
  BY <1>1 DEF SinOk
<1>3. UnOk(T) => UnOk(U)
  BY <1>1 DEF UnOk
<1>4. T[k].t = "ok" /\ UnOk(T) => SinOk(U)
  BY <1>1 DEF UnOk, SinOk
<1> QED BY <1>2, <1>3, <1>4

(* The pieces that come last are no OK. *)
LEMMA CreceOk ==
  ASSUME NEW T \in Seq(Piezas), NEW U \in Seq(Piezas), Len(T) <= Len(U),
         \A i \in 1 .. Len(T) : U[i] = T[i],
         \A i \in Len(T) + 1 .. Len(U) : U[i].t # "ok"
  PROVE  (SinOk(T) => SinOk(U)) /\ (UnOk(T) => UnOk(U))
<1>1. \A i \in 1 .. Len(U) : i \in 1 .. Len(T) \/ i \in Len(T) + 1 .. Len(U)
  OBVIOUS
<1>2. \A i \in 1 .. Len(U) : U[i].t = "ok" => i \in 1 .. Len(T) /\ U[i] = T[i]
  BY <1>1
<1> QED BY <1>2 DEF SinOk, UnOk

(* The only OK is the one just written. *)
LEMMA PrimerOk ==
  ASSUME NEW T \in Seq(Piezas), NEW U \in Seq(Piezas), Len(U) = Len(T) + 1,
         \A i \in 1 .. Len(T) : U[i] = T[i], SinOk(T)
  PROVE  UnOk(U)
<1>1. \A i \in 1 .. Len(U) : i \in 1 .. Len(T) \/ i = Len(T) + 1
  OBVIOUS
<1>2. \A i \in 1 .. Len(U) : U[i].t = "ok" => i = Len(T) + 1
  BY <1>1 DEF SinOk
<1> QED BY <1>2 DEF UnOk

(* A command is sent when no OK is on its way. *)
LEMMA MandaOk ==
  ASSUME EspInv, NEW k \in AT .. Listo, Manda(k),
         NEW g \in Seq(Piezas), fifo' = g, SinOk(g \o aire), resp' = RespVacia,
         k > CIPMUX => modulo # "nada", k = Listo => modulo = "servidor"
  PROVE  RespuestaInv'
<1>1. /\ orden' = k /\ pc' \in {"init", "resto"} /\ (pc' = "init" => k # Listo)
      /\ \/ /\ aire' = Append(aire, Ok)
            /\ modulo' = CASE k = CIPMUX /\ modulo = "nada" -> "mux"
                           [] k = CIPSERVER -> "servidor"
                           [] OTHER -> modulo
            /\ k # Listo
         \/ UNCHANGED <<aire, modulo>>
      /\ resp'.vista # "oculta"
  BY DEF Manda, RespVacia
<1>2. CASE UNCHANGED <<aire, modulo>>
  <2>1. SinOk(Cola') /\ UnOk(Cola')
    BY <1>2 DEF Cola, SinOk, UnOk
  <2> QED BY <1>1, <1>2, <2>1 DEF RespuestaInv
<1>3. CASE /\ aire' = Append(aire, Ok) /\ k # Listo
           /\ modulo' = CASE k = CIPMUX /\ modulo = "nada" -> "mux"
                          [] k = CIPSERVER -> "servidor"
                          [] OTHER -> modulo
  <2>1. aire \in Seq(Piezas) /\ Ok \in Piezas
    BY Dominios, Sueltas
  <2>2. /\ g \o aire \in Seq(Piezas) /\ Cola' \in Seq(Piezas)
        /\ Len(Cola') = Len(g \o aire) + 1
        /\ \A i \in 1 .. Len(g \o aire) : Cola'[i] = (g \o aire)[i]
    BY <1>3, <2>1, EscribeUna DEF Cola
  <2>3. UnOk(Cola')
    BY <2>2, PrimerOk
  <2>4. /\ k = CIPMUX => modulo' # "nada"
        /\ k = CIPSERVER => modulo' = "servidor"
        /\ k > CIPMUX => modulo' # "nada"
    BY <1>3 DEF CIPMUX, CIPSERVER
  <2> QED BY <1>1, <1>3, <2>3, <2>4 DEF RespuestaInv, Hecho
<1> QED BY <1>1, <1>2, <1>3

LEMMA PeticionOk ==
  ASSUME NEW r \in 1 .. MaxPedidos
  PROVE  Peticion(r) \in Seq(Piezas) /\ \A i \in 1 .. 5 : Peticion(r)[i].t # "ok"
<1>1. {Txt, Ipd(r), Len_(r, LargoCuerpo), Get(r), Fin(r)} \subseteq Piezas
  BY EspAssumption DEF Txt, Ipd, Len_, Get, Fin, Piezas, LargoCuerpo
<1>2. \A i \in 1 .. 5 : i \in {1, 2, 3, 4, 5}
  OBVIOUS
<1>3. \A i \in 1 .. 5 : Peticion(r)[i].t # "ok"
  BY <1>2 DEF Peticion, Txt, Ipd, Len_, Get, Fin
<1> QED BY <1>1, <1>3 DEF Peticion

LEMMA ModuloOk ==
  ASSUME EspInv, EspInv', RespuestaInv, Modulo
  PROVE  RespuestaInv'
<1>1. /\ UNCHANGED <<pc, resp, arranque>> /\ fifo \in Seq(Piezas) /\ aire \in Seq(Piezas)
      /\ Cola \in Seq(Piezas)
  BY Dominios DEF Modulo, Pedir, Llega, Desborda, Mutila
<1>2. SUFFICES (SinOk(aire) => SinOk(aire')) /\ (SinOk(Cola) => SinOk(Cola'))
               /\ (UnOk(Cola) => UnOk(Cola'))
  BY <1>1 DEF RespuestaInv, Hecho, arranque
<1>a. aire # <<>> /\ aire' = Tail(aire) /\ SinOk(aire) => SinOk(aire')
  <2> SUFFICES ASSUME aire # <<>>, aire' = Tail(aire), SinOk(aire) PROVE SinOk(aire')
    OBVIOUS
  <2>1. /\ Len(aire') = Len(aire) - 1 /\ Len(aire) \in Nat
        /\ \A i \in 1 .. Len(aire') : aire'[i] = aire[i + 1] /\ i + 1 \in 1 .. Len(aire)
    BY <1>1
  <2> QED BY <2>1 DEF SinOk
<1>3. CASE Pedir
  <2> DEFINE r == Len(pedidos) + 1
  <2>1. PICK c \in Comandos : pedidos' = Append(pedidos, c)
    BY <1>3 DEF Pedir
  <2>2. Len(pedidos') = r /\ r \in 1 .. MaxPedidos
    <3>1. pedidos \in Seq(Comandos) /\ Len(pedidos) < MaxPedidos
      BY <1>3 DEF Pedir, EspInv, TypeOK, TypeUart
    <3> QED BY <2>1, <3>1, EspAssumption
  <2>3. aire' = aire \o Peticion(r) /\ fifo' = fifo
    BY <1>3, <2>2 DEF Pedir
  <2> HIDE DEF r
  <2>4. /\ Peticion(r) \in Seq(Piezas) /\ \A i \in 1 .. 5 : Peticion(r)[i].t # "ok"
    BY <2>2, PeticionOk
  <2>5. Len(Peticion(r)) = 5
    BY DEF Peticion
  <2>6. /\ aire' \in Seq(Piezas) /\ Len(aire') = Len(aire) + 5 /\ Len(aire) \in Nat
        /\ \A i \in 1 .. Len(aire) : aire'[i] = aire[i]
        /\ \A i \in 1 .. 5 : aire'[Len(aire) + i] = Peticion(r)[i]
    <3>1. /\ aire' \in Seq(Piezas) /\ Len(aire') = Len(aire) + Len(Peticion(r)) /\ Len(aire) \in Nat
          /\ \A i \in 1 .. Len(aire) : aire'[i] = aire[i]
          /\ \A i \in 1 .. Len(Peticion(r)) : aire'[Len(aire) + i] = Peticion(r)[i]
      BY <1>1, <2>3, <2>4, Union2
    <3> QED BY <2>5, <3>1
  <2>7. /\ Cola' \in Seq(Piezas) /\ Len(Cola') = Len(Cola) + 5 /\ Len(Cola) \in Nat
        /\ \A i \in 1 .. Len(Cola) : Cola'[i] = Cola[i]
        /\ \A i \in 1 .. 5 : Cola'[Len(Cola) + i] = Peticion(r)[i]
    <3>1. Cola' = fifo \o (aire \o Peticion(r))
      BY <2>3 DEF Cola
    <3>2. Len(Cola) \in Nat
      BY <1>1
    <3>3. fifo \in Seq(Piezas) /\ aire \in Seq(Piezas) /\ r \in 1 .. MaxPedidos
      BY <1>1, <2>2
    <3>4. /\ Cola' \in Seq(Piezas) /\ Len(Cola') = Len(Cola) + 5
          /\ \A i \in 1 .. Len(Cola) : Cola'[i] = Cola[i]
          /\ \A i \in 1 .. 5 : Cola'[Len(Cola) + i] = Peticion(r)[i]
      <4> DEFINE b == aire \o Peticion(r)
      <4>1. /\ fifo \o b \in Seq(Piezas) /\ Len(fifo \o b) = Len(fifo \o aire) + 5
            /\ \A i \in 1 .. Len(fifo \o aire) : (fifo \o b)[i] = (fifo \o aire)[i]
            /\ \A i \in 1 .. 5 : (fifo \o b)[Len(fifo \o aire) + i] = Peticion(r)[i]
        BY <3>3, EscribePeticion
      <4>2. Cola' = fifo \o b /\ Cola = fifo \o aire
        BY <3>1 DEF Cola
      <4> HIDE DEF b
      <4> QED BY <4>1, <4>2
    <3> QED BY <3>2, <3>4
  <2>8. ASSUME NEW T \in Seq(Piezas), NEW U \in Seq(Piezas), Len(U) = Len(T) + 5, Len(T) \in Nat,
               \A i \in 1 .. 5 : U[Len(T) + i] = Peticion(r)[i]
        PROVE  \A i \in Len(T) + 1 .. Len(U) : U[i].t # "ok"
    <3> SUFFICES ASSUME NEW i \in Len(T) + 1 .. Len(U) PROVE U[i].t # "ok"
      OBVIOUS
    <3>1. i - Len(T) \in 1 .. 5 /\ Len(T) + (i - Len(T)) = i
      BY <2>8
    <3> QED BY <2>4, <2>8, <3>1
  <2>9. /\ \A i \in Len(aire) + 1 .. Len(aire') : aire'[i].t # "ok"
        /\ \A i \in Len(Cola) + 1 .. Len(Cola') : Cola'[i].t # "ok"
    BY <1>1, <2>6, <2>7, <2>8
  <2>10. Len(aire) <= Len(aire') /\ Len(Cola) <= Len(Cola')
    BY <2>6, <2>7
  <2> QED BY <1>1, <2>6, <2>7, <2>9, <2>10, CreceOk
<1>4. CASE Llega
  <2>1. Cola' = Cola /\ aire # <<>> /\ aire' = Tail(aire)
    BY <1>1, <1>4, PasaUna DEF Llega, Cola
  <2> QED BY <1>a, <2>1
<1>5. CASE Desborda
  <2>1. /\ aire # <<>> /\ aire' = Tail(aire) /\ fifo' = fifo /\ Len(fifo) + 1 \in 1 .. Len(Cola)
        /\ Cola' \in Seq(Piezas) /\ Quita(Cola, Cola', Len(fifo) + 1)
    BY <1>1, <1>5, PasaUna, PierdeUna DEF Desborda, Cola
  <2> QED BY <1>1, <1>a, <2>1, QuitaOk
<1>6. CASE Mutila
  <2>1. PICK m \in Mutilados : fifo' = Append(fifo, Len_(Head(aire).r, m))
    BY <1>6 DEF Mutila
  <2> DEFINE x == Len_(Head(aire).r, m)  k == Len(fifo) + 1
  <2>2. aire # <<>> /\ aire' = Tail(aire) /\ Head(aire) \in Piezas
    BY <1>1, <1>6, PasaUna DEF Mutila
  <2>3. x \in Piezas /\ x.t # "ok"
    BY <2>2, EspAssumption DEF Piezas, Len_
  <2> HIDE DEF x
  <2>4. /\ Len(Cola') = Len(Cola) /\ Cola'[k] = x
        /\ \A i \in 1 .. Len(Cola) : i # k => Cola'[i] = Cola[i]
    BY <1>1, <2>1, <2>2, <2>3, CortaUna DEF Cola, x
  <2>5. \A i \in 1 .. Len(Cola') : Cola'[i].t = "ok" => i \in 1 .. Len(Cola) /\ Cola'[i] = Cola[i]
    BY <2>3, <2>4
  <2> QED BY <1>a, <2>2, <2>5 DEF SinOk, UnOk
<1> QED BY <1>3, <1>4, <1>5, <1>6 DEF Modulo

LEMMA ArranqueOk ==
  ASSUME EspInv, EspInv', RespuestaInv, esp_init_ap_server
  PROVE  RespuestaInv'
<1>1. /\ fifo \in Seq(Piezas) /\ aire \in Seq(Piezas) /\ Cola \in Seq(Piezas)
      /\ orden \in AT .. Listo
  BY Dominios DEF EspInv, TypeOK, TypeControl
<1> SUFFICES ASSUME puntual' PROVE RespuestaInv'
  BY DEF RespuestaInv
<1>a. CASE esp_init_vacia
  BY <1>a DEF esp_init_vacia, RespuestaInv, arranque
<1>2. CASE esp_init_limpia
  <2>1. /\ fifo = <<>> /\ fifo' = <<>> /\ Manda(AT) /\ puntual /\ pc = "main"
        /\ resp' = RespVacia
    BY <1>2 DEF esp_init_limpia, Vacia, EspInv, EventoInv
  <2>2. SinOk(aire)
    BY <2>1 DEF RespuestaInv
  <2>3. fifo' \o aire = aire
    BY <1>1, <2>1
  <2>4. AT \in AT .. Listo /\ ~(AT > CIPMUX) /\ AT # Listo
    BY DEF AT, CIPMUX, Listo
  <2> QED BY <1>1, <2>1, <2>2, <2>3, <2>4, MandaOk
<1>b. ASSUME pc = "init", puntual, Consume
      PROVE  /\ fifo # <<>> /\ fifo' = Tail(fifo) /\ Tail(fifo) \in Seq(Piezas)
             /\ SinOk(Cola) => SinOk(Tail(fifo) \o aire)
             /\ UnOk(Tail(fifo) \o aire)
             /\ Head(fifo).t = "ok" => SinOk(Tail(fifo) \o aire) /\ Hecho(orden)
  <2>1. fifo # <<>> /\ fifo' = Tail(fifo)
    BY <1>b DEF Consume
  <2> DEFINE g == Tail(fifo)
  <2>2. /\ g \in Seq(Piezas) /\ g \o aire \in Seq(Piezas) /\ 1 \in 1 .. Len(Cola)
        /\ Cola[1] = Head(fifo) /\ Quita(Cola, g \o aire, 1)
    BY <1>1, <2>1, LeeUna DEF Cola
  <2>3. UnOk(Cola) /\ (SinOk(Cola) \/ Hecho(orden))
    BY <1>b DEF RespuestaInv
  <2> HIDE DEF g
  <2>4. /\ SinOk(Cola) => SinOk(g \o aire)
        /\ UnOk(g \o aire)
        /\ Cola[1].t = "ok" => SinOk(g \o aire)
    BY <1>1, <2>2, <2>3, QuitaOk
  <2>5. Cola[1].t = "ok" => Hecho(orden)
    BY <2>2, <2>3 DEF SinOk
  <2> QED BY <2>1, <2>2, <2>4, <2>5 DEF g
<1>3. CASE esp_init_ok
  <2> DEFINE k == IF orden < CWMODE THEN CWMODE ELSE orden + 1  g == Tail(fifo)
  <2>1. /\ pc = "init" /\ puntual /\ Manda(k) /\ Consume /\ resp' = RespVacia
        /\ resp.vista = "oculta" \/ Head(fifo).t = "ok"
    BY <1>3 DEF esp_init_ok, Encuentra, Hallada, Esperado
  <2>2. /\ fifo' = g /\ g \in Seq(Piezas) /\ SinOk(g \o aire) /\ Hecho(orden)
        /\ orden > CIPMUX => modulo # "nada"
    BY <1>b, <2>1 DEF RespuestaInv
  <2>5. orden # Listo
    BY <2>1 DEF EspInv, EventoInv
  <2>6. /\ k \in AT .. Listo
        /\ k > CIPMUX => modulo # "nada"
        /\ k = Listo => modulo = "servidor"
    BY <1>1, <2>2, <2>5 DEF AT, CWMODE, CIPMUX, CIPSERVER, Listo, Hecho
  <2> HIDE DEF k, g
  <2> QED BY <2>1, <2>2, <2>6, MandaOk
<1>4. CASE esp_init_vence
  BY <1>4 DEF esp_init_vence
<1>5. CASE pc = "init" /\ Olvida
  <2>1. /\ Consume /\ resp' = Anota(Head(fifo)) /\ puntual
        /\ UNCHANGED <<pc, aire, arranque>>
    BY <1>5 DEF Olvida, arranque
  <2>2. /\ Cola' = Tail(fifo) \o aire
        /\ SinOk(Cola) => SinOk(Cola')
        /\ UnOk(Cola')
        /\ Head(fifo).t = "ok" => SinOk(Cola') /\ Hecho(orden)
    BY <1>5, <1>b, <2>1 DEF Cola
  <2>3. resp'.vista = "oculta" => resp.vista = "oculta" \/ Head(fifo).t = "ok"
    BY <1>5, <2>1 DEF Anota, Esperado
  <2>4. resp'.vista = "oculta" => SinOk(Cola') /\ Hecho(orden)
    BY <1>5, <2>1, <2>2, <2>3 DEF RespuestaInv
  <2>5. Hecho(orden)' = Hecho(orden) /\ orden' = orden /\ modulo' = modulo
    BY <2>1 DEF Hecho, arranque
  <2>6. /\ SinOk(Cola) \/ Hecho(orden)
        /\ orden > CIPMUX => modulo # "nada"
        /\ orden # Listo
    BY <1>5, <2>1 DEF RespuestaInv, EspInv, EventoInv
  <2> QED BY <1>5, <2>1, <2>2, <2>4, <2>5, <2>6 DEF RespuestaInv
<1> QED BY <1>a, <1>2, <1>3, <1>4, <1>5 DEF esp_init_ap_server

LEMMA RespuestaPaso ==
  ASSUME EspInv, EspInv', RespuestaInv, [Next]_vars
  PROVE  RespuestaInv'
<1>1. ASSUME pc \notin {"main", "init"}, pc' \notin {"main", "init"}, UNCHANGED arranque
      PROVE  RespuestaInv'
  BY <1>1 DEF RespuestaInv, arranque
<1>2. CASE esp_poll
  <2>1. /\ pc = "poll" /\ pc' \in {"poll", "atiende", "resto"} /\ UNCHANGED arranque
    BY <1>2 DEF esp_poll, esp_poll_cabecera, esp_poll_cuerpo, esp_poll_vacio, Lee
  <2> QED BY <1>1, <2>1
<1>a. CASE resto
  BY <1>a DEF resto, RespuestaInv
<1>3. CASE esp_handler
  <2>1. pc \notin {"main", "init"} /\ pc' \notin {"main", "init"} /\ UNCHANGED arranque
    BY <1>3 DEF esp_handler, esp_send_http_ok, esp_send_cmd_prompt, esp_send_cmd_vence,
                esp_close_conn, Olvida
  <2> QED BY <1>1, <2>1
<1>4. CASE UNCHANGED vars
  BY <1>4 DEF vars, linea, arranque, RespuestaInv, Cola, Hecho
<1> QED BY <1>a, <1>2, <1>3, <1>4, ArranqueOk, ModuloOk DEF Next

(* If no command of esp_init_ap_server had to wait for its whole timeout,   *)
(* the server is on when main goes on, whatever answers of before a reset   *)
(* were in the FIFO (esp8266_at.c:192-237, main.c:57-60).                   *)
THEOREM Anunciado == Spec => []ServidorAnunciado
<1>1. Init => EspInv /\ RespuestaInv
  <2>1. Init => RespuestaInv
    BY DEF Init, RespuestaInv, SinOk, AT, Listo
  <2> QED BY <2>1, EmpiezaInv
<1>2. EspInv /\ EspInv' /\ RespuestaInv /\ [Next]_vars => RespuestaInv'
  BY RespuestaPaso
<1>3. RespuestaInv => ServidorAnunciado
  BY DEF RespuestaInv, ServidorAnunciado
<1> QED BY <1>1, <1>2, <1>3, Orden_, PTL DEF Spec
=============================================================================
