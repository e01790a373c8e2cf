--------------------------- MODULE Balanza_proof ---------------------------
(***************************************************************************)
(* Proofs about Balanza.  The exchanges of sort_and_median5_i32 keep, for  *)
(* every threshold, how many of the five conversions are below it, and     *)
(* leave them in order; so with at most two conversions outside the noise  *)
(* the third of them is inside it.                                         *)
(***************************************************************************)
EXTENDS Balanza, SequenceTheorems, TLAPS

Cinco == [1 .. 5 -> Int]

(* How many of the five are below c. *)
Bajo(x, c) == IF x < c THEN 1 ELSE 0
Bajos(a, c) == Bajo(a[1], c) + Bajo(a[2], c) + Bajo(a[3], c) + Bajo(a[4], c) + Bajo(a[5], c)

(* One exchange: the other places keep their values. *)
LEMMA Intercambio ==
  ASSUME NEW a \in Cinco, NEW i \in 1 .. 5, NEW j \in 1 .. 5, i # j
  PROVE  /\ Cambia(a, i, j) \in Cinco
         /\ Cambia(a, i, j)[i] <= Cambia(a, i, j)[j]
         /\ \A k \in (1 .. 5) \ {i, j} : Cambia(a, i, j)[k] = a[k]
         /\ \/ Cambia(a, i, j)[i] = a[i] /\ Cambia(a, i, j)[j] = a[j]
            \/ Cambia(a, i, j)[i] = a[j] /\ Cambia(a, i, j)[j] = a[i]
  <1>1. CASE a[j] < a[i]
    BY <1>1 DEF Cambia, Cinco
  <1>2. CASE ~(a[j] < a[i])
    BY <1>2 DEF Cambia, Cinco
  <1> QED BY <1>1, <1>2

(* It keeps how many are below a threshold. *)
LEMMA IntercambioCuenta ==
  ASSUME NEW a \in Cinco, NEW c \in Int, NEW i \in 1 .. 5, NEW j \in 1 .. 5, i < j
  PROVE  Bajos(Cambia(a, i, j), c) = Bajos(a, c)
  <1> DEFINE b == Cambia(a, i, j)
  <1>1. /\ b \in Cinco /\ \A k \in (1 .. 5) \ {i, j} : b[k] = a[k]
        /\ (b[i] = a[i] /\ b[j] = a[j]) \/ (b[i] = a[j] /\ b[j] = a[i])
    BY Intercambio
  <1> HIDE DEF b
  <1> DEFINE A == [k \in 1 .. 5 |-> Bajo(a[k], c)]
             B == [k \in 1 .. 5 |-> Bajo(b[k], c)]
  <1>2. A \in Cinco /\ B \in Cinco
    BY DEF Bajo, Cinco
  <1>3. /\ \A k \in (1 .. 5) \ {i, j} : B[k] = A[k]
        /\ B[i] + B[j] = A[i] + A[j]
    <2>1. \A k \in (1 .. 5) \ {i, j} : B[k] = A[k]
      BY <1>1
    <2>2. (B[i] = A[i] /\ B[j] = A[j]) \/ (B[i] = A[j] /\ B[j] = A[i])
      BY <1>1
    <2>3. A[i] \in Int /\ A[j] \in Int
      BY <1>2 DEF Cinco
    <2> QED BY <2>1, <2>2, <2>3
  <1>4. Bajos(a, c) = A[1] + A[2] + A[3] + A[4] + A[5]
    BY DEF Bajos
  <1>5. Bajos(b, c) = B[1] + B[2] + B[3] + B[4] + B[5]
    BY DEF Bajos
  <1> HIDE DEF A, B
  <1>6. /\ A[1] \in Int /\ A[2] \in Int /\ A[3] \in Int /\ A[4] \in Int /\ A[5] \in Int
        /\ B[1] \in Int /\ B[2] \in Int /\ B[3] \in Int /\ B[4] \in Int /\ B[5] \in Int
    BY <1>2 DEF Cinco
  <1>7. Bajos(b, c) = Bajos(a, c)
    <2>1. \/ i = 1 /\ j \in 2 .. 5
          \/ i = 2 /\ j \in 3 .. 5
          \/ i = 3 /\ j \in 4 .. 5
          \/ i = 4 /\ j = 5
      OBVIOUS
    <2>2. CASE i = 1 /\ j \in 2 .. 5
      <3>1. CASE j \in {2, 3}
        BY <1>3, <1>4, <1>5, <1>6, <2>2, <3>1
      <3>2. CASE j \in {4, 5}
        BY <1>3, <1>4, <1>5, <1>6, <2>2, <3>2
      <3> QED BY <2>2, <3>1, <3>2
    <2>3. CASE i = 2 /\ j \in 3 .. 5
      BY <1>3, <1>4, <1>5, <1>6, <2>3
    <2>4. CASE i = 3 /\ j \in 4 .. 5
      BY <1>3, <1>4, <1>5, <1>6, <2>4
    <2>5. CASE i = 4 /\ j = 5
      BY <1>3, <1>4, <1>5, <1>6, <2>5
    <2> QED BY <2>1, <2>2, <2>3, <2>4, <2>5
  <1> QED BY <1>7 DEF b

(* The first turn: the least comes first. *)
LEMMA PrimeraVuelta ==
  ASSUME NEW a \in Cinco
  PROVE  /\ Vuelta1(a) \in Cinco
         /\ \A k \in 2 .. 5 : Vuelta1(a)[1] <= Vuelta1(a)[k]
         /\ \A c \in Int : Bajos(Vuelta1(a), c) = Bajos(a, c)
  <1> DEFINE b == Cambia(a, 1, 2)
             d == Cambia(b, 1, 3)
             e == Cambia(d, 1, 4)
             f == Cambia(e, 1, 5)
  <1>1. /\ b \in Cinco /\ b[1] <= b[2]
    BY Intercambio
  <1>2. \A c \in Int : Bajos(b, c) = Bajos(a, c)
    BY IntercambioCuenta
  <1> HIDE DEF b
  <1>3. d \in Cinco /\ d[1] <= d[3] /\ d[2] = b[2] /\ d[1] <= b[1]
    BY <1>1, Intercambio DEF Cinco
  <1>4. \A c \in Int : Bajos(d, c) = Bajos(a, c)
    BY <1>1, <1>2, IntercambioCuenta
  <1> HIDE DEF d
  <1>5. e \in Cinco /\ e[1] <= e[4] /\ e[2] = d[2] /\ e[3] = d[3] /\ e[1] <= d[1]
    BY <1>3, Intercambio DEF Cinco
  <1>6. \A c \in Int : Bajos(e, c) = Bajos(a, c)
    BY <1>3, <1>4, IntercambioCuenta
  <1> HIDE DEF e
  <1>7. /\ f \in Cinco /\ f[1] <= f[5] /\ f[2] = e[2] /\ f[3] = e[3] /\ f[4] = e[4]
        /\ f[1] <= e[1]
    BY <1>5, Intercambio DEF Cinco
  <1>8. \A c \in Int : Bajos(f, c) = Bajos(a, c)
    BY <1>5, <1>6, IntercambioCuenta
  <1> HIDE DEF f
  <1>9. \A k \in 2 .. 5 : f[1] <= f[k]
    BY <1>1, <1>3, <1>5, <1>7 DEF Cinco
  <1>10. f = Vuelta1(a)
    BY DEF f, e, d, b, Vuelta1
  <1> QED BY <1>7, <1>8, <1>9, <1>10

(* The second turn: of the rest, the least comes first. *)
LEMMA SegundaVuelta ==
  ASSUME NEW a \in Cinco, \A k \in 2 .. 5 : a[1] <= a[k]
  PROVE  /\ Vuelta2(a) \in Cinco
         /\ Vuelta2(a)[1] <= Vuelta2(a)[2]
         /\ \A k \in 3 .. 5 : Vuelta2(a)[2] <= Vuelta2(a)[k]
         /\ \A c \in Int : Bajos(Vuelta2(a), c) = Bajos(a, c)
  <1> DEFINE b == Cambia(a, 2, 3)
             d == Cambia(b, 2, 4)
             e == Cambia(d, 2, 5)
  <1>1. /\ b \in Cinco /\ b[2] <= b[3] /\ b[1] = a[1] /\ a[1] <= b[2]
    BY Intercambio DEF Cinco
  <1>a. b[4] = a[4] /\ b[5] = a[5]
    BY Intercambio
  <1>2. \A c \in Int : Bajos(b, c) = Bajos(a, c)
    BY IntercambioCuenta
  <1> HIDE DEF b
  <1>3. d \in Cinco /\ d[2] <= d[4] /\ d[3] = b[3] /\ d[1] = b[1] /\ d[2] <= b[2]
    BY <1>1, Intercambio DEF Cinco
  <1>b. a[1] <= d[2] /\ d[5] = b[5]
    BY <1>1, <1>a, Intercambio DEF Cinco
  <1>4. \A c \in Int : Bajos(d, c) = Bajos(a, c)
    BY <1>1, <1>2, IntercambioCuenta
  <1> HIDE DEF d
  <1>5. /\ e \in Cinco /\ e[2] <= e[5] /\ e[3] = d[3] /\ e[4] = d[4] /\ e[1] = d[1]
        /\ e[2] <= d[2]
    BY <1>3, Intercambio DEF Cinco
  <1>c. a[1] <= e[2]
    BY <1>3, <1>a, <1>b, Intercambio DEF Cinco
  <1>6. \A c \in Int : Bajos(e, c) = Bajos(a, c)
    BY <1>3, <1>4, IntercambioCuenta
  <1> HIDE DEF e
  <1>7. \A k \in 3 .. 5 : e[2] <= e[k]
    BY <1>1, <1>3, <1>5 DEF Cinco
  <1>8. e[1] <= e[2]
    BY <1>1, <1>3, <1>5, <1>c
  <1>9. e = Vuelta2(a)
    BY DEF e, d, b, Vuelta2
  <1> QED BY <1>5, <1>6, <1>7, <1>8, <1>9

(* The third turn: then the third is the least of the last three. *)
LEMMA TerceraVuelta ==
  ASSUME NEW a \in Cinco, a[1] <= a[2], \A k \in 3 .. 5 : a[2] <= a[k]
  PROVE  /\ Vuelta3(a) \in Cinco
         /\ Vuelta3(a)[1] <= Vuelta3(a)[2] /\ Vuelta3(a)[2] <= Vuelta3(a)[3]
         /\ \A k \in 4 .. 5 : Vuelta3(a)[3] <= Vuelta3(a)[k]
         /\ \A c \in Int : Bajos(Vuelta3(a), c) = Bajos(a, c)
  <1> DEFINE b == Cambia(a, 3, 4)
             d == Cambia(b, 3, 5)
  <1>1. /\ b \in Cinco /\ b[3] <= b[4] /\ b[1] = a[1] /\ b[2] = a[2] /\ a[2] <= b[3]
        /\ b[5] = a[5]
    BY Intercambio DEF Cinco
  <1>2. \A c \in Int : Bajos(b, c) = Bajos(a, c)
    BY IntercambioCuenta
  <1> HIDE DEF b
  <1>3. /\ d \in Cinco /\ d[3] <= d[5] /\ d[4] = b[4] /\ d[1] = b[1] /\ d[2] = b[2]
        /\ d[3] <= b[3] /\ a[2] <= d[3]
    BY <1>1, Intercambio DEF Cinco
  <1>4. \A c \in Int : Bajos(d, c) = Bajos(a, c)
    BY <1>1, <1>2, IntercambioCuenta
  <1> HIDE DEF d
  <1>5. \A k \in 4 .. 5 : d[3] <= d[k]
    BY <1>1, <1>3 DEF Cinco
  <1>6. d[1] <= d[2] /\ d[2] <= d[3]
    BY <1>1, <1>3
  <1>9. d = Vuelta3(a)
    BY DEF d, b, Vuelta3
  <1> QED BY <1>3, <1>4, <1>5, <1>6, <1>9

(* The fourth leaves the third where it is. *)
LEMMA CuartaVuelta ==
  ASSUME NEW a \in Cinco,
         a[1] <= a[2], a[2] <= a[3], \A k \in 4 .. 5 : a[3] <= a[k]
  PROVE  /\ Vuelta4(a)[3] = a[3] /\ Vuelta4(a) \in Cinco
  BY Intercambio DEF Vuelta4

(* The median of five: a threshold that at most two of them are below is   *)
(* not above it, and one that at least three are below is above it.        *)
LEMMA Mediana ==
  ASSUME NEW a \in Cinco
  PROVE  /\ sort_and_median5_i32(a) \in Int
         /\ \A c \in Int : Bajos(a, c) <= 2 => sort_and_median5_i32(a) >= c
         /\ \A c \in Int : Bajos(a, c) >= 3 => sort_and_median5_i32(a) < c
  <1> DEFINE b == Vuelta1(a)
             d == Vuelta2(b)
             e == Vuelta3(d)
  <1>1. /\ b \in Cinco /\ \A k \in 2 .. 5 : b[1] <= b[k]
        /\ \A c \in Int : Bajos(b, c) = Bajos(a, c)
    BY PrimeraVuelta
  <1> HIDE DEF b
  <1>2. /\ d \in Cinco /\ d[1] <= d[2] /\ \A k \in 3 .. 5 : d[2] <= d[k]
        /\ \A c \in Int : Bajos(d, c) = Bajos(a, c)
    BY <1>1, SegundaVuelta
  <1> HIDE DEF d
  <1>3. /\ e \in Cinco /\ e[1] <= e[2] /\ e[2] <= e[3]
        /\ \A k \in 4 .. 5 : e[3] <= e[k]
        /\ \A c \in Int : Bajos(e, c) = Bajos(a, c)
    BY <1>2, TerceraVuelta
  <1> HIDE DEF e
  <1>4. sort_and_median5_i32(a) = e[3]
    BY <1>3, CuartaVuelta DEF sort_and_median5_i32, e, d, b
  <1>5. /\ e[1] \in Int /\ e[2] \in Int /\ e[3] \in Int /\ e[4] \in Int /\ e[5] \in Int
        /\ e[3] <= e[4] /\ e[3] <= e[5]
    BY <1>3 DEF Cinco
  <1>6. ASSUME NEW c \in Int, Bajos(a, c) <= 2 PROVE e[3] >= c
    BY <1>3, <1>5, <1>6 DEF Bajos, Bajo
  <1>7. ASSUME NEW c \in Int, Bajos(a, c) >= 3 PROVE e[3] < c
    BY <1>3, <1>5, <1>7 DEF Bajos, Bajo
  <1> QED BY <1>4, <1>5, <1>6, <1>7

-----------------------------------------------------------------------------
(* Conversions and grams *)

(* The remainder of a number at most one modulus away. *)
LEMMA Resto ==
  ASSUME NEW x \in Int, NEW m \in Nat \ {0}
  PROVE  /\ x % m \in 0 .. m - 1
         /\ 0 <= x /\ x < m => x % m = x
         /\ -m <= x /\ x < 0 => x % m = x + m
  OBVIOUS

(* The quotient of a natural number. *)
LEMMA Cociente ==
  ASSUME NEW x \in Nat, NEW m \in Nat \ {0}
  PROVE  x \div m \in Nat /\ m * (x \div m) <= x /\ x < m * (x \div m) + m
  OBVIOUS

(* The magnitude of a weight. *)
LEMMA GramosNat == \A x \in Int : Gramos(x) \in Nat
  <1> SUFFICES ASSUME NEW x \in Int PROVE Gramos(x) \in Nat
    OBVIOUS
  <1>1. 2 * Num * Valor(x - Tara) + Den \in Nat /\ 2 * Den \in Nat \ {0}
    BY BalanzaAssumption DEF Valor
  <1> QED BY <1>1, Cociente DEF Gramos

(* The sign of a conversion within the range of the converter comes back;  *)
(* any other value comes back as one within it.                            *)
LEMMA SignoVuelve ==
  ASSUME NEW x \in Int
  PROVE  /\ Signo(EnCable(x)) \in -MSB .. MSB - 1
         /\ x \in -MSB .. MSB - 1 => Signo(EnCable(x)) = x
  <1> USE BalanzaAssumption
  <1> DEFINE m == 2 * MSB
  <1>1. m \in Nat \ {0} /\ m = MSB + MSB
    OBVIOUS
  <1>2. EnCable(x) = x % m
    BY DEF EnCable
  <1>3. x % m \in 0 .. m - 1 /\ (0 <= x /\ x < m => x % m = x)
        /\ (-m <= x /\ x < 0 => x % m = x + m)
    <2> HIDE DEF m
    <2> QED BY <1>1, Resto
  <1> HIDE DEF m
  <1>4. Signo(x % m) = IF x % m >= MSB THEN (x % m) - m ELSE x % m
    BY DEF Signo, m
  <1> QED BY <1>1, <1>2, <1>3, <1>4

(* The grams of two counts n apart differ by what n counts weigh, and half *)
(* a gram of rounding.                                                     *)
LEMMA GramosCerca ==
  ASSUME NEW raw \in Int, NEW c \in Int, NEW n \in Nat, c - n <= raw, raw <= c + n
  PROVE  /\ Gramos(raw) \in Nat
         /\ 2 * Valor(Den * Gramos(raw) - Num * Valor(c - Tara)) <= 2 * Num * n + Den
  <1> USE BalanzaAssumption
  <1> DEFINE x == Valor(raw - Tara)
             y == Valor(c - Tara)
             q == Gramos(raw)
             w == 2 * Num * x + Den
             D == 2 * Den
  <1>1. x \in Nat /\ y \in Nat /\ x - y <= n /\ y - x <= n
    BY DEF Valor
  <1>2. Num * x \in Nat /\ Num * y \in Nat /\ Num * n \in Nat
    BY <1>1
  <1>3. Num * x <= Num * y + Num * n /\ Num * y <= Num * x + Num * n
    <2>1. \A k, l \in Nat : k <= l => Num * k <= Num * l
      OBVIOUS
    <2>2. Num * (y + n) = Num * y + Num * n /\ Num * (x + n) = Num * x + Num * n
      BY <1>1
    <2>3. x <= y + n /\ y <= x + n /\ y + n \in Nat /\ x + n \in Nat
      BY <1>1
    <2> HIDE DEF x, y
    <2> QED BY <1>1, <2>1, <2>2, <2>3
  <1>4. w \in Nat /\ w = 2 * (Num * x) + Den /\ D \in Nat \ {0}
    BY <1>1, <1>2
  <1>5. q = w \div D
    BY DEF Gramos
  <1>6. q \in Nat /\ D * q <= w /\ w < D * q + D
    <2> HIDE DEF w, D, q
    <2> QED BY <1>4, <1>5, Cociente
  <1>7. D * q = 2 * (Den * q) /\ Den * q \in Nat
    BY <1>6
  <1>8. 2 * (Den * q) <= 2 * (Num * x) + Den /\ 2 * (Num * x) + Den < 2 * (Den * q) + 2 * Den
    BY <1>4, <1>6, <1>7
  <1>9. 2 * Num * n = 2 * (Num * n)
    OBVIOUS
  <1> HIDE DEF x, y, q, w, D
  <1>10. 2 * Valor(Den * q - Num * y) <= 2 * (Num * n) + Den
    BY <1>2, <1>3, <1>7, <1>8 DEF Valor
  <1> QED BY <1>6, <1>9, <1>10 DEF q, y

(* With at most two of five conversions outside the noise, the median is   *)
(* inside it.                                                              *)
Fuera(x, c) == IF Valor(x - c) > RuidoCuentas THEN 1 ELSE 0

LEMMA MedianaFiel ==
  ASSUME NEW a \in Cinco, NEW c \in Int,
         Fuera(a[1], c) + Fuera(a[2], c) + Fuera(a[3], c) + Fuera(a[4], c) + Fuera(a[5], c)
           <= 2
  PROVE  /\ sort_and_median5_i32(a) \in Int
         /\ c - RuidoCuentas <= sort_and_median5_i32(a)
         /\ sort_and_median5_i32(a) <= c + RuidoCuentas
  <1> USE RuidoAssumption
  <1> DEFINE lo == c - RuidoCuentas
             hi == c + RuidoCuentas + 1
  <1>1. lo \in Int /\ hi \in Int
    OBVIOUS
  <1>2. \A x \in Int : /\ Fuera(x, c) \in Int /\ Bajo(x, lo) \in Int /\ Bajo(x, hi) \in Int
                       /\ Bajo(x, lo) <= Fuera(x, c) /\ 1 - Bajo(x, hi) <= Fuera(x, c)
    BY DEF Fuera, Bajo, Valor
  <1> HIDE DEF lo, hi
  <1>3. a[1] \in Int /\ a[2] \in Int /\ a[3] \in Int /\ a[4] \in Int /\ a[5] \in Int
    BY DEF Cinco
  <1>4. Bajos(a, lo) <= 2
    BY <1>2, <1>3 DEF Bajos
  <1>5. Bajos(a, hi) >= 3
    BY <1>2, <1>3 DEF Bajos
  <1>6. /\ sort_and_median5_i32(a) \in Int
        /\ sort_and_median5_i32(a) >= lo /\ sort_and_median5_i32(a) < hi
    BY <1>1, <1>4, <1>5, Mediana
  <1> QED BY <1>6 DEF lo, hi

Bits24 == -MSB .. MSB - 1

LEMMA MedianaTipo ==
  ASSUME NEW a \in Seq(Bits24), Len(a) = MED_N
  PROVE  a \in Cinco /\ sort_and_median5_i32(a) \in Int
  <1>1. a \in [1 .. 5 -> Bits24]
    BY LenProperties DEF MED_N
  <1>2. a \in Cinco
    <2>1. Bits24 \subseteq Int
      BY BalanzaAssumption DEF Bits24
    <2> QED BY <1>1, <2>1 DEF Cinco
  <1> QED BY <1>2, Mediana

-----------------------------------------------------------------------------
(* The inductive invariant *)

LEMMA BalanzaInvInit == Init => BalanzaInv
  <1> SUFFICES ASSUME Init PROVE BalanzaInv
    OBVIOUS
  <1> USE BalanzaAssumption, RuidoAssumption
  <1>1. 0 % W32 = 0 /\ 5 * (Espera + 1 + Retardo) \in Nat
    BY Resto
  <1>2. TypeOK
    BY <1>1 DEF Init, TypeOK, MED_N
  <1>3. TiempoInv
    BY <1>1 DEF Init, TiempoInv
  <1>4. RuidoInv
    BY DEF Init, RuidoInv, Malo
  <1>5. LecturaFiel /\ LecturaAcotada
    BY <1>1 DEF Init, LecturaFiel, LecturaAcotada, MED_N
  <1> QED BY <1>2, <1>3, <1>4, <1>5 DEF BalanzaInv

(* Sums the reading needs. *)
LEMMA MED_NTipo == \A n \in 0 .. MED_N - 1, k \in Nat : n * k \in Nat
  BY DEF MED_N

LEMMA Quinto == \A x \in Nat : x < MED_N => x \in 0 .. MED_N - 1 /\ x + 1 <= MED_N
  BY DEF MED_N

(* A reading begins. *)
LEMMA BalanzaInvPedir == BalanzaInv /\ Pedir => BalanzaInv'
  <1> SUFFICES ASSUME BalanzaInv, Pedir PROVE BalanzaInv'
    OBVIOUS
  <1> USE BalanzaAssumption, RuidoAssumption
  <1>1. TypeOK
    BY DEF BalanzaInv
  <1>2. PICK t \in Arranques :
          /\ tick' = t /\ desde' = t /\ inicio' = t /\ t0' = t % W32
          /\ pc' = "esperar" /\ v' = <<>> /\ picos' = 0 /\ carga' \in Cargas
          /\ proxima' \in t .. t + Periodo
          /\ UNCHANGED <<out_g, conectado, cortes>>
    BY DEF Pedir
  <1>3. t \in Nat /\ t % W32 \in 0 .. W32 - 1
    BY Resto
  <1>4. TypeOK'
    <2>1. v' \in Seq(-MSB .. MSB - 1) /\ Len(v') <= MED_N
      BY <1>2 DEF MED_N
    <2>2. proxima' \in Nat
      BY <1>2, <1>3
    <2> QED BY <1>1, <1>2, <1>3, <2>1, <2>2 DEF TypeOK
  <1>5. TiempoInv'
    <2>1. Len(v') = 0 /\ 0 < MED_N
      BY <1>2 DEF MED_N
    <2>2. 0 * (Espera + 1 + Retardo) = 0 /\ 0 <= Espera + 1 /\ t - t = 0
      BY <1>3
    <2> QED BY <1>2, <1>3, <2>1, <2>2 DEF TiempoInv
  <1>6. RuidoInv'
    BY <1>2 DEF RuidoInv, Malo
  <1>7. LecturaFiel'
    BY <1>2 DEF LecturaFiel
  <1>8. LecturaAcotada'
    <2>1. 5 * (Espera + 1 + Retardo) \in Nat
      OBVIOUS
    <2>2. t - t = 0
      BY <1>3
    <2> QED BY <1>2, <2>1, <2>2 DEF LecturaAcotada, MED_N
  <1> QED BY <1>4, <1>5, <1>6, <1>7, <1>8 DEF BalanzaInv

(* The time a wait may take leaves the reading within its bound. *)
LEMMA Plazo ==
  ASSUME NEW l \in 0 .. MED_N - 1
  PROVE  /\ l * (Espera + 1 + Retardo) \in Nat
         /\ (l + 1) * (Espera + 1 + Retardo) = l * (Espera + 1 + Retardo) + (Espera + 1 + Retardo)
         /\ l * (Espera + 1 + Retardo) + (Espera + 1 + Retardo)
              <= MED_N * (Espera + 1 + Retardo)
  <1> DEFINE K == Espera + 1 + Retardo
  <1>1. K \in Nat
    BY BalanzaAssumption
  <1>2. l \in {0, 1, 2, 3, 4} /\ MED_N = 5
    BY DEF MED_N
  <1> HIDE DEF K
  <1>3. l * K \in Nat /\ (l + 1) * K = l * K + K /\ l * K + K <= 5 * K
    BY <1>1, <1>2
  <1> QED BY <1>2, <1>3 DEF K

(* A turn of the wait. *)
LEMMA BalanzaInvSondear == BalanzaInv /\ Sondear => BalanzaInv'
  <1> SUFFICES ASSUME BalanzaInv, Sondear PROVE BalanzaInv'
    OBVIOUS
  <1> USE BalanzaAssumption, RuidoAssumption
  <1>1. TypeOK /\ TiempoInv /\ RuidoInv /\ LecturaFiel /\ LecturaAcotada
    BY DEF BalanzaInv
  <1>2. /\ pc = "esperar"
        /\ UNCHANGED <<t0, v, proxima, conectado, cortes, carga, picos, desde, inicio>>
    BY DEF Sondear
  <1>3. \/ pc' = "libre" /\ out_g' = -1 /\ tick' = tick
        \/ pc' = pc /\ out_g' = out_g /\ tick' = tick + 1 /\ tick - t0 <= Espera
    BY <1>1 DEF Sondear, Vencida, TypeOK
  <1>4. t0 <= desde /\ t0 \in Nat /\ desde \in Nat /\ tick \in Nat /\ inicio \in Nat
    <2>1. W32 * (desde \div W32) + (desde % W32) = desde /\ desde \div W32 \in Nat
      BY <1>1, Cociente DEF TypeOK
    <2>2. W32 * (desde \div W32) \in Nat
      BY <2>1
    <2> QED BY <1>1, <2>1, <2>2 DEF TypeOK, TiempoInv
  <1>5. TypeOK'
    BY <1>1, <1>2, <1>3 DEF TypeOK
  <1>6. TiempoInv'
    BY <1>1, <1>2, <1>3, <1>4 DEF TiempoInv
  <1>7. RuidoInv'
    BY <1>1, <1>2 DEF RuidoInv, Malo
  <1>8. LecturaFiel'
    BY <1>2, <1>3 DEF LecturaFiel
  <1>9. LecturaAcotada'
    <2>0. v \in Seq(-MSB .. MSB - 1) /\ Len(v) < MED_N
      BY <1>1, <1>2 DEF TypeOK, TiempoInv
    <2>1. Len(v) \in 0 .. MED_N - 1
      <3>1. Len(v) \in Nat
        BY <2>0
      <3> QED BY <2>0, <3>1, Quinto
    <2> DEFINE l == Len(v)
               K == Espera + 1 + Retardo
    <2>2. /\ l * K \in Nat /\ K \in Nat /\ l * K + K <= MED_N * K
      BY <2>1, Plazo
    <2>3. desde - inicio <= l * K
      BY <1>1, <1>2 DEF TiempoInv
    <2>a. tick' - desde <= Espera + 1
      BY <1>1, <1>2, <1>3, <1>4 DEF TiempoInv
    <2>4. MED_N * K \in Nat
      BY DEF MED_N
    <2>5. tick' \in Nat /\ inicio' = inicio
      BY <1>2, <1>5 DEF TypeOK
    <2>6. K >= Espera + 1 /\ K \in Nat
      OBVIOUS
    <2>7. /\ l * K \in Int /\ MED_N * K \in Int /\ K \in Int /\ Espera + 1 \in Int
          /\ desde \in Int /\ inicio \in Int
      BY <1>4, <2>2, <2>4, <2>6
    <2> HIDE DEF l, K
    <2>8. PICK t \in Nat : t = tick'
      BY <2>5
    <2>9. t - inicio <= MED_N * K
      <3>1. t - desde <= Espera + 1
        BY <2>a, <2>8
      <3> DEFINE p == l * K
                 q == MED_N * K
      <3>2. /\ p \in Int /\ q \in Int /\ p + K <= q /\ desde - inicio <= p
        BY <2>2, <2>3, <2>7
      <3> HIDE DEF p, q
      <3>3. t - inicio <= q
        BY <2>6, <2>7, <3>1, <3>2
      <3> QED BY <3>3 DEF q
    <2> QED BY <2>5, <2>8, <2>9 DEF LecturaAcotada, K
  <1> QED BY <1>5, <1>6, <1>7, <1>8, <1>9 DEF BalanzaInv

(* What the converter may deliver: a count it can hold, spoiled if it is   *)
(* outside the noise.                                                      *)
LEMMA ConversionMedida ==
  ASSUME TypeOK, NEW c \in Conversiones
  PROVE  /\ c.cuenta \in Int /\ c.pico \in {0, 1} /\ picos + c.pico \in 0 .. MaxPicos
         /\ Fuera(Signo(EnCable(c.cuenta)), carga) <= c.pico
  <1> USE BalanzaAssumption, RuidoAssumption
  <1>1. carga \in Int /\ picos \in 0 .. MaxPicos
        /\ -MSB <= carga - RuidoCuentas /\ carga + RuidoCuentas < MSB
    BY DEF TypeOK
  <1>2. CASE \E e \in -RuidoCuentas .. RuidoCuentas : c = [cuenta |-> carga + e, pico |-> 0]
    <2>1. PICK e \in -RuidoCuentas .. RuidoCuentas : c = [cuenta |-> carga + e, pico |-> 0]
      BY <1>2
    <2> DEFINE x == carga + e
    <2>2. x \in -MSB .. MSB - 1 /\ x \in Int /\ c.cuenta = x /\ c.pico = 0
      BY <1>1, <2>1
    <2>3. Fuera(x, carga) = 0
      BY <1>1, <2>1 DEF Fuera, Valor
    <2> HIDE DEF x
    <2>4. Signo(EnCable(x)) = x
      BY <2>2, SignoVuelve
    <2> QED BY <1>1, <2>2, <2>3, <2>4
  <1>3. CASE picos < MaxPicos /\ \E x \in Picos : c = [cuenta |-> x, pico |-> 1]
    <2>1. c.cuenta \in Int /\ c.pico = 1 /\ picos + 1 \in 0 .. MaxPicos
      BY <1>1, <1>3
    <2>2. \A y : Fuera(y, carga) <= 1
      BY DEF Fuera
    <2> QED BY <2>1, <2>2
  <1> QED BY <1>2, <1>3 DEF Conversiones

(* How many conversions are outside the noise after one more. *)
LEMMA UnMaloMas ==
  ASSUME NEW s \in Seq(Bits24), s = v, Len(s) < MED_N, NEW x \in Bits24,
         v' = Append(s, x), carga' = carga
  PROVE  Malo(1)' + Malo(2)' + Malo(3)' + Malo(4)' + Malo(5)'
           = Malo(1) + Malo(2) + Malo(3) + Malo(4) + Malo(5) + Fuera(x, carga)
  <1>1. PICK n \in Nat : n = Len(s)
    OBVIOUS
  <1>2. n \in {0, 1, 2, 3, 4}
    BY <1>1 DEF MED_N
  <1>3. /\ Len(v') = n + 1 /\ v'[n + 1] = x
        /\ \A i \in 1 .. n : v'[i] = s[i]
    BY <1>1, AppendProperties
  <1> DEFINE M(i) == IF i <= n THEN Fuera(s[i], carga) ELSE 0
             N(i) == IF i <= n THEN Fuera(s[i], carga) ELSE
                     IF i = n + 1 THEN Fuera(x, carga) ELSE 0
  <1>4. \A i \in 1 .. 5 : Malo(i) = M(i)
    BY <1>1 DEF Malo, Fuera
  <1>5. ASSUME NEW i \in 1 .. 5 PROVE Malo(i)' = N(i)
    <2>1. CASE i <= n
      BY <1>3, <2>1 DEF Malo, Fuera
    <2>2. CASE i = n + 1
      BY <1>3, <2>2 DEF Malo, Fuera
    <2>3. CASE i > n + 1
      BY <1>3, <2>3 DEF Malo, Fuera
    <2> QED BY <2>1, <2>2, <2>3
  <1>6. \A y, z : Fuera(y, z) \in Int
    BY DEF Fuera
  <1>7. N(1) + N(2) + N(3) + N(4) + N(5) = M(1) + M(2) + M(3) + M(4) + M(5) + Fuera(x, carga)
    <2>1. CASE n = 0
      BY <1>6, <2>1
    <2>2. CASE n = 1
      BY <1>6, <2>2
    <2>3. CASE n = 2
      BY <1>6, <2>3
    <2>4. CASE n = 3
      BY <1>6, <2>4
    <2>5. CASE n = 4
      BY <1>6, <2>5
    <2> QED BY <1>2, <2>1, <2>2, <2>3, <2>4, <2>5
  <1> HIDE DEF M, N
  <1>8. /\ Malo(1)' = N(1) /\ Malo(2)' = N(2) /\ Malo(3)' = N(3) /\ Malo(4)' = N(4)
        /\ Malo(5)' = N(5)
    BY <1>5
  <1>9. /\ Malo(1) = M(1) /\ Malo(2) = M(2) /\ Malo(3) = M(3) /\ Malo(4) = M(4)
        /\ Malo(5) = M(5)
    BY <1>4
  <1> QED BY <1>7, <1>8, <1>9

(* A conversion is shifted in. *)
LEMMA BalanzaInvLee == BalanzaInv /\ hx711_read_raw => BalanzaInv'
  <1> SUFFICES ASSUME BalanzaInv, hx711_read_raw PROVE BalanzaInv'
    OBVIOUS
  <1> USE BalanzaAssumption, RuidoAssumption
  <1>1. TypeOK /\ TiempoInv /\ RuidoInv /\ LecturaFiel /\ LecturaAcotada
    BY DEF BalanzaInv
  <1>2. PICK c \in Conversiones :
          LET leidas == Append(v, Signo(EnCable(c.cuenta))) IN
          /\ v' = leidas
          /\ picos' = picos + c.pico
          /\ IF Len(leidas) = MED_N
             THEN /\ pc' = "libre"
                  /\ out_g' = Gramos(sort_and_median5_i32(leidas))
                  /\ UNCHANGED <<t0, desde>>
             ELSE /\ t0' = (tick + Retardo) % W32 /\ desde' = tick + Retardo
                  /\ UNCHANGED <<pc, out_g>>
    BY DEF hx711_read_raw
  <1>3. /\ pc = "esperar" /\ tick' = tick + Retardo
        /\ proxima' \in tick + 1 .. tick + Periodo
        /\ UNCHANGED <<conectado, cortes, carga, inicio>>
    BY DEF hx711_read_raw
  <1>4. PICK s \in Seq(Bits24) : s = v
    BY <1>1 DEF TypeOK, Bits24
  <1>5. PICK x \in Bits24 : x = Signo(EnCable(c.cuenta))
    BY <1>1, ConversionMedida, SignoVuelve DEF Bits24
  <1>6. PICK n \in 0 .. MED_N - 1 : n = Len(s) /\ Len(s) < MED_N
    BY <1>1, <1>3, <1>4, Quinto DEF TiempoInv
  <1>7. /\ v' = Append(s, x) /\ v' \in Seq(Bits24) /\ Len(v') = n + 1
    BY <1>2, <1>4, <1>5, <1>6, AppendProperties
  <1>8. picos' \in 0 .. MaxPicos /\ c.pico \in {0, 1} /\ Fuera(x, carga) <= c.pico
    BY <1>1, <1>2, <1>5, ConversionMedida
  <1>9. RuidoInv'
    <2>1. /\ Malo(1)' + Malo(2)' + Malo(3)' + Malo(4)' + Malo(5)'
               = Malo(1) + Malo(2) + Malo(3) + Malo(4) + Malo(5) + Fuera(x, carga)
      BY <1>3, <1>4, <1>6, <1>7, UnMaloMas
    <2> DEFINE m == Malo(1) + Malo(2) + Malo(3) + Malo(4) + Malo(5)
    <2>2. m \in Int /\ Fuera(x, carga) \in Int /\ m <= picos /\ picos \in Int
      BY <1>1 DEF Malo, Fuera, RuidoInv, TypeOK
    <2> HIDE DEF m
    <2>3. m + Fuera(x, carga) <= picos + c.pico
      BY <1>8, <2>2
    <2> QED BY <1>2, <2>1, <2>3 DEF RuidoInv, m
  <1>10. PICK t \in Nat : t = tick
    BY <1>1 DEF TypeOK
  <1>11. /\ tick' = t + Retardo /\ t + Retardo \in Nat /\ proxima' \in Nat
    BY <1>3, <1>10
  <1>12. PICK k \in Nat : k = Espera + 1 + Retardo
    OBVIOUS
  <1>13. PICK p \in Nat : p = n * k
    BY MED_NTipo
  <1>14. PICK d \in Nat, i \in Nat : d = desde /\ i = inicio
    BY <1>1 DEF TypeOK
  <1>15. /\ i <= d /\ d <= t /\ t - d <= Espera + 1 /\ d - i <= p
    BY <1>1, <1>3, <1>4, <1>6, <1>10, <1>12, <1>13, <1>14 DEF TiempoInv
  <1>16. t + Retardo - i <= p + k
    BY <1>12, <1>15
  <1>17. (n + 1) * k = p + k /\ p + k <= MED_N * k
    BY <1>12, <1>13, Plazo
  <1>18. LecturaAcotada'
    <2>1. MED_N * k \in Int
      BY DEF MED_N
    <2>2. t + Retardo - i <= MED_N * k
      BY <1>16, <1>17, <2>1
    <2> QED BY <1>3, <1>11, <1>12, <1>14, <2>2 DEF LecturaAcotada
  <1>19. CASE n + 1 = MED_N
    <2>1. /\ pc' = "libre" /\ out_g' = Gramos(sort_and_median5_i32(Append(s, x)))
          /\ UNCHANGED <<t0, desde>>
      BY <1>2, <1>4, <1>5, <1>7, <1>19
    <2> DEFINE a == Append(s, x)
    <2>a. v' = a
      BY <1>7
    <2>2. a \in Cinco
      <3>1. a \in Seq(Bits24) /\ Len(a) = 5
        BY <1>7, <1>19 DEF MED_N
      <3>2. a \in [1 .. 5 -> Bits24]
        BY <3>1, LenProperties
      <3> QED BY <3>2 DEF Cinco, Bits24
    <2> HIDE DEF a
    <2>3. Fuera(a[1], carga) + Fuera(a[2], carga) + Fuera(a[3], carga) + Fuera(a[4], carga)
            + Fuera(a[5], carga) <= 2
      <3>1. ASSUME NEW j \in 1 .. 5 PROVE Malo(j)' = Fuera(a[j], carga)
        BY <1>3, <1>7, <1>19, <2>a DEF Malo, Fuera, MED_N
      <3>2. /\ Malo(1)' = Fuera(a[1], carga) /\ Malo(2)' = Fuera(a[2], carga)
            /\ Malo(3)' = Fuera(a[3], carga) /\ Malo(4)' = Fuera(a[4], carga)
            /\ Malo(5)' = Fuera(a[5], carga)
        BY <3>1
      <3>3. PICK q \in 0 .. MaxPicos : q = picos'
        BY <1>8
      <3>4. Fuera(a[1], carga) + Fuera(a[2], carga) + Fuera(a[3], carga) + Fuera(a[4], carga)
              + Fuera(a[5], carga) <= q
        BY <1>9, <3>2, <3>3 DEF RuidoInv
      <3>5. q <= 2
        OBVIOUS
      <3>6. \A y : Fuera(y, carga) \in Int
        BY DEF Fuera
      <3> QED BY <3>4, <3>5, <3>6
    <2>4. PICK g \in Int :
            /\ g = sort_and_median5_i32(a)
            /\ carga - RuidoCuentas <= g /\ g <= carga + RuidoCuentas
      BY <1>1, <2>2, <2>3, MedianaFiel DEF TypeOK
    <2>5. /\ out_g' = Gramos(g) /\ Gramos(g) \in Nat
          /\ 2 * Valor(Den * Gramos(g) - Num * Valor(carga - Tara))
               <= 2 * Num * RuidoCuentas + Den
      BY <1>1, <2>1, <2>4, GramosCerca DEF a, TypeOK
    <2>6. TypeOK'
      BY <1>1, <1>3, <1>7, <1>8, <1>11, <1>19, <2>1, <2>5, SMTT(30) DEF TypeOK, Bits24
    <2>7. LecturaFiel'
      BY <1>3, <2>5 DEF LecturaFiel
    <2>8. TiempoInv'
      BY <1>1, <1>3, <1>11, <1>14, <1>15, <2>1 DEF TiempoInv
    <2> QED BY <1>9, <1>18, <2>6, <2>7, <2>8 DEF BalanzaInv
  <1>20. CASE n + 1 # MED_N
    <2>1. /\ pc' = "esperar" /\ out_g' = out_g
          /\ t0' = (t + Retardo) % W32 /\ desde' = t + Retardo
      BY <1>2, <1>3, <1>4, <1>5, <1>7, <1>10, <1>20
    <2>2. (t + Retardo) % W32 \in 0 .. W32 - 1
      BY <1>11, Resto
    <2>3. n + 1 < MED_N
      BY <1>20 DEF MED_N
    <2>4. TypeOK'
      <3>1. Len(v') <= MED_N /\ v' \in Seq(-MSB .. MSB - 1)
        BY <1>7, <2>3 DEF Bits24, MED_N
      <3>2. t0' \in 0 .. W32 - 1 /\ desde' \in Nat /\ tick' \in Nat
        BY <1>11, <2>1, <2>2
      <3> QED BY <1>1, <1>3, <1>8, <1>11, <2>1, <3>1, <3>2 DEF TypeOK
    <2>5. LecturaFiel'
      BY <2>1 DEF LecturaFiel
    <2>6. TiempoInv'
      <3>1. t + Retardo - i <= (n + 1) * k /\ (t + Retardo) - (t + Retardo) <= Espera + 1
            /\ i <= t + Retardo /\ t + Retardo <= t + Retardo
        BY <1>15, <1>16, <1>17
      <3> QED BY <1>3, <1>7, <1>11, <1>12, <1>14, <2>1, <2>3, <3>1 DEF TiempoInv
    <2> QED BY <1>9, <1>18, <2>4, <2>5, <2>6 DEF BalanzaInv
  <1> QED BY <1>19, <1>20

(* The wiring changes nothing of the reading. *)
LEMMA BalanzaInvCable == BalanzaInv /\ (Cortar \/ Volver) => BalanzaInv'
  <1> SUFFICES ASSUME BalanzaInv, Cortar \/ Volver PROVE BalanzaInv'
    OBVIOUS
  <1>1. UNCHANGED <<pc, tick, t0, v, out_g, proxima, carga, picos, desde, inicio>>
    BY DEF Cortar, Volver
  <1>2. conectado' \in BOOLEAN /\ cortes' \in 0 .. MaxMal
    <2>1. cortes \in 0 .. MaxMal /\ conectado \in BOOLEAN
      BY DEF BalanzaInv, TypeOK
    <2>2. CASE Cortar
      <3>1. cortes < MaxMal /\ cortes' = cortes + 1
        BY <2>2 DEF Cortar
      <3>2. conectado' \in BOOLEAN
        BY <2>2 DEF Cortar
      <3>3. cortes + 1 \in 0 .. MaxMal
        BY <2>1, <3>1, BalanzaAssumption
      <3> QED BY <3>1, <3>2, <3>3
    <2>3. CASE Volver
      BY <2>1, <2>3 DEF Volver
    <2> QED BY <2>2, <2>3
  <1> QED BY <1>1, <1>2
          DEF BalanzaInv, TypeOK, TiempoInv, RuidoInv, Malo, LecturaFiel, LecturaAcotada

(* A reading keeps its types, its bound, and what it has measured so far,  *)
(* for every noise, load and pace of the converter.                        *)
THEOREM Lecturas == Spec => []BalanzaInv
  <1>1. BalanzaInv /\ UNCHANGED vars => BalanzaInv'
    BY DEF vars, BalanzaInv, TypeOK, TiempoInv, RuidoInv, Malo, LecturaFiel, LecturaAcotada
  <1>2. BalanzaInv /\ [Next]_vars => BalanzaInv'
    BY <1>1, BalanzaInvPedir, BalanzaInvSondear, BalanzaInvLee, BalanzaInvCable
       DEF Next, balanza_leer_gramos
  <1> QED BY BalanzaInvInit, <1>2, PTL DEF Spec

(* The variables of a reading and of the converter keep their types.       *)
THEOREM Tipos == Spec => []TypeOK
  <1>1. BalanzaInv => TypeOK
    BY DEF BalanzaInv
  <1> QED BY <1>1, Lecturas, PTL

(* What ObtenerPesoDispensador_g returns is the real weight, up to the     *)
(* noise of one conversion and half a gram.                                *)
THEOREM Fiel == Spec => []LecturaFiel
  <1>1. BalanzaInv => LecturaFiel
    BY DEF BalanzaInv
  <1> QED BY <1>1, Lecturas, PTL

(* A reading is over within MED_N timeouts. *)
THEOREM Acotada == Spec => []LecturaAcotada
  <1>1. BalanzaInv => LecturaAcotada
    BY DEF BalanzaInv
  <1> QED BY <1>1, Lecturas, PTL

(* As long as tickRead() fits in 32 bits, a reading is only given up after *)
(* the timeout: the truncated t0 of hx711_wait_ready is then the real one. *)
THEOREM EsperaEntera == Spec /\ [](tick < W32) => FallaTrasEspera
  <1>1. BalanzaInv /\ tick < W32 /\ [Next]_vars =>
          [pc = "esperar" /\ pc' = "libre" /\ out_g' = -1 => tick - desde > Espera]_vars
    <2> SUFFICES ASSUME BalanzaInv, tick < W32, Next,
                        pc = "esperar", pc' = "libre", out_g' = -1
                 PROVE  tick - desde > Espera
      OBVIOUS
    <2>1. TypeOK /\ TiempoInv
      BY DEF BalanzaInv
    <2>2. ~hx711_read_raw
      <3> SUFFICES ASSUME hx711_read_raw PROVE FALSE
        OBVIOUS
      <3>1. TypeOK' /\ v' \in Seq(Bits24)
        BY BalanzaInvLee DEF BalanzaInv, TypeOK, Bits24
      <3>2. UNCHANGED pc \/ (out_g' = Gramos(sort_and_median5_i32(v')) /\ Len(v') = MED_N)
        BY DEF hx711_read_raw
      <3>3. PICK a \in Seq(Bits24) : a = v'
        BY <3>1
      <3>4. out_g' \in Nat
        BY <3>2, <3>3, GramosNat, MedianaTipo
      <3> QED BY <3>4
    <2>3. Vencida
      BY <2>2 DEF Next, balanza_leer_gramos, Pedir, Sondear, Cortar, Volver
    <2>4. t0 = desde
      <3>1. desde \in Nat /\ desde < W32 /\ t0 = desde % W32 /\ W32 \in Nat \ {0}
        BY <2>1, BalanzaAssumption DEF TypeOK, TiempoInv
      <3>2. PICK w \in Nat \ {0} : w = W32
        BY <3>1
      <3>3. ASSUME NEW x \in Nat, x < w PROVE x % w = x
        BY <3>3, Resto
      <3> QED BY <3>1, <3>2, <3>3
    <2> QED BY <2>3, <2>4 DEF Vencida
  <1> QED BY <1>1, Lecturas, PTL DEF Spec, FallaTrasEspera

-----------------------------------------------------------------------------
(* A reading as Dispensado takes it                                        *)

(* Two whole numbers of grams that are near the same weight are near each  *)
(* other: the rounding of one and the noise and rounding of the other.     *)
LEMMA Cercanos ==
  ASSUME NEW d \in Nat \ {0}, NEW n \in Nat, NEW a \in Int, NEW b \in Int, NEW w \in Int,
         2 * Valor(d * a - w) <= 2 * n + d, 2 * Valor(d * b - w) <= d
  PROVE  a - b \in -((n \div d) + 1) .. (n \div d) + 1
  <1> DEFINE q == n \div d
  <1>1. q \in Nat /\ n < d * q + d
    BY Cociente
  <1> HIDE DEF q
  <1>2. d * a \in Int /\ d * b \in Int /\ d * q \in Nat
    BY <1>1
  <1>3. d * a - d * b <= n + d /\ d * b - d * a <= n + d
    BY <1>2 DEF Valor
  <1>4. d * a < d * b + (d * q + 2 * d) /\ d * b < d * a + (d * q + 2 * d)
    BY <1>1, <1>2, <1>3
  <1>5. \A k, l \in Int : d * k < d * l => k < l
    <2>1. ASSUME NEW k \in Int, NEW l \in Int, l <= k PROVE d * l <= d * k
      BY <2>1
    <2> QED BY <2>1
  <1>6. d * (b + q + 2) = d * b + (d * q + 2 * d) /\ d * (a + q + 2) = d * a + (d * q + 2 * d)
    BY <1>1
  <1>7. a < b + q + 2 /\ b < a + q + 2
    BY <1>1, <1>4, <1>5, <1>6
  <1> QED BY <1>1, <1>7 DEF q

(* A weight that is faithful is one of those that the abstract reading may *)
(* return for the grams on the scale.                                      *)
LEMMA EnLecturas ==
  ASSUME NEW y \in Nat, carga \in Int,
         2 * Valor(Den * y - Num * Valor(carga - Tara)) <= 2 * Num * RuidoCuentas + Den
  PROVE  y \in L!Lecturas(PesoGramos)
  <1> USE BalanzaAssumption, RuidoAssumption
  <1> DEFINE x == Gramos(carga)
             w == Num * Valor(carga - Tara)
             n == Num * RuidoCuentas
  <1>1. w \in Int /\ n \in Nat /\ 2 * Num * RuidoCuentas = 2 * n
    <2>1. Valor(carga - Tara) \in Nat
      BY DEF Valor
    <2> HIDE DEF w
    <2>2. \A k, l \in Nat : k * l \in Nat /\ 2 * k * l = 2 * (k * l)
      OBVIOUS
    <2> QED BY <2>1, <2>2 DEF w
  <1>2. x \in Nat /\ 2 * Valor(Den * x - w) <= Den
    <2>1. 2 * Num * 0 + Den = Den
      OBVIOUS
    <2>2. 0 \in Nat /\ carga - 0 <= carga /\ carga <= carga + 0
      OBVIOUS
    <2>3. x \in Nat /\ 2 * Valor(Den * x - w) <= 2 * Num * 0 + Den
      BY <2>2, GramosCerca
    <2> HIDE DEF x, w
    <2> QED BY <2>1, <2>3
  <1>3. RuidoGramos = (n \div Den) + 1
    BY DEF RuidoGramos
  <1> HIDE DEF x, w, n
  <1>4. y - x \in -RuidoGramos .. RuidoGramos
    <2>1. 2 * Valor(Den * y - w) <= 2 * n + Den
      BY <1>1 DEF w, n
    <2>2. Den \in Nat \ {0} /\ y \in Int /\ x \in Int
      BY <1>2
    <2>3. y - x \in -((n \div Den) + 1) .. (n \div Den) + 1
      BY <1>1, <1>2, <2>1, <2>2, Cercanos
    <2> QED BY <1>3, <2>3
  <1>5. RuidoGramos \in Nat
    BY <1>1, <1>3, Cociente
  <1>6. \E e \in -RuidoGramos .. RuidoGramos : y = L!Abs(PesoGramos + e)
    <2>1. CASE carga < Tara
      <3>1. PesoGramos = -x
        BY <2>1 DEF PesoGramos, x
      <3>2. x - y \in -RuidoGramos .. RuidoGramos /\ y = L!Abs(-x + (x - y))
        BY <1>2, <1>4, <1>5 DEF L!Abs
      <3> QED BY <3>1, <3>2
    <2>2. CASE ~(carga < Tara)
      <3>1. PesoGramos = x
        BY <2>2 DEF PesoGramos, x
      <3>2. y = L!Abs(x + (y - x))
        BY <1>2 DEF L!Abs
      <3> QED BY <1>4, <3>1, <3>2
    <2> QED BY <2>1, <2>2
  <1> QED BY <1>6 DEF L!Lecturas

LEMMA PesoTipo ==
  ASSUME carga \in Int
  PROVE  PesoGramos \in Int
  BY GramosNat DEF PesoGramos

(* The longest that a reading may take. *)
Plazos == MED_N * (Espera + 1 + Retardo)

LEMMA PasoPedir ==
  ASSUME BalanzaInv, Pedir
  PROVE  L!Llamar
  <1>1. carga' \in Int /\ tick' \in Nat
    BY BalanzaAssumption, RuidoAssumption DEF Pedir
  <1>2. PesoGramos' \in Int
    BY <1>1, GramosNat DEF PesoGramos
  <1> QED BY <1>1, <1>2 DEF Pedir, L!Llamar

LEMMA PasoSondear ==
  ASSUME BalanzaInv, Sondear
  PROVE  L!Medir \/ L!Responder
  <1>1. BalanzaInv' /\ TypeOK /\ TypeOK'
    BY BalanzaInvSondear DEF BalanzaInv
  <1>2. UNCHANGED <<inicio, carga>> /\ PesoGramos' = PesoGramos
    BY DEF Sondear, PesoGramos
  <1>3. tick' \in tick .. inicio + Plazos
    <2>1. tick' - inicio' <= Plazos /\ tick' \in {tick, tick + 1} /\ tick \in Nat /\ inicio \in Nat
      BY <1>1 DEF BalanzaInv, LecturaAcotada, Plazos, Sondear, TypeOK
    <2>2. Plazos \in Nat /\ inicio' = inicio
      BY <1>2, BalanzaAssumption DEF Plazos, MED_N
    <2>3. PICK a \in Nat, b \in Nat, c \in Nat : a = tick /\ b = inicio /\ c = Plazos
      BY <2>1, <2>2
    <2>4. ASSUME NEW x \in {a, a + 1}, x - b <= c PROVE x \in a .. b + c
      BY <2>4
    <2> QED BY <2>1, <2>2, <2>3, <2>4
  <1>4. CASE Vencida
    <2>1. tick' = tick /\ tick >= inicio + 0
      <3>1. tick' = tick
        BY <1>4 DEF Sondear
      <3> QED BY <1>1, <3>1 DEF BalanzaInv, TiempoInv, TypeOK
    <2>2. pc = "esperar" /\ pc' = "libre" /\ out_g' = -1
      BY <1>4 DEF Sondear
    <2> QED BY <1>2, <1>3, <2>1, <2>2 DEF L!Responder, L!Lecturas, Plazos
  <1>5. CASE ~Vencida
    <2>1. pc = "esperar" /\ pc' = pc /\ out_g' = out_g
      BY <1>5 DEF Sondear
    <2> QED BY <1>2, <1>3, <2>1 DEF L!Medir, Plazos
  <1> QED BY <1>4, <1>5

LEMMA PasoLee ==
  ASSUME BalanzaInv, hx711_read_raw
  PROVE  L!Medir \/ L!Responder
  <1>1. BalanzaInv' /\ TypeOK /\ TypeOK'
    BY BalanzaInvLee DEF BalanzaInv
  <1>2. pc = "esperar" /\ tick' = tick + Retardo /\ UNCHANGED <<inicio, carga>>
    BY DEF hx711_read_raw
  <1>3. PesoGramos' = PesoGramos
    BY <1>2 DEF PesoGramos
  <1>4. tick' \in tick .. inicio + Plazos /\ tick' >= inicio + 0
    <2>1. tick \in Nat /\ inicio \in Nat /\ inicio <= tick
      BY <1>1 DEF BalanzaInv, TypeOK, TiempoInv
    <2>2. Plazos \in Nat /\ Retardo \in Nat
      BY BalanzaAssumption DEF Plazos, MED_N
    <2>3. PICK a \in Nat, b \in Nat, c \in Nat : a = tick /\ b = inicio /\ c = Plazos
      BY <2>1, <2>2
    <2>4. a + Retardo - b <= c
      <3>1. tick' - inicio' <= Plazos
        BY <1>1 DEF BalanzaInv, LecturaAcotada, Plazos
      <3> QED BY <1>2, <2>2, <2>3, <3>1
    <2>5. a + Retardo \in a .. b + c /\ a + Retardo >= b + 0
      BY <2>1, <2>2, <2>3, <2>4
    <2> QED BY <1>2, <2>3, <2>5
  <1>5. CASE pc' = "esperar"
    <2>1. out_g' = out_g
      BY <1>5 DEF hx711_read_raw
    <2> QED BY <1>2, <1>3, <1>4, <1>5, <2>1 DEF L!Medir, Plazos
  <1>6. CASE pc' # "esperar"
    <2>1. pc' = "libre" /\ Len(v') = MED_N /\ out_g' = Gramos(sort_and_median5_i32(v'))
      BY <1>2, <1>6 DEF hx711_read_raw
    <2>2. out_g' \in Nat
      <3>1. v' \in Seq(Bits24)
        BY <1>1 DEF TypeOK, Bits24
      <3>2. PICK a \in Seq(Bits24) : a = v'
        BY <3>1
      <3> QED BY <2>1, <3>2, GramosNat, MedianaTipo
    <2>3. /\ carga \in Int
          /\ 2 * Valor(Den * out_g' - Num * Valor(carga - Tara)) <= 2 * Num * RuidoCuentas + Den
      BY <1>1, <1>2, <2>1, <2>2, RuidoAssumption DEF BalanzaInv, LecturaFiel, TypeOK
    <2>4. PICK y \in Nat : y = out_g'
      BY <2>2
    <2>5. out_g' \in L!Lecturas(PesoGramos)
      BY <2>3, <2>4, EnLecturas
    <2> QED BY <1>2, <1>3, <1>4, <2>1, <2>5 DEF L!Responder, Plazos
  <1> QED BY <1>5, <1>6

(* A reading of the scale is one that Dispensado counts on: it ends in     *)
(* time, with -1 or the weight of this very call, whatever the load, the   *)
(* noise, the pace of the converter and two spoiled conversions.           *)
THEOREM Cumple == Spec => CumpleLectura
  <1>1. Init => L!LecturaInit
    <2> SUFFICES ASSUME Init PROVE L!LecturaInit
      OBVIOUS
    <2>1. carga \in Int
      BY RuidoAssumption DEF Init
    <2> QED BY <2>1, PesoTipo DEF Init, L!LecturaInit
  <1>2. BalanzaInv /\ [Next]_vars => [L!LecturaNext]_(L!lectura)
    <2> SUFFICES ASSUME BalanzaInv, [Next]_vars
                 PROVE  L!LecturaNext \/ UNCHANGED L!lectura
      OBVIOUS
    <2>1. ASSUME UNCHANGED <<pc, tick, out_g, carga, inicio>> PROVE UNCHANGED L!lectura
      BY <2>1 DEF L!lectura, PesoGramos
    <2>2. CASE Cortar \/ Volver
      BY <2>1, <2>2 DEF Cortar, Volver
    <2>3. CASE UNCHANGED vars
      BY <2>1, <2>3 DEF vars
    <2> QED BY <2>2, <2>3, PasoPedir, PasoSondear, PasoLee
            DEF Next, balanza_leer_gramos, L!LecturaNext
  <1> QED BY <1>1, <1>2, Lecturas, PTL DEF Spec, CumpleLectura, L!LecturaSpec

=============================================================================
