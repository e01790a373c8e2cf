------------------------------- MODULE Pesada -------------------------------
(***************************************************************************)
(* What one reading of the scale may say and how long it may take.  The    *)
(* dispensing relies on it, and the reading itself has to keep it.         *)
(***************************************************************************)
EXTENDS Integers

CONSTANTS
  LectMin, LectMax,     \* how long a reading takes, failed ones included
  Ruido                 \* largest error of a median of five, in grams

(* The magnitude of what the scale holds, give or take the noise, or -1    *)
(* when the converter does not answer in time.                             *)

\* Mutant: the sign of a weight below the tare is kept.
Abs_crudo(x) == x

Abs(x) == IF x < 0 THEN -x ELSE x

Lecturas(x) == {Abs(x + e) : e \in -Ruido .. Ruido} \cup {-1}

=============================================================================
