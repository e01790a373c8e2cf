------------------------------ MODULE Agenda ------------------------------
(***************************************************************************)
(* What the firmware promises about the dispense "at time X", without the  *)
(* flags, the static local and the loop phases that implement it: there is *)
(* at most one request, it is served only while the clock shows its        *)
(* minute, and the clock does not leave a minute with a request unserved   *)
(* that was already pending when that minute began.                        *)
(***************************************************************************)
CONSTANTS
  Instantes,        \* the minutes of the day
  Despues(_, _),    \* Despues(a, b): minute b follows minute a
  Nada              \* no request

VARIABLES
  ahora,       \* the minute the clock shows
  pendiente,   \* the minute of the pending request, or Nada
  firme        \* the pending request was there when the minute began

agenda == <<ahora, pendiente, firme>>

(* Time may pass into the next minute during any operation; a new minute   *)
(* finds the request that the operation leaves pending.                    *)
Reloj(sigue) ==
  \/ /\ ahora' = ahora
     /\ firme' = (sigue /\ firme)
  \/ /\ Despues(ahora, ahora')
     /\ firme' = (pendiente' # Nada)

Pedir ==
  /\ pendiente' \in Instantes
  /\ Reloj(FALSE)
  /\ ~(firme /\ pendiente = ahora /\ ahora' # ahora)

Servir ==
  /\ pendiente = ahora
  /\ pendiente' = Nada
  /\ Reloj(FALSE)

Esperar ==
  /\ pendiente' = pendiente
  /\ Reloj(TRUE)
  /\ ~(firme /\ pendiente = ahora /\ ahora' # ahora)

AgendaInit ==
  /\ ahora \in Instantes
  /\ pendiente = Nada
  /\ firme = FALSE

AgendaNext == Pedir \/ Servir \/ Esperar

AgendaSpec == AgendaInit /\ [][AgendaNext]_agenda

=============================================================================
