------------------------------- MODULE Enlace -------------------------------
(***************************************************************************)
(* What the link with the app promises, without bytes, headers and buffers.*)
(* Requests are numbered in the order in which they are sent.  Any of them *)
(* may get lost or spoiled, and a spoiled one may still be executed, much  *)
(* later and with the connection of an older one; but                      *)
(*   - requests are executed in their order and each at most once,         *)
(*   - a connection is answered at most once, and not for a request older  *)
(*     than its own,                                                       *)
(*   - a connection whose request is whole is answered for that request.   *)
(***************************************************************************)
EXTENDS Integers

VARIABLES
  enviados,   \* how many requests were sent
  rotos,      \* the ones that are not whole any more
  curso,      \* the event being handled, its request and connection, or Libre
  ultimo      \* the last event

enlace == <<enviados, rotos, curso, ultimo>>

Libre == [r |-> 0, conn |-> 0]
Sucesos == [r : 1 .. enviados, conn : 1 .. enviados]

Enviar ==
  /\ enviados' = enviados + 1
  /\ UNCHANGED <<rotos, curso, ultimo>>

Estropear(r) ==
  /\ rotos' = rotos \cup {r}
  /\ UNCHANGED <<enviados, curso, ultimo>>

Atender(e) ==
  /\ curso = Libre
  /\ e.r > ultimo.r /\ e.conn > ultimo.conn /\ e.r >= e.conn
  /\ e.conn \notin rotos => e.r = e.conn
  /\ curso' = e /\ ultimo' = e
  /\ UNCHANGED <<enviados, rotos>>

Terminar ==
  /\ curso # Libre
  /\ curso' = Libre
  /\ UNCHANGED <<enviados, rotos, ultimo>>

EnlaceInit == enviados = 0 /\ rotos = {} /\ curso = Libre /\ ultimo = Libre

EnlaceNext ==
  \/ Enviar
  \/ \E r \in 1 .. enviados : Estropear(r)
  \/ \E e \in Sucesos : Atender(e)
  \/ Terminar

EnlaceSpec == EnlaceInit /\ [][EnlaceNext]_enlace

=============================================================================
