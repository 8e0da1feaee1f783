---------------------------- MODULE ColaPeticiones ----------------------------
(***************************************************************************)
(* What the request pool of servidor/servidor.c promises, with no threads, *)
(* locks or indices: a bounded FIFO queue of requests, a set of workers    *)
(* each holding at most one of them, and the set of those already treated. *)
(* ThreadPool is shown to implement this module.                           *)
(***************************************************************************)
EXTENDS Naturals, Sequences

CONSTANTS
  Workers,         \* the threads of the pool
  Peticiones,      \* the requests that clients send, one per connection
  SinPeticion,     \* "no request"
  MAX_PETICIONES   \* capacity of the queue

VARIABLES
  cola,       \* requests accepted and not yet taken, oldest first
  servicio,   \* the request each worker is serving
  tratadas,   \* requests whose treatment has finished
  estado      \* "abierta", "cerrada" (no more requests), "terminada", "muerta"

vars == <<cola, servicio, tratadas, estado>>

EnCola == {cola[i] : i \in 1 .. Len(cola)}
EnServicio == {servicio[w] : w \in Workers}

Init ==
  /\ cola = <<>>
  /\ servicio = [w \in Workers |-> SinPeticion]
  /\ tratadas = {}
  /\ estado = "abierta"

\* A request enters the queue once in its life.
Encolar(p) ==
  /\ estado = "abierta"
  /\ Len(cola) < MAX_PETICIONES
  /\ p \notin EnCola \cup EnServicio \cup tratadas
  /\ cola' = Append(cola, p)
  /\ UNCHANGED <<servicio, tratadas, estado>>

\* An idle worker takes the oldest request.
Sacar(w) ==
  /\ estado \in {"abierta", "cerrada"}
  /\ servicio[w] = SinPeticion
  /\ cola # <<>>
  /\ servicio' = [servicio EXCEPT ![w] = Head(cola)]
  /\ cola' = Tail(cola)
  /\ UNCHANGED <<tratadas, estado>>

Tratar(w) ==
  /\ estado \in {"abierta", "cerrada"}
  /\ servicio[w] # SinPeticion
  /\ tratadas' = tratadas \cup {servicio[w]}
  /\ servicio' = [servicio EXCEPT ![w] = SinPeticion]
  /\ UNCHANGED <<cola, estado>>

Cerrar ==
  /\ estado = "abierta"
  /\ estado' = "cerrada"
  /\ UNCHANGED <<cola, servicio, tratadas>>

\* An orderly shutdown leaves nothing behind.
Terminar ==
  /\ estado = "cerrada"
  /\ cola = <<>>
  /\ EnServicio \subseteq {SinPeticion}
  /\ estado' = "terminada"
  /\ UNCHANGED <<cola, servicio, tratadas>>

\* The process dies: the queue and the requests in service are lost.
Morir ==
  /\ estado \in {"abierta", "cerrada"}
  /\ estado' = "muerta"
  /\ cola' = <<>>
  /\ servicio' = [w \in Workers |-> SinPeticion]
  /\ UNCHANGED tratadas

Next ==
  \/ \E p \in Peticiones : Encolar(p)
  \/ \E w \in Workers : Sacar(w) \/ Tratar(w)
  \/ Cerrar
  \/ Terminar
  \/ Morir

Spec == Init /\ [][Next]_vars
===============================================================================
