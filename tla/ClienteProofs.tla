----------------------------- MODULE ClienteProofs -----------------------------
(***************************************************************************)
(* The clients of the platform for any number of processes, users and      *)
(* addresses, any commands and any failures: what a client believes, where *)
(* its thread is, and to which thread a GET_FILE goes.                     *)
(***************************************************************************)
EXTENDS Cliente, SequenceTheorems, TLAPS

-------------------------------------------------------------------------------
(* The invariants.  A process is its record c; H is the state of the threads. *)

\* A thread that has its port and was not told to stop.
Vivos == {"atado", "roto"} \cup Escuchan

\* A thread whose port is taken.
Ocupa(t) == t.pc \in {"atado"} \cup Escuchan

\* The thread of c was started by p for u, has the port c announces and may go on
\* serving.
Enlazado(p, c, u, H) ==
  /\ c.server_thread \in Hilos
  /\ c.server_thread_port \in Direcciones
  /\ ~c.stop_event
  /\ H[c.server_thread].puerto = c.server_thread_port
  /\ H[c.server_thread].de = p
  /\ H[c.server_thread].para = u
  /\ H[c.server_thread].pc \in Vivos

\* Address a was given to a thread that a CONNECT of u started (Fue).
FueEn(H, u, a) == \E h \in Hilos : H[h].para = u /\ H[h].puerto = a

\* How the command, the request, the active user and the connection go together.
Coherente(c) ==
  /\ c.pc \in {"finally", "roto"} /\ c.pet = "DISCONNECT" => c.active_user = Nadie
  /\ c.orden.op = "GET_FILE" => c.pet = "LIST_USERS"
  /\ c.pc \in {"busca", "par", "talla", "recibe"} => c.orden.op = "GET_FILE"
  /\ c.par # "nada" => c.pc \in {"par", "talla", "recibe", "gira"} /\ c.orden.op = "GET_FILE"
  /\ c.pc = "espera" => c.pet = "CONNECT"
  /\ c.pc \in {"espera", "conecta", "peticion", "respuesta"} /\ c.pet = "CONNECT"
       => c.active_user = Nadie

\* The thread of a CONNECT, from its start to the end of the session.
Conexion(p, c, H) ==
  /\ c.active_user # Nadie => Enlazado(p, c, c.active_user, H)
  /\ c.pc \in {"conecta", "peticion", "respuesta"} /\ c.pet = "CONNECT"
       => Enlazado(p, c, c.orden.user, H)
  /\ c.pc = "espera" =>
       /\ c.server_thread \in Hilos
       /\ ~c.stop_event
       /\ H[c.server_thread].de = p
       /\ H[c.server_thread].para = c.orden.user
       /\ c.server_thread_port # Nadie => Enlazado(p, c, c.orden.user, H)

\* Every address in a list is of the user it stands beside.
Listas(c, H) == \A e \in c.database_listusers \cup c.lista : FueEn(H, e[1], e[2])

ProcOK(p, c, H) ==
  /\ c \in EstadoProceso
  /\ c.hechas <= MAX_ORDENES[p]
  /\ Coherente(c)
  /\ Conexion(p, c, H)
  /\ Listas(c, H)

\* A thread has an owner from its start, a connection while it serves one, and
\* until it has its port its owner waits for it.
HiloOK(h, t, C) ==
  /\ t \in EstadoHilo
  /\ t.pc = "no" => t.de = Nadie /\ t.para = Nadie
  /\ t.pc # "no" => t.de \in Clientes
  /\ t.pc \in {"no", "creado"} => t.puerto = Nadie
  /\ t.pc \in Vivos => t.puerto \in Direcciones
  /\ t.pc \in {"lee", "envia", "datos"} => t.con # Nadie
  /\ t.pc = "creado" => C[t.de].pc = "espera" /\ C[t.de].server_thread = h

\* A connection of p is served by thread t or waits for it.
EnHilo(t, p) == t.con = p \/ Contains(t.cola, p)

\* Thread t has at most one connection of p.
Unico(t, p) ==
  /\ t.con = p => ~Contains(t.cola, p)
  /\ \A i, j \in 1 .. Len(t.cola) : t.cola[i] = p /\ t.cola[j] = p => i = j

\* Thread h is where a connection to the user asked for goes: it is that user's, or
\* the one that has the port of that user's thread, which has ended.
Destino(c, h, H) ==
  /\ H[h].puerto \in Direcciones
  /\ \E g \in Hilos :
       /\ H[g].para = c.orden.user /\ H[g].puerto = H[h].puerto
       /\ g = h \/ H[g].pc \in {"muerto", "roto"}

\* While a thread has p's connection, p is in a GET_FILE that goes there and sees
\* the connection open.
Abierta(c, h, H) ==
  /\ c.par = "abierto"
  /\ c.pc \in {"par", "talla", "recibe"}
  /\ Destino(c, h, H)

ParInv ==
  /\ \A p \in Clientes, h, g \in Hilos :
       EnHilo(hilo[h], p) /\ EnHilo(hilo[g], p) => h = g
  /\ \A p \in Clientes, h \in Hilos :
       /\ Unico(hilo[h], p)
       /\ EnHilo(hilo[h], p) => Abierta(cliente[p], h, hilo)

\* No two threads have the same port at the same time.
PuertosOK(H) ==
  \A h, g \in Hilos : Ocupa(H[h]) /\ Ocupa(H[g]) /\ H[h].puerto = H[g].puerto => h = g

MemInv ==
  /\ cliente \in [Clientes -> EstadoProceso]
  /\ hilo \in [Hilos -> EstadoHilo]
  /\ \A p \in Clientes : ProcOK(p, cliente[p], hilo)
  /\ \A h \in Hilos : HiloOK(h, hilo[h], cliente)
  /\ PuertosOK(hilo)
  /\ ParInv

\* The addresses at the server, and in the requests left behind.
DirInv ==
  /\ active_users \in [Nombres -> Direcciones \cup {Vacio, NoFile}]
  /\ \A u \in Nombres :
       active_users[u] \in Direcciones => FueEn(hilo, u, active_users[u])
  /\ \A r \in abandonadas : r.command_str = "CONNECT" =>
       r.user_addr \in Direcciones /\ FueEn(hilo, r.client_user_name, r.user_addr)

CliInv == MemInv /\ DirInv /\ averias \in 0 .. MAX_AVERIAS

-------------------------------------------------------------------------------
(* Threads and their connections. *)

\* s has no connection that t does not have, and none more often.
Menos(t, s) ==
  \A p \in Clientes : /\ EnHilo(s, p) => EnHilo(t, p)
                      /\ Unico(t, p) => Unico(s, p)

Colas == Seq(Clientes \cup {Cortada})

LEMMA NadieCortada ==
  /\ Nadie \notin Clientes /\ Nadie # Cortada /\ Cortada \notin Clientes
  /\ Nadie \notin Direcciones /\ Nadie \notin Nombres /\ Nadie \notin Hilos
  BY ClienteAssumption

\* The first connection of the queue is accepted.
LEMMA ColaAcepta ==
  ASSUME NEW t \in EstadoHilo, NEW s \in EstadoHilo, t.cola # <<>>,
         s.con = Head(t.cola), s.cola = Tail(t.cola)
  PROVE  Menos(t, s)
  <1>1. /\ t.cola \in Colas /\ Len(t.cola) \in Nat /\ Len(t.cola) > 0
        /\ s.cola \in Colas /\ Len(s.cola) = Len(t.cola) - 1
        /\ s.con = t.cola[1]
        /\ \A i \in 1 .. Len(t.cola) - 1 : s.cola[i] = t.cola[i + 1]
    BY DEF EstadoHilo, Colas
  <1>2. ASSUME NEW i \in 1 .. Len(s.cola)
        PROVE  i + 1 \in 1 .. Len(t.cola) /\ s.cola[i] = t.cola[i + 1]
    BY <1>1
  <1>3. 1 \in 1 .. Len(t.cola)
    BY <1>1
  <1>4. ASSUME NEW p \in Clientes, EnHilo(s, p) PROVE EnHilo(t, p)
    BY <1>1, <1>2, <1>3, <1>4 DEF EnHilo, Contains
  <1>5. ASSUME NEW p \in Clientes, Unico(t, p) PROVE Unico(s, p)
    <2>1. ASSUME s.con = p, NEW i \in 1 .. Len(s.cola), s.cola[i] = p PROVE FALSE
      BY <1>1, <1>2, <1>3, <1>5, <2>1 DEF Unico
    <2>2. ASSUME NEW i \in 1 .. Len(s.cola), NEW j \in 1 .. Len(s.cola),
                 s.cola[i] = p, s.cola[j] = p
          PROVE  i = j
      <3>1. i + 1 = j + 1
        BY <1>2, <1>5, <2>2 DEF Unico
      <3> QED BY <3>1
    <2> QED BY <2>1, <2>2 DEF Unico, Contains
  <1> QED BY <1>4, <1>5 DEF Menos

\* A thread with no connections.
LEMMA ColaVacia ==
  ASSUME NEW t, NEW s, s.con \notin Clientes, s.cola = <<>>
  PROVE  Menos(t, s) /\ \A p \in Clientes : ~EnHilo(s, p)
  BY DEF Menos, EnHilo, Unico, Contains

\* A connection that was being served is closed, or goes on.
LEMMA ColaIgual ==
  ASSUME NEW t, NEW s, s.con \notin Clientes \/ s.con = t.con, s.cola = t.cola
  PROVE  Menos(t, s)
  BY DEF Menos, EnHilo, Unico, Contains

\* Those that p had are cut.
LEMMA ColaCierra ==
  ASSUME NEW t \in EstadoHilo, NEW s, NEW p \in Clientes \cup {Cortada},
         s.con = IF t.con = p THEN Cortada ELSE t.con,
         s.cola = [i \in DOMAIN t.cola |-> IF t.cola[i] = p THEN Cortada ELSE t.cola[i]]
  PROVE  /\ s.cola \in Colas
         /\ Menos(t, s)
         /\ p \in Clientes => ~EnHilo(s, p)
  <1>1. /\ t.cola \in Colas /\ Len(t.cola) \in Nat
        /\ DOMAIN t.cola = 1 .. Len(t.cola)
        /\ \A i \in 1 .. Len(t.cola) : t.cola[i] \in Clientes \cup {Cortada}
    BY DEF EstadoHilo, Colas
  <1>2. /\ s.cola \in Colas /\ Len(s.cola) = Len(t.cola)
        /\ \A i \in 1 .. Len(t.cola) :
             s.cola[i] = IF t.cola[i] = p THEN Cortada ELSE t.cola[i]
    BY <1>1, NadieCortada DEF Colas
  <1>3. Cortada \notin Clientes
    BY NadieCortada
  <1>4. ASSUME NEW q \in Clientes, EnHilo(s, q) PROVE EnHilo(t, q) /\ q # p
    BY <1>2, <1>3, <1>4 DEF EnHilo, Contains
  <1>5. ASSUME NEW q \in Clientes, Unico(t, q) PROVE Unico(s, q)
    BY <1>2, <1>3, <1>5 DEF Unico, Contains
  <1> QED BY <1>2, <1>4, <1>5 DEF Menos

\* p joins the queue of a thread that did not have it.
LEMMA ColaEntra ==
  ASSUME NEW t \in EstadoHilo, NEW s, NEW p \in Clientes,
         s.con = t.con, s.cola = Append(t.cola, p), ~EnHilo(t, p)
  PROVE  /\ s.cola \in Colas
         /\ \A q \in Clientes : /\ EnHilo(s, q) => EnHilo(t, q) \/ q = p
                                /\ Unico(t, q) => Unico(s, q)
  <1>1. /\ t.cola \in Colas /\ Len(t.cola) \in Nat
        /\ s.cola \in Colas /\ Len(s.cola) = Len(t.cola) + 1
        /\ \A i \in 1 .. Len(t.cola) : s.cola[i] = t.cola[i]
        /\ s.cola[Len(t.cola) + 1] = p
    BY DEF EstadoHilo, Colas
  <1>2. ASSUME NEW i \in 1 .. Len(s.cola)
        PROVE  \/ i \in 1 .. Len(t.cola) /\ s.cola[i] = t.cola[i]
               \/ i = Len(t.cola) + 1 /\ s.cola[i] = p
    BY <1>1
  <1>3. ASSUME NEW i \in 1 .. Len(t.cola) PROVE t.cola[i] # p
    BY DEF EnHilo, Contains
  <1>4. ASSUME NEW q \in Clientes, EnHilo(s, q) PROVE EnHilo(t, q) \/ q = p
    BY <1>2, <1>4 DEF EnHilo, Contains
  <1>5. ASSUME NEW q \in Clientes, Unico(t, q) PROVE Unico(s, q)
    <2>1. ASSUME s.con = q, NEW i \in 1 .. Len(s.cola), s.cola[i] = q PROVE FALSE
      BY <1>2, <1>5, <2>1 DEF Unico, EnHilo, Contains
    <2>2. ASSUME NEW i \in 1 .. Len(s.cola), NEW j \in 1 .. Len(s.cola),
                 s.cola[i] = q, s.cola[j] = q
          PROVE  i = j
      BY <1>2, <1>3, <1>5, <2>2 DEF Unico
    <2> QED BY <2>1, <2>2 DEF Unico, Contains
  <1> QED BY <1>1, <1>4, <1>5

-------------------------------------------------------------------------------
(* What a step leaves of the rest. *)

\* A thread keeps its owner, its user and its port, and stays dead.
Persiste(H, G) ==
  \A h \in Hilos :
    /\ H[h].pc # "no" => G[h].pc # "no" /\ G[h].de = H[h].de /\ G[h].para = H[h].para
    /\ H[h].puerto # Nadie => G[h].puerto = H[h].puerto /\ G[h].para = H[h].para
    /\ H[h].pc \in {"muerto", "roto"} => G[h].pc \in {"muerto", "roto"}

\* The thread of c, which p started, goes on unless it was told to stop.
Sigue(p, c, H, G) ==
  LET h == c.server_thread
  IN  h \in Hilos /\ ~c.stop_event /\ H[h].de = p /\ H[h].pc \in Vivos
        => G[h].pc \in Vivos

LEMMA FueSiempre ==
  ASSUME NEW H, NEW G, Persiste(H, G), NEW u, NEW a \in Direcciones, FueEn(H, u, a)
  PROVE  FueEn(G, u, a)
  BY NadieCortada DEF Persiste, FueEn

LEMMA DestinoSigue ==
  ASSUME NEW H, NEW G, Persiste(H, G), NEW c, NEW d, d.orden = c.orden,
         NEW h \in Hilos, Destino(c, h, H)
  PROVE  Destino(d, h, G)
  <1>1. PICK g \in Hilos : /\ H[g].para = c.orden.user /\ H[g].puerto = H[h].puerto
                           /\ g = h \/ H[g].pc \in {"muerto", "roto"}
    BY DEF Destino
  <1>2. H[h].puerto \in Direcciones /\ H[h].puerto # Nadie
    BY NadieCortada DEF Destino
  <1>3. /\ G[h].puerto = H[h].puerto
        /\ G[g].puerto = H[g].puerto /\ G[g].para = H[g].para
        /\ g = h \/ G[g].pc \in {"muerto", "roto"}
    BY <1>1, <1>2 DEF Persiste
  <1> QED BY <1>1, <1>2, <1>3 DEF Destino

LEMMA ProcPersiste ==
  ASSUME NEW H, NEW G, NEW C, Persiste(H, G),
         \A h \in Hilos : HiloOK(h, H[h], C),
         NEW p \in Clientes, NEW c, ProcOK(p, c, H), Sigue(p, c, H, G)
  PROVE  ProcOK(p, c, G)
  <1>1. ASSUME NEW h \in Hilos, H[h].de = p
        PROVE  G[h].de = H[h].de /\ G[h].para = H[h].para
    BY <1>1, NadieCortada DEF Persiste, HiloOK
  <1>2. ASSUME NEW u, Enlazado(p, c, u, H) PROVE Enlazado(p, c, u, G)
    <2>1. /\ c.server_thread \in Hilos /\ H[c.server_thread].de = p
          /\ H[c.server_thread].puerto # Nadie
      BY <1>2, NadieCortada DEF Enlazado
    <2>2. /\ G[c.server_thread].puerto = H[c.server_thread].puerto
          /\ G[c.server_thread].de = p
          /\ G[c.server_thread].para = H[c.server_thread].para
      BY <1>1, <2>1 DEF Persiste
    <2>3. G[c.server_thread].pc \in Vivos
      BY <1>2, <2>1 DEF Enlazado, Sigue
    <2> QED BY <1>2, <2>2, <2>3 DEF Enlazado
  <1>3. Conexion(p, c, G)
    BY <1>1, <1>2 DEF ProcOK, Conexion
  <1>4. Listas(c, G)
    <2>1. ASSUME NEW e \in c.database_listusers \cup c.lista
          PROVE  e[2] \in Direcciones
      BY DEF ProcOK, EstadoProceso
    <2> QED BY <2>1, FueSiempre DEF ProcOK, Listas
  <1> QED BY <1>3, <1>4 DEF ProcOK

\* That u is connected, for the process c (Cree).
CreeEn(c, u) ==
  \/ /\ c.active_user = u
     /\ ~(c.pet = "DISCONNECT" /\ c.pc \in {"respuesta", "finally", "roto", "gira"})
  \/ c.pc = "respuesta" /\ c.pet = "CONNECT" /\ c.rc = 0 /\ c.orden.user = u

\* d believes nothing that c did not, at the same port.
MenosFe(c, d) ==
  \A u \in Nombres : CreeEn(d, u) =>
    CreeEn(c, u) /\ d.server_thread_port = c.server_thread_port

\* What every step but the server's does.
Bien ==
  /\ MemInv'
  /\ Persiste(hilo, hilo')
  /\ \A p \in Clientes : MenosFe(cliente[p], cliente'[p])

LEMMA PersisteIgual == ASSUME NEW H PROVE Persiste(H, H)
  BY DEF Persiste

LEMMA ParPasa ==
  ASSUME ParInv, \A h \in Hilos : Menos(hilo[h], hilo'[h]),
         \A p \in Clientes, h \in Hilos :
           EnHilo(hilo'[h], p) => Abierta(cliente'[p], h, hilo')
  PROVE  ParInv'
  <1>1. ASSUME NEW p \in Clientes, NEW h \in Hilos
        PROVE  /\ EnHilo(hilo'[h], p) => EnHilo(hilo[h], p)
               /\ Unico(hilo'[h], p)
    BY DEF Menos, ParInv
  <1> QED BY <1>1 DEF ParInv

\* A process changes alone.
LEMMA PasoProceso ==
  ASSUME MemInv, NEW p \in Clientes, NEW d,
         cliente' = [cliente EXCEPT ![p] = d], hilo' = hilo,
         ProcOK(p, d, hilo),
         cliente[p].pc = "espera" => cliente[p].server_thread_port # Nadie,
         \/ \A h \in Hilos : ~EnHilo(hilo[h], p)
         \/ d.par = cliente[p].par /\ d.pc \in {"par", "talla", "recibe"}
              /\ d.orden = cliente[p].orden
  PROVE  /\ MemInv'
         /\ cliente'[p] = d
         /\ \A q \in Clientes \ {p} : cliente'[q] = cliente[q]
  <1>1. /\ cliente' \in [Clientes -> EstadoProceso]
        /\ cliente'[p] = d
        /\ \A q \in Clientes \ {p} : cliente'[q] = cliente[q]
    BY DEF MemInv, ProcOK
  <1>2. \A q \in Clientes : ProcOK(q, cliente'[q], hilo)
    BY <1>1 DEF MemInv
  <1>3. ASSUME NEW h \in Hilos PROVE HiloOK(h, hilo[h], cliente')
    <2>1. ASSUME hilo[h].pc = "creado" PROVE hilo[h].de # p
      <3>1. SUFFICES ASSUME hilo[h].de = p PROVE FALSE
        OBVIOUS
      <3>2. cliente[p].pc = "espera" /\ cliente[p].server_thread = h
        BY <2>1, <3>1 DEF MemInv, HiloOK
      <3>3. hilo[h].pc \in Vivos
        BY <3>2 DEF MemInv, ProcOK, Conexion, Enlazado
      <3> QED BY <2>1, <3>3 DEF Vivos, Escuchan
    <2>2. HiloOK(h, hilo[h], cliente)
      BY DEF MemInv
    <2> QED BY <1>1, <2>1, <2>2 DEF HiloOK
  <1>4. ParInv'
    <2>1. ASSUME NEW q \in Clientes, NEW h \in Hilos, EnHilo(hilo[h], q)
          PROVE  Abierta(cliente'[q], h, hilo)
      <3>1. Abierta(cliente[q], h, hilo)
        BY <2>1 DEF MemInv, ParInv
      <3> QED BY <1>1, <2>1, <3>1 DEF Abierta, Destino
    <2> QED BY <2>1, ParPasa DEF MemInv, Menos
  <1> QED BY <1>1, <1>2, <1>3, <1>4 DEF MemInv

\* A thread changes, and at most the connection of a client that it served.
LEMMA PasoHilo ==
  ASSUME MemInv, NEW h \in Hilos, NEW t,
         hilo' = [hilo EXCEPT ![h] = t],
         t \in EstadoHilo, t.de = hilo[h].de, t.para = hilo[h].para,
         t.puerto = hilo[h].puerto, Ocupa(hilo[h]), Ocupa(t),
         t.pc \in {"lee", "envia", "datos"} => t.con # Nadie,
         Menos(hilo[h], t),
         cliente' \in [Clientes -> EstadoProceso],
         \A q \in Clientes : cliente'[q] # cliente[q] =>
           /\ ProcOK(q, cliente'[q], hilo)
           /\ MenosFe(cliente[q], cliente'[q])
           /\ cliente[q].pc \in {"par", "talla", "recibe"}
           /\ \/ \A g \in Hilos : ~EnHilo(hilo'[g], q)
              \/ /\ cliente'[q].par = cliente[q].par
                 /\ cliente'[q].pc = cliente[q].pc
                 /\ cliente'[q].orden = cliente[q].orden
  PROVE  Bien
  <1>1. /\ hilo' \in [Hilos -> EstadoHilo] /\ hilo'[h] = t
        /\ \A g \in Hilos \ {h} : hilo'[g] = hilo[g]
    BY DEF MemInv
  <1>2. /\ t.pc \notin {"no", "creado"} /\ t.pc \in Vivos
        /\ hilo[h].pc \notin {"no", "creado", "muerto", "roto"} /\ hilo[h].pc \in Vivos
    BY DEF Ocupa, Vivos, Escuchan
  <1>3. Persiste(hilo, hilo')
    BY <1>1, <1>2 DEF Persiste
  <1>4. ASSUME NEW q \in Clientes PROVE ProcOK(q, cliente'[q], hilo')
    <2>1. ProcOK(q, cliente'[q], hilo)
      BY DEF MemInv
    <2>2. \A g \in Hilos : HiloOK(g, hilo[g], cliente)
      BY DEF MemInv
    <2>3. Sigue(q, cliente'[q], hilo, hilo')
      BY <1>1, <1>2 DEF Sigue
    <2> QED BY <1>3, <2>1, <2>2, <2>3, ProcPersiste
  <1>5. ASSUME NEW g \in Hilos PROVE HiloOK(g, hilo'[g], cliente')
    <2>1. HiloOK(g, hilo[g], cliente)
      BY DEF MemInv
    <2>2. CASE g = h
      <3>1. hilo[h].de \in Clientes /\ hilo[h].puerto \in Direcciones
        BY <1>2, <2>1, <2>2 DEF HiloOK
      <3> QED BY <1>1, <1>2, <2>2, <3>1 DEF HiloOK
    <2>3. CASE g # h
      <3>1. ASSUME hilo[g].pc = "creado"
            PROVE  cliente'[hilo[g].de] = cliente[hilo[g].de]
        <4>1. hilo[g].de \in Clientes /\ cliente[hilo[g].de].pc = "espera"
          BY <2>1, <3>1 DEF HiloOK
        <4> QED BY <4>1
      <3> QED BY <1>1, <2>1, <2>3, <3>1 DEF HiloOK
    <2> QED BY <2>2, <2>3
  <1>6. \A g \in Hilos : Menos(hilo[g], hilo'[g])
    BY <1>1 DEF Menos
  <1>7. ParInv'
    <2>1. ASSUME NEW q \in Clientes, NEW g \in Hilos, EnHilo(hilo'[g], q)
          PROVE  Abierta(cliente'[q], g, hilo')
      <3>1. Abierta(cliente[q], g, hilo)
        BY <1>6, <2>1 DEF MemInv, ParInv, Menos
      <3>2. cliente'[q].orden = cliente[q].orden
        BY <2>1
      <3>3. Destino(cliente'[q], g, hilo')
        BY <1>3, <3>1, <3>2, DestinoSigue DEF Abierta
      <3> QED BY <2>1, <3>1, <3>3 DEF Abierta
    <2> QED BY <1>6, <2>1, ParPasa DEF MemInv
  <1>8. \A q \in Clientes : MenosFe(cliente[q], cliente'[q])
    BY DEF MenosFe
  <1>10. PuertosOK(hilo')
    <2>1. ASSUME NEW g \in Hilos
          PROVE  Ocupa(hilo'[g]) => Ocupa(hilo[g]) /\ hilo'[g].puerto = hilo[g].puerto
      BY <1>1
    <2> QED BY <2>1 DEF MemInv, PuertosOK
  <1>9. MemInv'
    BY <1>1, <1>4, <1>5, <1>7, <1>10 DEF MemInv
  <1> QED BY <1>3, <1>8, <1>9 DEF Bien

-------------------------------------------------------------------------------
(* The state of the connection to another client changes. *)

\* c and d differ at most in par, rc, talla and fichero.
Parecido(c, d) ==
  /\ d \in EstadoProceso
  /\ d.pc = c.pc /\ d.active_user = c.active_user /\ d.orden = c.orden
  /\ d.database_listusers = c.database_listusers /\ d.lista = c.lista
  /\ d.stop_event = c.stop_event /\ d.server_thread = c.server_thread
  /\ d.server_thread_port = c.server_thread_port
  /\ d.pet = c.pet /\ d.hechas = c.hechas

LEMMA ParCambia ==
  ASSUME NEW p, NEW H, NEW c, NEW d, ProcOK(p, c, H), c.pc \in {"par", "talla", "recibe"},
         Parecido(c, d)
  PROVE  ProcOK(p, d, H) /\ MenosFe(c, d)
  <1>1. Coherente(d)
    BY DEF Coherente, Parecido, ProcOK
  <1>2. Conexion(p, d, H)
    BY DEF Conexion, Parecido, ProcOK, Enlazado
  <1>3. Listas(d, H)
    BY DEF Listas, Parecido, ProcOK
  <1>4. MenosFe(c, d)
    BY DEF MenosFe, CreeEn, Parecido
  <1> QED BY <1>1, <1>2, <1>3, <1>4 DEF ProcOK, Parecido

LEMMA ParNuevo ==
  ASSUME NEW c \in EstadoProceso,
         NEW v \in {"nada", "abierto", "entero", "cortado", "reset"}
  PROVE  Parecido(c, [c EXCEPT !.par = v]) /\ [c EXCEPT !.par = v].par = v
  <1>1. [c EXCEPT !.par = v] \in EstadoProceso
    BY ZenonT(60) DEF EstadoProceso
  <1> QED BY <1>1 DEF Parecido, EstadoProceso

\* The client that is served, or whose turn comes, is in a GET_FILE.
LEMMA ServidoAbierto ==
  ASSUME MemInv, NEW h \in Hilos, NEW q \in Clientes, EnHilo(hilo[h], q)
  PROVE  /\ cliente[q].pc \in {"par", "talla", "recibe"} /\ cliente[q].par = "abierto"
         /\ \A g \in Hilos : EnHilo(hilo[g], q) => g = h
  BY DEF MemInv, ParInv, Abierta

-------------------------------------------------------------------------------
(* Ends of threads and of processes. *)

\* What Cierran(H, pc, p) makes of thread h.
Cerrado(h, H, pc, p) ==
  /\ hilo'[h].de = hilo[h].de /\ hilo'[h].para = hilo[h].para
  /\ hilo'[h].puerto = hilo[h].puerto
  /\ hilo'[h].pc = IF h \in H THEN pc ELSE hilo[h].pc
  /\ h \notin H /\ hilo[h].con # Nadie => hilo'[h].con # Nadie
  /\ Menos(hilo[h], hilo'[h])
  /\ h \in H => \A q \in Clientes : ~EnHilo(hilo'[h], q)
  /\ p \in Clientes => ~EnHilo(hilo'[h], p)

LEMMA CierranHilos ==
  ASSUME MemInv, NEW H \in SUBSET Hilos, NEW pc \in {"muerto", "roto"},
         NEW p \in Clientes \cup {Cortada}, hilo' = Cierran(H, pc, p)
  PROVE  hilo' \in [Hilos -> EstadoHilo] /\ \A h \in Hilos : Cerrado(h, H, pc, p)
  <1> DEFINE Otro(q) == IF q = p THEN Cortada ELSE q
             M(t) == [t EXCEPT !.pc = pc, !.con = Nadie, !.cola = <<>>]
             N(t) == [t EXCEPT !.con = Otro(@),
                               !.cola = [i \in DOMAIN @ |-> Otro(@[i])]]
  <1>1. hilo' = [h \in Hilos |-> IF h \in H THEN M(hilo[h]) ELSE N(hilo[h])]
    BY DEF Cierran
  <1>2. ASSUME NEW t \in EstadoHilo
        PROVE  /\ M(t) \in EstadoHilo /\ M(t).de = t.de /\ M(t).para = t.para /\ M(t).puerto = t.puerto
               /\ M(t).pc = pc /\ M(t).con = Nadie /\ M(t).cola = <<>>
    <2>1. /\ M(t).de = t.de /\ M(t).para = t.para /\ M(t).puerto = t.puerto
          /\ M(t).pc = pc /\ M(t).con = Nadie /\ M(t).cola = <<>>
      BY DEF EstadoHilo
    <2>2. <<>> \in Seq(Clientes \cup {Cortada})
      OBVIOUS
    <2>3. M(t) \in EstadoHilo
      BY <2>2 DEF EstadoHilo
    <2> QED BY <2>1, <2>3
  <1>3. ASSUME NEW t \in EstadoHilo
        PROVE  /\ N(t) \in EstadoHilo /\ N(t).de = t.de /\ N(t).para = t.para /\ N(t).puerto = t.puerto
               /\ N(t).pc = t.pc
               /\ t.con # Nadie => N(t).con # Nadie
               /\ Menos(t, N(t))
               /\ p \in Clientes => ~EnHilo(N(t), p)
    <2>1. /\ N(t).con = Otro(t.con)
          /\ N(t).cola = [i \in DOMAIN t.cola |-> Otro(t.cola[i])]
          /\ N(t).de = t.de /\ N(t).para = t.para /\ N(t).pc = t.pc
          /\ N(t).puerto = t.puerto
      BY DEF EstadoHilo
    <2>2. /\ N(t).cola \in Colas /\ Menos(t, N(t))
          /\ p \in Clientes => ~EnHilo(N(t), p)
      <3> HIDE DEF N
      <3> QED BY <2>1, ColaCierra
    <2>3. Otro(t.con) \in Clientes \cup {Nadie, Cortada}
      BY DEF EstadoHilo
    <2>4. N(t) \in EstadoHilo
      <3>1. [t EXCEPT !.con = N(t).con, !.cola = N(t).cola] \in EstadoHilo
        <4> HIDE DEF N
        <4> QED BY <2>1, <2>2, <2>3 DEF EstadoHilo, Colas
      <3>2. N(t) = [t EXCEPT !.con = N(t).con, !.cola = N(t).cola]
        BY <2>1
      <3> QED BY <3>1, <3>2
    <2>5. t.con # Nadie => N(t).con # Nadie
      BY <2>1, NadieCortada
    <2> QED BY <2>1, <2>2, <2>4, <2>5
  <1> HIDE DEF M, N
  <1>4. \A h \in Hilos : hilo[h] \in EstadoHilo
    BY DEF MemInv
  <1>5. ASSUME NEW t \in EstadoHilo
        PROVE  Menos(t, M(t)) /\ \A q \in Clientes : ~EnHilo(M(t), q)
    BY <1>2, NadieCortada, ColaVacia
  <1>6. hilo' \in [Hilos -> EstadoHilo]
    BY <1>1, <1>2, <1>3, <1>4
  <1>7. ASSUME NEW h \in Hilos PROVE Cerrado(h, H, pc, p)
    <2>1. CASE h \in H
      BY <1>1, <1>2, <1>4, <1>5, <2>1 DEF Cerrado
    <2>2. CASE h \notin H
      BY <1>1, <1>3, <1>4, <2>2 DEF Cerrado
    <2> QED BY <2>1, <2>2
  <1> QED BY <1>6, <1>7

\* The threads H end, p closes, and the clients see it.
LEMMA PasoCierran ==
  ASSUME MemInv, NEW H \in SUBSET Hilos, NEW pc \in {"muerto", "roto"},
         NEW p \in Clientes \cup {Cortada}, hilo' = Cierran(H, pc, p),
         \A h \in H : hilo[h].pc # "no",
         \A h \in H : pc = "roto" => hilo[h].puerto \in Direcciones,
         cliente' \in [Clientes -> EstadoProceso],
         \A q \in Clientes :
           /\ ProcOK(q, cliente'[q], hilo)
           /\ Sigue(q, cliente'[q], hilo, hilo')
           /\ MenosFe(cliente[q], cliente'[q])
           /\ \/ cliente'[q] = cliente[q]
              \/ /\ \A h \in Hilos : ~EnHilo(hilo'[h], q)
                 /\ cliente[q].pc = "espera" =>
                      \A h \in Hilos : hilo[h].de = q => h \in H
  PROVE  Bien
  <1>0. \A h \in Hilos : Cerrado(h, H, pc, p)
    BY CierranHilos
  <1>1. \A h \in Hilos :
          /\ hilo'[h].de = hilo[h].de /\ hilo'[h].para = hilo[h].para
          /\ hilo'[h].puerto = hilo[h].puerto
          /\ hilo'[h].pc = IF h \in H THEN pc ELSE hilo[h].pc
          /\ h \notin H /\ hilo[h].con # Nadie => hilo'[h].con # Nadie
          /\ Menos(hilo[h], hilo'[h])
    BY <1>0 DEF Cerrado
  <1>2. hilo' \in [Hilos -> EstadoHilo]
    BY CierranHilos
  <1>3. Persiste(hilo, hilo')
    BY <1>1 DEF Persiste
  <1>4. \A h \in Hilos : HiloOK(h, hilo[h], cliente)
    BY DEF MemInv
  <1>5. \A q \in Clientes : ProcOK(q, cliente'[q], hilo')
    BY <1>3, <1>4, ProcPersiste
  <1>6. ASSUME NEW h \in Hilos PROVE HiloOK(h, hilo'[h], cliente')
    <2>1. hilo'[h] \in EstadoHilo /\ HiloOK(h, hilo[h], cliente)
      BY <1>2, <1>4
    <2>2. CASE h \in H
      <3>1. hilo'[h].pc \in {"muerto", "roto"} /\ (hilo'[h].pc = "roto" => hilo[h].puerto \in Direcciones)
        BY <1>1, <2>2
      <3> QED BY <1>1, <2>1, <2>2, <3>1 DEF HiloOK, Vivos, Escuchan
    <2>3. CASE h \notin H
      <3>1. ASSUME hilo[h].pc = "creado"
            PROVE  cliente'[hilo[h].de] = cliente[hilo[h].de]
        <4>1. hilo[h].de \in Clientes /\ cliente[hilo[h].de].pc = "espera"
          BY <2>1, <3>1 DEF HiloOK
        <4> QED BY <2>3, <4>1
      <3> QED BY <1>1, <2>1, <2>3, <3>1 DEF HiloOK
    <2> QED BY <2>2, <2>3
  <1>7. ParInv'
    <2>1. ASSUME NEW q \in Clientes, NEW h \in Hilos, EnHilo(hilo'[h], q)
          PROVE  Abierta(cliente'[q], h, hilo')
      <3>1. Abierta(cliente[q], h, hilo)
        BY <1>1, <2>1 DEF MemInv, ParInv, Menos
      <3>2. cliente'[q] = cliente[q]
        BY <2>1
      <3>3. Destino(cliente'[q], h, hilo')
        BY <1>3, <3>1, <3>2, DestinoSigue DEF Abierta
      <3> QED BY <3>1, <3>2, <3>3 DEF Abierta
    <2> QED BY <1>1, <2>1, ParPasa DEF MemInv
  <1>9. PuertosOK(hilo')
    <2>1. ASSUME NEW g \in Hilos
          PROVE  Ocupa(hilo'[g]) => Ocupa(hilo[g]) /\ hilo'[g].puerto = hilo[g].puerto
      BY <1>1 DEF Ocupa, Escuchan
    <2> QED BY <2>1 DEF MemInv, PuertosOK
  <1>8. MemInv'
    BY <1>2, <1>5, <1>6, <1>7, <1>9 DEF MemInv
  <1> QED BY <1>3, <1>8 DEF Bien

LEMMA Desatiende ==
  ASSUME MemInv, NEW H \in SUBSET Hilos, NEW q \in Clientes,
         NEW d, d = Desatendidos(H)[q]
  PROVE  /\ d \in EstadoProceso /\ ProcOK(q, d, hilo) /\ MenosFe(cliente[q], d)
         /\ d.stop_event = cliente[q].stop_event
         /\ \/ d = cliente[q]
            \/ /\ \E h \in H : EnHilo(hilo[h], q)
               /\ cliente[q].pc # "espera"
  <1>1. cliente[q] \in EstadoProceso /\ ProcOK(q, cliente[q], hilo)
    BY DEF MemInv
  <1>2. CASE d = cliente[q]
    BY <1>1, <1>2 DEF MenosFe
  <1>3. ASSUME d # cliente[q]
        PROVE  /\ \E h \in H : EnHilo(hilo[h], q)
               /\ \E v \in {"cortado", "reset"} : d = [cliente[q] EXCEPT !.par = v]
    BY <1>3 DEF Desatendidos, EnHilo
  <1>4. CASE d # cliente[q]
    <2>1. PICK h \in H : EnHilo(hilo[h], q)
      BY <1>3, <1>4
    <2>2. cliente[q].pc \in {"par", "talla", "recibe"}
      BY <2>1, ServidoAbierto
    <2>3. PICK v \in {"cortado", "reset"} : d = [cliente[q] EXCEPT !.par = v]
      BY <1>3, <1>4
    <2>5. Parecido(cliente[q], d)
      <3>3. v \in {"nada", "abierto", "entero", "cortado", "reset"}
        OBVIOUS
      <3>1. ASSUME NEW c \in EstadoProceso PROVE Parecido(c, [c EXCEPT !.par = v])
        BY <3>3, ParNuevo
      <3>2. Parecido(cliente[q], [cliente[q] EXCEPT !.par = v])
        BY <1>1, <3>1
      <3> QED BY <2>3, <3>2
    <2>4. ProcOK(q, d, hilo) /\ MenosFe(cliente[q], d)
      BY <1>1, <2>2, <2>5, ParCambia
    <2> QED BY <2>1, <2>2, <2>4, <2>5 DEF ProcOK, Parecido
  <1> QED BY <1>2, <1>4

\* Nobody is left at two threads, so whom one of H loses is at no other.
LEMMA NadieQueda ==
  ASSUME MemInv, NEW H \in SUBSET Hilos, NEW pc \in {"muerto", "roto"},
         NEW p \in Clientes \cup {Cortada}, hilo' = Cierran(H, pc, p),
         NEW q \in Clientes, NEW h \in H, EnHilo(hilo[h], q)
  PROVE  \A g \in Hilos : ~EnHilo(hilo'[g], q)
  <1> SUFFICES ASSUME NEW g \in Hilos, EnHilo(hilo'[g], q) PROVE FALSE
    OBVIOUS
  <1>0. Cerrado(g, H, pc, p)
    BY CierranHilos
  <1>1. g \notin H /\ Menos(hilo[g], hilo'[g])
    BY <1>0 DEF Cerrado
  <1>2. EnHilo(hilo[g], q)
    BY <1>1 DEF Menos
  <1>3. g = h
    BY <1>2, ServidoAbierto
  <1> QED BY <1>1, <1>3

\* A thread ends, told to by its process or broken by its client.
LEMMA BienAcabaHilo ==
  ASSUME MemInv, NEW h \in Hilos, Ocupa(hilo[h]), NEW pc \in {"muerto", "roto"},
         pc = "muerto" => cliente[hilo[h].de].stop_event, AcabaHilo(h, pc)
  PROVE  Bien
  <1>1. /\ cliente' = Desatendidos({h}) /\ hilo' = Cierran({h}, pc, Cortada)
        /\ {h} \in SUBSET Hilos
    BY DEF AcabaHilo
  <1>2. ASSUME NEW q \in Clientes
        PROVE  /\ cliente'[q] \in EstadoProceso
               /\ ProcOK(q, cliente'[q], hilo)
               /\ MenosFe(cliente[q], cliente'[q])
               /\ cliente'[q].stop_event = cliente[q].stop_event
               /\ \/ cliente'[q] = cliente[q]
                  \/ /\ \A g \in Hilos : ~EnHilo(hilo'[g], q)
                     /\ cliente[q].pc # "espera"
    BY <1>1, Desatiende, NadieQueda
  <1>3. cliente' \in [Clientes -> EstadoProceso]
    BY <1>1, <1>2 DEF Desatendidos
  <1>4. /\ hilo[h].pc # "no" /\ hilo[h].puerto \in Direcciones
    BY DEF Ocupa, MemInv, HiloOK, Vivos, Escuchan
  <1> DEFINE H == {h}
  <1>7. hilo' = Cierran(H, pc, Cortada) /\ H \in SUBSET Hilos
    BY <1>1
  <1> HIDE DEF H
  <1>8. \A g \in Hilos : Cerrado(g, H, pc, Cortada)
    BY <1>7, CierranHilos
  <1>5. \A g \in Hilos : hilo'[g].pc = IF g \in {h} THEN pc ELSE hilo[g].pc
    BY <1>8 DEF Cerrado, H
  <1>6. ASSUME NEW q \in Clientes PROVE Sigue(q, cliente'[q], hilo, hilo')
    BY <1>2, <1>5 DEF Sigue, Vivos
  <1> QED BY <1>1, <1>2, <1>3, <1>4, <1>6, PasoCierran

\* The fields of a process.
Campos == {"pc", "active_user", "database_listusers", "stop_event", "server_thread",
           "server_thread_port", "orden", "pet", "rc", "lista", "par", "talla",
           "fichero", "hechas"}

LEMMA ProcesoForma ==
  ASSUME NEW d, d = [x \in DOMAIN d |-> d[x]], DOMAIN d = Campos,
         d.pc \in {"shell", "espera", "conecta", "peticion", "respuesta", "finally",
                   "roto", "busca", "par", "talla", "recibe", "gira", "fuera"},
         d.active_user \in Nombres \cup {Nadie},
         d.database_listusers \in SUBSET (Nombres \X Direcciones),
         d.stop_event \in BOOLEAN,
         d.server_thread \in Hilos \cup {Nadie},
         d.server_thread_port \in Direcciones \cup {Nadie},
         d.orden \in [op : Mandatos, user : Nombres] \cup {SinOrden},
         d.pet \in Mandatos \cup {""}, d.rc \in -1 .. 4,
         d.lista \in SUBSET (Nombres \X Direcciones),
         d.par \in {"nada", "abierto", "entero", "cortado", "reset"},
         d.talla \in BOOLEAN,
         d.fichero \in {"nada", "parcial", "entero"}, d.hechas \in Nat
  PROVE  d \in EstadoProceso
  BY DEF EstadoProceso, Campos

LEMMA ProcesoTipo == Proceso \in EstadoProceso
  <1>1. /\ {} \in SUBSET (Nombres \X Direcciones) /\ FALSE \in BOOLEAN
        /\ Nadie \in Nombres \cup {Nadie} /\ Nadie \in Direcciones \cup {Nadie}
        /\ SinOrden \in [op : Mandatos, user : Nombres] \cup {SinOrden}
        /\ -1 \in -1 .. 4 /\ 0 \in Nat
    OBVIOUS
  <1> QED BY <1>1 DEF Proceso, EstadoProceso

\* A process outside.
LEMMA Fuera ==
  ASSUME NEW p \in Clientes, NEW n \in Nat, n <= MAX_ORDENES[p], NEW H, NEW c
  PROVE  LET d == [Proceso EXCEPT !.pc = "fuera", !.hechas = n]
         IN  ProcOK(p, d, H) /\ MenosFe(c, d)
  <1> DEFINE d == [Proceso EXCEPT !.pc = "fuera", !.hechas = n]
  <1>1. /\ d.pc = "fuera" /\ d.active_user = Nadie /\ d.database_listusers = {}
        /\ d.stop_event = FALSE /\ d.server_thread = Nadie
        /\ d.server_thread_port = Nadie /\ d.orden = SinOrden /\ d.pet = ""
        /\ d.rc = -1 /\ d.lista = {} /\ d.par = "nada" /\ d.fichero = "nada"
        /\ d.hechas = n
    BY DEF Proceso
  <1>2. d \in EstadoProceso
    BY ZenonT(60), ProcesoTipo DEF EstadoProceso
  <1> HIDE DEF d
  <1>3. d.orden.op = ""
    <2>1. SinOrden.op = ""
      BY DEF SinOrden
    <2> QED BY <1>1, <2>1
  <1>4. Coherente(d) /\ Conexion(p, d, H) /\ Listas(d, H)
    BY <1>1, <1>3 DEF Coherente, Conexion, Listas
  <1>5. MenosFe(c, d)
    BY <1>1, NadieCortada DEF MenosFe, CreeEn
  <1>6. ProcOK(p, d, H) /\ MenosFe(c, d)
    BY <1>1, <1>2, <1>4, <1>5 DEF ProcOK
  <1> QED BY <1>6 DEF d

LEMMA BienFinProceso ==
  ASSUME MemInv, NEW p \in Clientes, FinProceso(p)
  PROVE  Bien
  <1> DEFINE H == {h \in Hilos : hilo[h].de = p}
             d == [Proceso EXCEPT !.pc = "fuera", !.hechas = cliente[p].hechas]
  <1>1. /\ cliente' = [Desatendidos(H) EXCEPT ![p] = d]
        /\ hilo' = Cierran(H, "muerto", p) /\ H \in SUBSET Hilos
    BY DEF FinProceso
  <1>2. cliente[p].hechas \in Nat /\ cliente[p].hechas <= MAX_ORDENES[p]
    BY DEF MemInv, ProcOK, EstadoProceso
  <1>3. ProcOK(p, d, hilo) /\ MenosFe(cliente[p], d)
    BY <1>2, Fuera
  <1> HIDE DEF d
  <1>4. \A h \in H : hilo[h].pc # "no"
    BY NadieCortada DEF MemInv, HiloOK
  <1>5. \A h \in Hilos : hilo[h].de = p <=> h \in H
    OBVIOUS
  <1> HIDE DEF H
  <1>10. \A h \in Hilos : Cerrado(h, H, "muerto", p)
    BY <1>1, CierranHilos
  <1>9. /\ \A h \in Hilos : hilo'[h].pc = IF h \in H THEN "muerto" ELSE hilo[h].pc
        /\ "muerto" \in {"muerto", "roto"}
    BY <1>10 DEF Cerrado
  <1>6. \A h \in Hilos : ~EnHilo(hilo'[h], p)
    BY <1>10 DEF Cerrado
  <1>7. ASSUME NEW q \in Clientes
        PROVE  /\ cliente'[q] \in EstadoProceso
               /\ ProcOK(q, cliente'[q], hilo)
               /\ Sigue(q, cliente'[q], hilo, hilo')
               /\ MenosFe(cliente[q], cliente'[q])
               /\ \/ cliente'[q] = cliente[q]
                  \/ /\ \A h \in Hilos : ~EnHilo(hilo'[h], q)
                     /\ cliente[q].pc = "espera" =>
                          \A h \in Hilos : hilo[h].de = q => h \in H
    <2>1. CASE q = p
      <3>1. cliente'[p] = d
        BY <1>1 DEF Desatendidos
      <3>2. d.server_thread \notin Hilos
        BY NadieCortada DEF d, Proceso
      <3> QED BY <1>3, <1>5, <1>6, <2>1, <3>1, <3>2 DEF ProcOK, Sigue
    <2>2. CASE q # p
      <3>1. cliente'[q] = Desatendidos(H)[q]
        BY <1>1, <2>2 DEF Desatendidos
      <3>2. Sigue(q, cliente'[q], hilo, hilo')
        BY <1>5, <1>9, <2>2 DEF Sigue
      <3>3. CASE cliente'[q] = cliente[q]
        BY <1>1, <3>1, <3>2, <3>3, Desatiende
      <3>4. CASE cliente'[q] # cliente[q]
        <4>1. PICK h \in H : EnHilo(hilo[h], q)
          BY <1>1, <3>1, <3>4, Desatiende
        <4>2. \A g \in Hilos : ~EnHilo(hilo'[g], q)
          BY <1>1, <1>9, <4>1, NadieQueda
        <4>3. /\ ProcOK(q, cliente'[q], hilo) /\ MenosFe(cliente[q], cliente'[q])
              /\ cliente'[q] \in EstadoProceso /\ cliente[q].pc # "espera"
          BY <1>1, <3>1, <3>4, Desatiende
        <4> QED BY <3>2, <4>2, <4>3
      <3> QED BY <3>3, <3>4
    <2> QED BY <2>1, <2>2
  <1>8. cliente' \in [Clientes -> EstadoProceso]
    BY <1>1, <1>7 DEF Desatendidos
  <1> QED BY <1>1, <1>4, <1>7, <1>8, <1>9, PasoCierran

-------------------------------------------------------------------------------
(* Steps of a process: the record c becomes d. *)

\* A process changes alone, and believes no more than before.
LEMMA BienProceso ==
  ASSUME MemInv, NEW p \in Clientes, NEW d,
         cliente' = [cliente EXCEPT ![p] = d], hilo' = hilo,
         ProcOK(p, d, hilo), MenosFe(cliente[p], d),
         cliente[p].pc = "espera" => cliente[p].server_thread_port # Nadie,
         \/ cliente[p].pc \notin {"par", "talla", "recibe"}
         \/ cliente[p].par # "abierto"
         \/ d.par = cliente[p].par /\ d.pc \in {"par", "talla", "recibe"}
              /\ d.orden = cliente[p].orden
  PROVE  Bien
  <1>1. ASSUME NEW h \in Hilos, EnHilo(hilo[h], p)
        PROVE  cliente[p].pc \in {"par", "talla", "recibe"} /\ cliente[p].par = "abierto"
    BY <1>1, ServidoAbierto
  <1>2. /\ MemInv'
        /\ cliente'[p] = d
        /\ \A q \in Clientes \ {p} : cliente'[q] = cliente[q]
    BY <1>1, PasoProceso
  <1>3. ASSUME NEW q \in Clientes PROVE MenosFe(cliente[q], cliente'[q])
    <2>1. CASE q = p
      BY <1>2, <2>1
    <2>2. CASE q # p
      BY <1>2, <2>2 DEF MenosFe
    <2> QED BY <2>1, <2>2
  <1>4. Persiste(hilo, hilo')
    BY PersisteIgual
  <1> QED BY <1>2, <1>3, <1>4 DEF Bien

\* A command is typed, other than CONNECT.
LEMMA DeTeclea ==
  ASSUME NEW p \in Clientes, NEW H, NEW c, ProcOK(p, c, H), c.pc = "shell",
         c.hechas < MAX_ORDENES[p], NEW o \in Ordenes[p], o.op # "CONNECT"
  PROVE  LET d == [c EXCEPT !.pc = "conecta", !.orden = o, !.pet = Primera(c, o),
                            !.hechas = @ + 1, !.par = "nada", !.fichero = "nada"]
         IN  ProcOK(p, d, H) /\ MenosFe(c, d)
  <1> DEFINE d == [c EXCEPT !.pc = "conecta", !.orden = o, !.pet = Primera(c, o),
                            !.hechas = @ + 1, !.par = "nada", !.fichero = "nada"]
  <1>1. c \in EstadoProceso
    BY DEF ProcOK
  <1>2. o \in [op : Mandatos, user : Nombres] /\ MAX_ORDENES[p] \in Nat
    BY ClienteAssumption
  <1>10. c.hechas \in Nat
    BY <1>1 DEF EstadoProceso
  <1>3. /\ Primera(c, o) \in Mandatos /\ Primera(c, o) # "CONNECT"
        /\ o.op = "GET_FILE" => Primera(c, o) = "LIST_USERS"
    BY <1>2 DEF Primera, Mandatos
  <1>4. /\ d.pc = "conecta" /\ d.orden = o /\ d.pet = Primera(c, o)
        /\ d.hechas = c.hechas + 1 /\ d.par = "nada"
        /\ d.active_user = c.active_user /\ d.stop_event = c.stop_event
        /\ d.database_listusers = c.database_listusers /\ d.lista = c.lista
        /\ d.server_thread = c.server_thread
        /\ d.server_thread_port = c.server_thread_port
    BY <1>1 DEF EstadoProceso
  <1>5. d \in EstadoProceso
    <2>1. c.hechas + 1 \in Nat
      BY <1>10
    <2>2. Primera(c, o) \in Mandatos \cup {""}
      BY <1>3
    <2>3. o \in [op : Mandatos, user : Nombres] \cup {SinOrden}
      BY <1>2
    <2> QED BY ZenonT(60), <1>1, <2>1, <2>2, <2>3 DEF EstadoProceso
  <1> HIDE DEF d
  <1>6. d.hechas <= MAX_ORDENES[p]
    BY <1>10, <1>2, <1>4
  <1>7. Coherente(d)
    BY <1>3, <1>4 DEF Coherente
  <1>8. Conexion(p, d, H)
    BY <1>3, <1>4 DEF Conexion, Enlazado, ProcOK
  <1>9. Listas(d, H) /\ MenosFe(c, d)
    BY <1>4 DEF Listas, MenosFe, CreeEn, ProcOK
  <1>11. ProcOK(p, d, H) /\ MenosFe(c, d)
    BY <1>5, <1>6, <1>7, <1>8, <1>9 DEF ProcOK
  <1> QED BY <1>11 DEF d

\* The next point of a command is reached, and nothing else changes.
LEMMA DePunto ==
  ASSUME NEW p, NEW H, NEW c, ProcOK(p, c, H), NEW pc,
         \/ c.pc = "espera" /\ c.server_thread_port # Nadie /\ pc = "conecta"
         \/ c.pc = "fuera" /\ pc = "shell"
         \/ c.pc = "conecta" /\ pc = "peticion"
         \/ c.pc \in {"peticion", "respuesta"} /\ pc = "gira"
         \/ c.pc \in {"par", "talla"} /\ pc = "gira"
         \/ c.pc = "par" /\ pc = "talla"
         \/ c.pc = "finally" /\ c.orden.op = "GET_FILE" /\ pc = "busca"
  PROVE  LET d == [c EXCEPT !.pc = pc]
         IN  ProcOK(p, d, H) /\ MenosFe(c, d)
  <1> DEFINE d == [c EXCEPT !.pc = pc]
  <1>1. c \in EstadoProceso
    BY DEF ProcOK
  <1>2. d.pc = pc /\ d.par = c.par /\ d.rc = c.rc
        /\ d.active_user = c.active_user /\ d.orden = c.orden
        /\ d.database_listusers = c.database_listusers /\ d.lista = c.lista
        /\ d.stop_event = c.stop_event /\ d.server_thread = c.server_thread
        /\ d.server_thread_port = c.server_thread_port
        /\ d.pet = c.pet /\ d.hechas = c.hechas
    BY <1>1 DEF EstadoProceso, Parecido
  <1>3. d \in EstadoProceso
    <2>1. d = [x \in DOMAIN d |-> d[x]] /\ DOMAIN d = Campos
      BY <1>1 DEF EstadoProceso, Campos
    <2>2. d.pc \in {"shell", "conecta", "peticion", "gira", "busca", "talla"}
      BY <1>2
    <2>3. d.fichero = c.fichero /\ d.talla = c.talla
      BY <1>1 DEF EstadoProceso
    <2> HIDE DEF d
    <2>4. /\ d.active_user \in Nombres \cup {Nadie}
          /\ d.database_listusers \in SUBSET (Nombres \X Direcciones)
          /\ d.stop_event \in BOOLEAN
          /\ d.server_thread \in Hilos \cup {Nadie}
          /\ d.server_thread_port \in Direcciones \cup {Nadie}
          /\ d.orden \in [op : Mandatos, user : Nombres] \cup {SinOrden}
      BY <1>1, <1>2 DEF EstadoProceso
    <2>5. /\ d.pet \in Mandatos \cup {""} /\ d.rc \in -1 .. 4
          /\ d.lista \in SUBSET (Nombres \X Direcciones)
          /\ d.par \in {"nada", "abierto", "entero", "cortado", "reset"}
          /\ d.fichero \in {"nada", "parcial", "entero"} /\ d.hechas \in Nat
          /\ d.talla \in BOOLEAN
      BY <1>1, <1>2, <2>3 DEF EstadoProceso
    <2> QED BY <2>1, <2>2, <2>4, <2>5, ProcesoForma
  <1> HIDE DEF d
  <1>4. Coherente(d)
    BY <1>2 DEF Coherente, ProcOK
  <1>5. Conexion(p, d, H)
    BY <1>2 DEF Conexion, Coherente, Enlazado, ProcOK
  <1>6. Listas(d, H)
    BY <1>2 DEF Listas, ProcOK
  <1>7. MenosFe(c, d)
    BY <1>1, <1>2, NadieCortada DEF MenosFe, CreeEn, Coherente, ProcOK
  <1>8. ProcOK(p, d, H)
    BY <1>2, <1>3, <1>4, <1>5, <1>6 DEF ProcOK
  <1> QED BY <1>7, <1>8 DEF d

\* A request ends, with an answer or without it, in its `finally`.
LEMMA DeFinally ==
  ASSUME NEW p, NEW H, NEW c, ProcOK(p, c, H),
         c.pc \in {"peticion", "respuesta", "gira"}, c.par = "nada",
         NEW rc \in -1 .. 4, NEW usuarios \in SUBSET (Nombres \X Direcciones),
         \A e \in usuarios : FueEn(H, e[1], e[2]),
         NEW activo,
         \/ activo = c.active_user
         \/ /\ c.pc = "respuesta" /\ c.pet = "CONNECT" /\ c.rc = 0
            /\ activo = c.orden.user,
         NEW pc \in {"finally", "roto"}
  PROVE  LET d == [AlFinally(c, rc, activo, usuarios) EXCEPT !.pc = pc]
         IN  ProcOK(p, d, H) /\ MenosFe(c, d)
  <1> DEFINE d == [AlFinally(c, rc, activo, usuarios) EXCEPT !.pc = pc]
             a == IF c.pet = "DISCONNECT" THEN Nadie ELSE activo
  <1>1. c \in EstadoProceso
    BY DEF ProcOK
  <1>2. a \in Nombres \cup {Nadie}
    <2>1. c.active_user \in Nombres \cup {Nadie}
      BY <1>1 DEF EstadoProceso
    <2>2. c.orden.user \in Nombres \cup {Nadie}
      <3>1. c.orden \in [op : Mandatos, user : Nombres] \cup {SinOrden}
        BY <1>1 DEF EstadoProceso
      <3>2. SinOrden.user = Nadie
        BY DEF SinOrden
      <3> QED BY <3>1, <3>2
    <2> QED BY <2>1, <2>2
  <1>3. d = [c EXCEPT !.pc = pc, !.rc = rc, !.lista = {},
                      !.database_listusers = usuarios, !.active_user = a]
    BY <1>1 DEF EstadoProceso, AlFinally
  <1> HIDE DEF a
  <1>4. /\ d.pc = pc /\ d.active_user = a /\ d.lista = {}
        /\ d.database_listusers = usuarios /\ d.orden = c.orden /\ d.par = c.par
        /\ d.stop_event = c.stop_event /\ d.server_thread = c.server_thread
        /\ d.server_thread_port = c.server_thread_port
        /\ d.pet = c.pet /\ d.hechas = c.hechas
    <2> HIDE DEF d
    <2> QED BY <1>1, <1>3 DEF EstadoProceso
  <1>5. d \in EstadoProceso
    <2>1. ASSUME NEW x \in EstadoProceso, NEW l \in SUBSET (Nombres \X Direcciones),
                 NEW m \in SUBSET (Nombres \X Direcciones)
          PROVE  [x EXCEPT !.lista = l, !.database_listusers = m] \in EstadoProceso
      BY ZenonT(60) DEF EstadoProceso
    <2>2. ASSUME NEW x \in EstadoProceso, NEW b \in Nombres \cup {Nadie}, NEW r \in -1 .. 4
          PROVE  [x EXCEPT !.pc = pc, !.rc = r, !.active_user = b] \in EstadoProceso
      BY ZenonT(60) DEF EstadoProceso
    <2>3. [c EXCEPT !.pc = pc, !.rc = rc, !.active_user = a] \in EstadoProceso
      BY <1>1, <1>2, <2>2
    <2>4. d = [[c EXCEPT !.pc = pc, !.rc = rc, !.active_user = a]
                 EXCEPT !.lista = {}, !.database_listusers = usuarios]
      BY <1>1, <1>3 DEF EstadoProceso
    <2>5. {} \in SUBSET (Nombres \X Direcciones)
      OBVIOUS
    <2> HIDE DEF d
    <2> QED BY <2>1, <2>3, <2>4, <2>5
  <1> HIDE DEF d
  <1>6. Coherente(d)
    BY <1>4 DEF Coherente, ProcOK, a
  <1>7. Conexion(p, d, H)
    BY <1>4 DEF Conexion, Enlazado, ProcOK, a
  <1>8. Listas(d, H)
    BY <1>4 DEF Listas
  <1>9. MenosFe(c, d)
    BY <1>4, NadieCortada DEF MenosFe, CreeEn, a
  <1>10. ProcOK(p, d, H)
    BY <1>4, <1>5, <1>6, <1>7, <1>8 DEF ProcOK
  <1> QED BY <1>9, <1>10 DEF d

\* Back at the prompt, whatever is left of the connection to a peer.
LEMMA DeShell ==
  ASSUME NEW p, NEW H, NEW c, ProcOK(p, c, H),
         c.pc \in {"conecta", "finally", "roto", "busca", "par", "talla", "recibe", "gira"},
         c.pc = "gira" => c.par # "nada"
  PROVE  LET d == [EnShell(c) EXCEPT !.par = "nada"]
         IN  ProcOK(p, d, H) /\ MenosFe(c, d)
  <1> DEFINE d == [EnShell(c) EXCEPT !.par = "nada"]
  <1>1. c \in EstadoProceso
    BY DEF ProcOK
  <1>2. d = [c EXCEPT !.pc = "shell", !.orden = SinOrden, !.pet = "", !.rc = -1,
                      !.talla = FALSE, !.par = "nada"]
    BY <1>1 DEF EstadoProceso, EnShell
  <1> HIDE DEF d
  <1>3. /\ d.pc = "shell" /\ d.active_user = c.active_user /\ d.lista = c.lista
        /\ d.database_listusers = c.database_listusers /\ d.orden = SinOrden
        /\ d.par = "nada"
        /\ d.stop_event = c.stop_event /\ d.server_thread = c.server_thread
        /\ d.server_thread_port = c.server_thread_port
        /\ d.pet = "" /\ d.hechas = c.hechas
    BY <1>1, <1>2 DEF EstadoProceso
  <1>4. d \in EstadoProceso
    <2>1. SinOrden \in [op : Mandatos, user : Nombres] \cup {SinOrden} /\ -1 \in -1 .. 4
      OBVIOUS
    <2> QED BY ZenonT(60), <1>1, <1>2, <2>1 DEF EstadoProceso
  <1>5. Coherente(d)
    <2>1. d.orden.op = ""
      <3>1. SinOrden.op = ""
        BY DEF SinOrden
      <3> QED BY <1>3, <3>1
    <2> QED BY <1>3, <2>1 DEF Coherente
  <1>6. Conexion(p, d, H)
    BY <1>3 DEF Conexion, Enlazado, ProcOK
  <1>7. Listas(d, H)
    BY <1>3 DEF Listas, ProcOK
  <1>8. MenosFe(c, d)
    <2>1. c.pc \in {"finally", "roto"} /\ c.pet = "DISCONNECT" => c.active_user = Nadie
      BY DEF ProcOK, Coherente
    <2>2. c.pc = "gira" => c.pet # "DISCONNECT"
      BY DEF ProcOK, Coherente
    <2> QED BY <1>3, <2>1, <2>2, NadieCortada DEF MenosFe, CreeEn
  <1>9. ProcOK(p, d, H)
    BY <1>3, <1>4, <1>5, <1>6, <1>7 DEF ProcOK
  <1> QED BY <1>8, <1>9 DEF d

\* unregister goes on to its second request.
LEMMA DeUnregister ==
  ASSUME NEW p, NEW H, NEW c, ProcOK(p, c, H), c.pc \in {"conecta", "finally"},
         c.orden.op = "UNREGISTER"
  PROVE  LET d == [c EXCEPT !.pc = "conecta", !.pet = "UNREGISTER"]
         IN  ProcOK(p, d, H) /\ MenosFe(c, d)
  <1> DEFINE d == [c EXCEPT !.pc = "conecta", !.pet = "UNREGISTER"]
  <1>1. c \in EstadoProceso
    BY DEF ProcOK
  <1>2. /\ d.pc = "conecta" /\ d.active_user = c.active_user /\ d.lista = c.lista
        /\ d.database_listusers = c.database_listusers /\ d.orden = c.orden
        /\ d.par = c.par
        /\ d.stop_event = c.stop_event /\ d.server_thread = c.server_thread
        /\ d.server_thread_port = c.server_thread_port
        /\ d.pet = "UNREGISTER" /\ d.hechas = c.hechas
    BY <1>1 DEF EstadoProceso
  <1>3. d \in EstadoProceso
    <2>1. "UNREGISTER" \in Mandatos \cup {""}
      BY DEF Mandatos
    <2> QED BY ZenonT(60), <1>1, <2>1 DEF EstadoProceso
  <1> HIDE DEF d
  <1>4. Coherente(d) /\ Conexion(p, d, H) /\ Listas(d, H)
    BY <1>2 DEF Coherente, Conexion, Enlazado, Listas, ProcOK
  <1>5. MenosFe(c, d)
    BY <1>2, NadieCortada DEF MenosFe, CreeEn, ProcOK, Coherente
  <1>6. ProcOK(p, d, H)
    BY <1>2, <1>3, <1>4 DEF ProcOK
  <1> QED BY <1>5, <1>6 DEF d

\* disconnect asks its thread to stop.
LEMMA DeParada ==
  ASSUME NEW p, NEW H, NEW c, ProcOK(p, c, H), c.pc = "finally", c.pet = "DISCONNECT"
  PROVE  LET d == [c EXCEPT !.stop_event = TRUE, !.server_thread = Nadie,
                            !.server_thread_port = Nadie]
         IN  ProcOK(p, d, H) /\ MenosFe(c, d)
  <1> DEFINE d == [c EXCEPT !.stop_event = TRUE, !.server_thread = Nadie,
                            !.server_thread_port = Nadie]
  <1>1. c \in EstadoProceso
    BY DEF ProcOK
  <1>2. /\ d.pc = c.pc /\ d.active_user = c.active_user /\ d.lista = c.lista
        /\ d.database_listusers = c.database_listusers /\ d.orden = c.orden
        /\ d.par = c.par /\ d.pet = c.pet /\ d.hechas = c.hechas
    BY <1>1 DEF EstadoProceso
  <1>3. d \in EstadoProceso
    BY ZenonT(60), <1>1 DEF EstadoProceso
  <1> HIDE DEF d
  <1>4. Coherente(d) /\ Conexion(p, d, H) /\ Listas(d, H)
    BY <1>2 DEF Coherente, Conexion, Listas, ProcOK
  <1>5. MenosFe(c, d)
    BY <1>2, NadieCortada DEF MenosFe, CreeEn, ProcOK, Coherente
  <1>6. ProcOK(p, d, H)
    BY <1>2, <1>3, <1>4 DEF ProcOK
  <1> QED BY <1>5, <1>6 DEF d

\* getfile goes on: the size was read, or the end of the file.
LEMMA DeRecibe ==
  ASSUME NEW p, NEW H, NEW c, ProcOK(p, c, H),
         NEW pc, NEW par, NEW b \in BOOLEAN, NEW f \in {"nada", "parcial", "entero"},
         \/ c.pc = "talla" /\ pc = "recibe" /\ par = c.par
         \/ c.pc = "recibe" /\ pc = "shell" /\ par = "nada"
  PROVE  LET d == [c EXCEPT !.pc = pc, !.par = par, !.talla = b, !.fichero = f]
         IN  ProcOK(p, d, H) /\ MenosFe(c, d)
  <1> DEFINE d == [c EXCEPT !.pc = pc, !.par = par, !.talla = b, !.fichero = f]
  <1>1. c \in EstadoProceso
    BY DEF ProcOK
  <1>2. /\ d.pc = pc /\ d.active_user = c.active_user /\ d.lista = c.lista
        /\ d.database_listusers = c.database_listusers /\ d.orden = c.orden
        /\ d.par = par /\ d.pet = c.pet /\ d.hechas = c.hechas
        /\ d.stop_event = c.stop_event /\ d.server_thread = c.server_thread
        /\ d.server_thread_port = c.server_thread_port
    BY <1>1 DEF EstadoProceso
  <1>3. d \in EstadoProceso
    <2>1. d = [x \in DOMAIN d |-> d[x]] /\ DOMAIN d = DOMAIN c
      BY <1>1 DEF EstadoProceso
    <2>2. /\ DOMAIN c = Campos /\ c.active_user \in Nombres \cup {Nadie}
          /\ c.database_listusers \in SUBSET (Nombres \X Direcciones)
          /\ c.lista \in SUBSET (Nombres \X Direcciones)
          /\ c.stop_event \in BOOLEAN /\ c.server_thread \in Hilos \cup {Nadie}
          /\ c.server_thread_port \in Direcciones \cup {Nadie}
          /\ c.orden \in [op : Mandatos, user : Nombres] \cup {SinOrden}
      BY <1>1 DEF EstadoProceso, Campos
    <2>3. /\ c.pet \in Mandatos \cup {""} /\ c.hechas \in Nat
          /\ par \in {"nada", "abierto", "entero", "cortado", "reset"}
          /\ d.rc \in -1 .. 4 /\ d.talla \in BOOLEAN
          /\ d.fichero \in {"nada", "parcial", "entero"}
      BY <1>1 DEF EstadoProceso
    <2>4. d.pc \in {"recibe", "shell"}
      BY <1>2
    <2> HIDE DEF d
    <2> QED BY <1>2, <2>1, <2>2, <2>3, <2>4, ProcesoForma
  <1> HIDE DEF d
  <1>4. Coherente(d) /\ Conexion(p, d, H) /\ Listas(d, H)
    BY <1>2 DEF Coherente, Conexion, Enlazado, Listas, ProcOK
  <1>5. MenosFe(c, d)
    BY <1>2 DEF MenosFe, CreeEn
  <1>6. ProcOK(p, d, H)
    BY <1>2, <1>3, <1>4 DEF ProcOK
  <1> QED BY <1>5, <1>6 DEF d

-------------------------------------------------------------------------------
(* The actions of a process. *)

\* A typed process and its lists.
LEMMA ProcesoDe ==
  ASSUME MemInv, NEW p \in Clientes
  PROVE  /\ cliente[p] \in EstadoProceso /\ ProcOK(p, cliente[p], hilo)
         /\ cliente[p].par # "nada" =>
              /\ cliente[p].pc \in {"par", "talla", "recibe", "gira"}
              /\ cliente[p].orden.op = "GET_FILE"
         /\ \A l \in ListaLeida(cliente[p]) :
              /\ l \in SUBSET (Nombres \X Direcciones)
              /\ \A e \in l : FueEn(hilo, e[1], e[2])
  <1>1. cliente[p] \in EstadoProceso /\ ProcOK(p, cliente[p], hilo)
    BY DEF MemInv
  <1>2. /\ cliente[p].database_listusers \in SUBSET (Nombres \X Direcciones)
        /\ cliente[p].lista \in SUBSET (Nombres \X Direcciones)
    BY <1>1 DEF EstadoProceso
  <1>3. ASSUME NEW l \in ListaLeida(cliente[p])
        PROVE  l \subseteq cliente[p].database_listusers \cup cliente[p].lista
    BY DEF ListaLeida
  <1>4. ASSUME NEW l \in ListaLeida(cliente[p])
        PROVE  \A e \in l : FueEn(hilo, e[1], e[2])
    BY <1>1, <1>3 DEF ProcOK, Listas
  <1>5. ASSUME NEW l \in ListaLeida(cliente[p])
        PROVE  l \in SUBSET (Nombres \X Direcciones)
    BY <1>2, <1>3
  <1> QED BY <1>1, <1>4, <1>5 DEF ProcOK, Coherente

LEMMA BienTeclea ==
  ASSUME MemInv, NEW p \in Clientes, NEW o \in Ordenes[p], Teclea(p, o)
  PROVE  Bien
  <1> DEFINE c == cliente[p]
             d == [c EXCEPT !.pc = "conecta", !.orden = o, !.pet = Primera(c, o),
                            !.hechas = @ + 1, !.par = "nada", !.fichero = "nada"]
  <1>1. /\ c.pc = "shell" /\ c.hechas < MAX_ORDENES[p] /\ o.op # "CONNECT"
        /\ cliente' = [cliente EXCEPT ![p] = d] /\ hilo' = hilo
    BY DEF Teclea, Pon
  <1>2. ProcOK(p, c, hilo)
    BY ProcesoDe
  <1>3. ProcOK(p, d, hilo) /\ MenosFe(c, d)
    BY <1>1, <1>2, DeTeclea
  <1> HIDE DEF d
  <1> QED BY <1>1, <1>3, BienProceso

\* Waiting for the port, starting again, connecting to the server.
LEMMA BienPunto ==
  ASSUME MemInv, NEW p \in Clientes, EsperaPuerto(p) \/ Arranca(p) \/ Conecta(p)
  PROVE  Bien
  <1> DEFINE c == cliente[p]
             d(pc) == [c EXCEPT !.pc = pc]
  <1>1. PICK pc :
          /\ \/ c.pc = "espera" /\ c.server_thread_port # Nadie /\ pc = "conecta"
             \/ c.pc = "fuera" /\ pc = "shell"
             \/ c.pc = "conecta" /\ pc = "peticion"
          /\ cliente' = [cliente EXCEPT ![p] = d(pc)] /\ hilo' = hilo
    BY DEF EsperaPuerto, Arranca, Conecta, Pon
  <1>2. ProcOK(p, c, hilo)
    BY ProcesoDe
  <1>3. ProcOK(p, d(pc), hilo) /\ MenosFe(c, d(pc))
    BY <1>1, <1>2, DePunto
  <1> HIDE DEF d
  <1> QED BY <1>1, <1>3, BienProceso

LEMMA BienLeeRespuesta ==
  ASSUME MemInv, NEW p \in Clientes, LeeRespuesta(p)
  PROVE  Bien
  <1> DEFINE c == cliente[p]
             activo == IF c.pet = "CONNECT" /\ c.rc = 0 THEN c.orden.user
                       ELSE c.active_user
             usuarios == IF c.pet = "LIST_USERS" /\ c.rc = 0 THEN c.lista
                         ELSE c.database_listusers
             d == [AlFinally(c, c.rc, activo, usuarios) EXCEPT !.pc = "finally"]
  <1>1. /\ c.pc = "respuesta"
        /\ cliente' = [cliente EXCEPT ![p] = AlFinally(c, c.rc, activo, usuarios)]
        /\ hilo' = hilo
    BY DEF LeeRespuesta, Pon
  <1>2. c \in EstadoProceso /\ ProcOK(p, c, hilo) /\ c.par = "nada"
    BY <1>1, ProcesoDe
  <1>3. AlFinally(c, c.rc, activo, usuarios) = d
    BY <1>2 DEF AlFinally, EstadoProceso
  <1>4. /\ c.rc \in -1 .. 4
        /\ usuarios \in SUBSET (Nombres \X Direcciones)
        /\ \A e \in usuarios : FueEn(hilo, e[1], e[2])
    BY <1>2 DEF EstadoProceso, ProcOK, Listas
  <1>5. \/ activo = c.active_user
        \/ /\ c.pc = "respuesta" /\ c.pet = "CONNECT" /\ c.rc = 0
           /\ activo = c.orden.user
    BY <1>1
  <1> HIDE DEF activo, usuarios
  <1>6. ProcOK(p, d, hilo) /\ MenosFe(c, d)
    BY <1>1, <1>2, <1>4, <1>5, DeFinally
  <1> HIDE DEF d
  <1>7. cliente' = [cliente EXCEPT ![p] = d]
    BY <1>1, <1>3
  <1> QED BY <1>1, <1>6, <1>7, BienProceso

\* A request that ends without its answer, in its `finally`.
LEMMA BienCortada ==
  ASSUME MemInv, NEW p \in Clientes,
         cliente[p].pc \in {"peticion", "respuesta", "gira"}, cliente[p].par = "nada",
         NEW rc \in -1 .. 4, NEW l \in ListaLeida(cliente[p]),
         NEW pc \in {"finally", "roto"}, hilo' = hilo,
         cliente' = [cliente EXCEPT ![p] =
           [AlFinally(cliente[p], rc, cliente[p].active_user, l) EXCEPT !.pc = pc]]
  PROVE  Bien
  <1> DEFINE c == cliente[p]
             d == [AlFinally(c, rc, c.active_user, l) EXCEPT !.pc = pc]
  <1>1. /\ ProcOK(p, c, hilo)
        /\ l \in SUBSET (Nombres \X Direcciones)
        /\ \A e \in l : FueEn(hilo, e[1], e[2])
    BY ProcesoDe
  <1>2. ProcOK(p, d, hilo) /\ MenosFe(c, d)
    BY <1>1, DeFinally
  <1>3. cliente' = [cliente EXCEPT ![p] = d]
    OBVIOUS
  <1> HIDE DEF d
  <1> QED BY <1>2, <1>3, BienProceso

LEMMA BienServidorCorta ==
  ASSUME MemInv, NEW p \in Clientes, ServidorCorta(p)
  PROVE  Bien
  <1> DEFINE c == cliente[p]
             d == [c EXCEPT !.pc = "gira"]
  <1>1. c.pc \in {"peticion", "respuesta"} /\ hilo' = hilo
    BY DEF ServidorCorta
  <1>2. ProcOK(p, c, hilo) /\ c.par = "nada"
    BY <1>1, ProcesoDe
  <1>3. CASE cliente' = [cliente EXCEPT ![p] = d]
    <2>1. ProcOK(p, d, hilo) /\ MenosFe(c, d)
      BY <1>1, <1>2, DePunto
    <2> HIDE DEF d
    <2> QED BY <1>1, <1>3, <2>1, BienProceso
  <1>4. ASSUME NEW l \in ListaLeida(c),
               cliente' = [cliente EXCEPT ![p] =
                 [AlFinally(c, 3, c.active_user, l) EXCEPT !.pc = "roto"]]
        PROVE  Bien
    <2>1. 3 \in -1 .. 4 /\ "roto" \in {"finally", "roto"}
      OBVIOUS
    <2> QED BY <1>1, <1>2, <1>4, <2>1, BienCortada
  <1> QED BY <1>3, <1>4 DEF ServidorCorta, Pon

LEMMA BienSinFecha ==
  ASSUME MemInv, NEW p \in Clientes, FechaFalla(p) \/ FechaRota(p)
  PROVE  Bien
  <1> DEFINE c == cliente[p]
             d == [EnShell(c) EXCEPT !.par = "nada"]
  <1>1. /\ c.pc \in {"finally", "roto"} /\ hilo' = hilo
        /\ cliente' = [cliente EXCEPT ![p] = EnShell(c)]
    BY DEF FechaFalla, FechaRota, SinFecha, Pon
  <1>2. c \in EstadoProceso /\ ProcOK(p, c, hilo) /\ c.par = "nada"
    BY <1>1, ProcesoDe
  <1>3. EnShell(c) = d
    BY <1>2 DEF EnShell, EstadoProceso
  <1>4. ProcOK(p, d, hilo) /\ MenosFe(c, d)
    BY <1>1, <1>2, DeShell
  <1> HIDE DEF d
  <1>5. cliente' = [cliente EXCEPT ![p] = d]
    BY <1>1, <1>3
  <1> QED BY <1>1, <1>4, <1>5, BienProceso

\* Back from a request to its caller.
LEMMA BienVuelve ==
  ASSUME MemInv, NEW p \in Clientes, NEW c, ProcOK(p, c, hilo),
         MenosFe(cliente[p], c), cliente[p].pc \in {"conecta", "finally"},
         c.pc = cliente[p].pc, c.par = "nada", c.pc = "conecta" => c.rc = 3,
         Vuelve(p, c)
  PROVE  Bien
  <1> DEFINE d1 == [c EXCEPT !.pc = "conecta", !.pet = "UNREGISTER"]
             d2 == [c EXCEPT !.pc = "busca"]
             d3 == [EnShell(c) EXCEPT !.par = "nada"]
  <1>1. CASE c.orden.op = "QUIT"
    <2>1. FinProceso(p)
      BY <1>1 DEF Vuelve
    <2> QED BY <2>1, BienFinProceso
  <1>2. CASE c.orden.op # "QUIT"
    <2>1. c \in EstadoProceso
      BY DEF ProcOK
    <2>2. EnShell(c) = d3
      BY <2>1 DEF EnShell, EstadoProceso
    <2>3. /\ hilo' = hilo
          /\ \/ /\ c.orden.op = "UNREGISTER"
                /\ cliente' = [cliente EXCEPT ![p] = d1]
             \/ /\ c.orden.op = "GET_FILE" /\ c.rc = 0
                /\ cliente' = [cliente EXCEPT ![p] = d2]
             \/ cliente' = [cliente EXCEPT ![p] = EnShell(c)]
      BY <1>2 DEF Vuelve, Pon
    <2>4. ASSUME NEW d, cliente' = [cliente EXCEPT ![p] = d],
                 ProcOK(p, d, hilo), MenosFe(c, d)
          PROVE  Bien
      <3>1. MenosFe(cliente[p], d)
        BY <2>4 DEF MenosFe
      <3> QED BY <2>3, <2>4, <3>1, BienProceso
    <2>5. CASE c.orden.op = "UNREGISTER" /\ cliente' = [cliente EXCEPT ![p] = d1]
      <3>1. ProcOK(p, d1, hilo) /\ MenosFe(c, d1)
        BY <2>5, DeUnregister
      <3> HIDE DEF d1
      <3> QED BY <2>4, <2>5, <3>1
    <2>6. CASE /\ c.orden.op = "GET_FILE" /\ c.rc = 0
               /\ cliente' = [cliente EXCEPT ![p] = d2]
      <3>1. c.pc = "finally"
        BY <2>6
      <3>2. ProcOK(p, d2, hilo) /\ MenosFe(c, d2)
        BY <2>6, <3>1, DePunto
      <3> HIDE DEF d2
      <3> QED BY <2>4, <2>6, <3>2
    <2>7. CASE cliente' = [cliente EXCEPT ![p] = EnShell(c)]
      <3>1. ProcOK(p, d3, hilo) /\ MenosFe(c, d3)
        BY DeShell
      <3> HIDE DEF d3
      <3> QED BY <2>2, <2>4, <2>7, <3>1
    <2> QED BY <2>3, <2>5, <2>6, <2>7
  <1> QED BY <1>1, <1>2

LEMMA BienConectaFalla ==
  ASSUME MemInv, NEW p \in Clientes, ConectaFalla(p)
  PROVE  Bien
  <1> DEFINE c == cliente[p]
             d == [c EXCEPT !.rc = 3]
  <1>1. c.pc = "conecta" /\ Vuelve(p, d)
    BY DEF ConectaFalla
  <1>2. c \in EstadoProceso /\ ProcOK(p, c, hilo) /\ c.par = "nada"
    BY <1>1, ProcesoDe
  <1>3. /\ d.pc = c.pc /\ d.active_user = c.active_user /\ d.lista = c.lista
        /\ d.database_listusers = c.database_listusers /\ d.orden = c.orden
        /\ d.par = c.par /\ d.pet = c.pet /\ d.hechas = c.hechas
        /\ d.stop_event = c.stop_event /\ d.server_thread = c.server_thread
        /\ d.server_thread_port = c.server_thread_port /\ d.rc = 3
    BY <1>2 DEF EstadoProceso
  <1>4. d \in EstadoProceso
    <2>1. 3 \in -1 .. 4
      OBVIOUS
    <2> QED BY ZenonT(60), <1>2, <2>1 DEF EstadoProceso
  <1> HIDE DEF d
  <1>5. Coherente(d) /\ Conexion(p, d, hilo) /\ Listas(d, hilo)
    BY <1>2, <1>3 DEF Coherente, Conexion, Enlazado, Listas, ProcOK
  <1>6. ProcOK(p, d, hilo)
    BY <1>2, <1>3, <1>4, <1>5 DEF ProcOK
  <1>7. MenosFe(c, d)
    BY <1>3 DEF MenosFe, CreeEn
  <1> QED BY <1>1, <1>2, <1>3, <1>6, <1>7, BienVuelve

LEMMA BienEnviaFecha ==
  ASSUME MemInv, NEW p \in Clientes, EnviaFecha(p)
  PROVE  Bien
  <1> DEFINE c == cliente[p]
             para == c.pet = "DISCONNECT" /\ c.server_thread # Nadie
             d == [c EXCEPT !.stop_event = TRUE, !.server_thread = Nadie,
                            !.server_thread_port = Nadie]
  <1>1. c.pc = "finally" /\ Vuelve(p, IF para THEN d ELSE c)
    BY DEF EnviaFecha
  <1>2. c \in EstadoProceso /\ ProcOK(p, c, hilo) /\ c.par = "nada"
    BY <1>1, ProcesoDe
  <1>3. CASE para
    <2>1. ProcOK(p, d, hilo) /\ MenosFe(c, d)
      BY <1>1, <1>2, <1>3, DeParada
    <2>2. d.pc = c.pc /\ d.par = c.par
      BY <1>2 DEF EstadoProceso
    <2>3. Vuelve(p, d)
      BY <1>1, <1>3
    <2> HIDE DEF d
    <2> QED BY <1>1, <1>2, <2>1, <2>2, <2>3, BienVuelve
  <1>4. CASE ~para
    <2>1. MenosFe(c, c) /\ Vuelve(p, c)
      BY <1>1, <1>4 DEF MenosFe
    <2> QED BY <1>1, <1>2, <2>1, BienVuelve
  <1> QED BY <1>3, <1>4

\* The connection to the peer is closed.
LEMMA BienDeja ==
  ASSUME MemInv, NEW p \in Clientes, cliente[p].pc \in {"par", "talla", "recibe", "gira"},
         cliente[p].pc = "gira" => cliente[p].par # "nada", Deja(p)
  PROVE  Bien
  <1> DEFINE c == cliente[p]
             d == [EnShell(c) EXCEPT !.par = "nada"]
  <1>1. cliente' = [cliente EXCEPT ![p] = d] /\ hilo' = Cierran({}, "muerto", p)
    BY DEF Deja, Pon
  <1>2. ProcOK(p, d, hilo) /\ MenosFe(c, d)
    BY ProcesoDe, DeShell
  <1> HIDE DEF d
  <1>3. {} \in SUBSET Hilos /\ "muerto" \in {"muerto", "roto"}
    OBVIOUS
  <1>9. \A h \in Hilos : Cerrado(h, {}, "muerto", p)
    BY <1>1, <1>3, CierranHilos
  <1>4. \A h \in Hilos : ~EnHilo(hilo'[h], p)
    BY <1>9 DEF Cerrado
  <1>8. \A h \in Hilos : hilo'[h].pc = hilo[h].pc
    BY <1>9 DEF Cerrado
  <1>5. cliente' \in [Clientes -> EstadoProceso]
    BY <1>1, <1>2 DEF ProcOK, MemInv
  <1>6. ASSUME NEW q \in Clientes
        PROVE  /\ ProcOK(q, cliente'[q], hilo)
               /\ Sigue(q, cliente'[q], hilo, hilo')
               /\ MenosFe(cliente[q], cliente'[q])
               /\ \/ cliente'[q] = cliente[q]
                  \/ /\ \A h \in Hilos : ~EnHilo(hilo'[h], q)
                     /\ cliente[q].pc # "espera"
    <2>1. CASE q = p
      <3>1. cliente'[p] = d
        BY <1>1 DEF MemInv
      <3> QED BY <1>2, <1>4, <1>8, <2>1, <3>1 DEF Sigue
    <2>2. CASE q # p
      <3>1. cliente'[q] = cliente[q]
        BY <1>1, <2>2 DEF MemInv
      <3> QED BY <1>8, <3>1, ProcesoDe DEF MenosFe, Sigue
    <2> QED BY <2>1, <2>2
  <1>7. \A h \in {} : hilo[h].pc # "no"
    OBVIOUS
  <1> QED BY <1>1, <1>3, <1>5, <1>6, <1>7, PasoCierran

LEMMA BienLeeEstado ==
  ASSUME MemInv, NEW p \in Clientes, LeeEstado(p)
  PROVE  Bien
  <1> DEFINE c == cliente[p]
             d == [c EXCEPT !.pc = "talla"]
  <1>1. /\ c.pc = "par"
        /\ \/ hilo' = hilo /\ cliente' = [cliente EXCEPT ![p] = d]
           \/ Deja(p)
    BY DEF LeeEstado, Pon
  <1>2. c \in EstadoProceso /\ ProcOK(p, c, hilo)
    BY ProcesoDe
  <1>3. d.pc = "talla" /\ d.par = c.par /\ d.orden = c.orden
    BY <1>2 DEF EstadoProceso
  <1>4. ProcOK(p, d, hilo) /\ MenosFe(c, d)
    BY <1>1, <1>2, DePunto
  <1> HIDE DEF d
  <1>5. CASE Deja(p)
    BY <1>1, <1>5, BienDeja
  <1>6. CASE hilo' = hilo /\ cliente' = [cliente EXCEPT ![p] = d]
    BY <1>1, <1>3, <1>4, <1>6, BienProceso
  <1> QED BY <1>1, <1>5, <1>6

LEMMA BienLeeTalla ==
  ASSUME MemInv, NEW p \in Clientes, LeeTalla(p)
  PROVE  Bien
  <1> DEFINE c == cliente[p]
             d == [c EXCEPT !.pc = "recibe", !.par = c.par, !.talla = c.talla,
                            !.fichero = "parcial"]
  <1>1. /\ c.pc = "talla"
        /\ \/ /\ hilo' = hilo
              /\ cliente' = [cliente EXCEPT ![p] =
                               [c EXCEPT !.pc = "recibe", !.fichero = "parcial"]]
           \/ Deja(p)
    BY DEF LeeTalla, Pon
  <1>2. c \in EstadoProceso /\ ProcOK(p, c, hilo)
    BY ProcesoDe
  <1>3. /\ d = [c EXCEPT !.pc = "recibe", !.fichero = "parcial"]
        /\ d.pc = "recibe" /\ d.par = c.par /\ d.orden = c.orden
    BY <1>2 DEF EstadoProceso
  <1>4. ProcOK(p, d, hilo) /\ MenosFe(c, d)
    <2>1. c.talla \in BOOLEAN
      BY <1>2 DEF EstadoProceso
    <2> QED BY <1>1, <1>2, <2>1, DeRecibe
  <1> HIDE DEF d
  <1>5. CASE Deja(p)
    BY <1>1, <1>5, BienDeja
  <1>6. CASE hilo' = hilo /\ cliente' = [cliente EXCEPT ![p] = d]
    BY <1>1, <1>3, <1>4, <1>6, BienProceso
  <1> QED BY <1>1, <1>3, <1>5, <1>6

LEMMA BienPierdePar ==
  ASSUME MemInv, NEW p \in Clientes, PierdePar(p)
  PROVE  Bien
  <1> DEFINE c == cliente[p]
             d == [c EXCEPT !.pc = "gira"]
  <1>1. /\ c.pc \in {"par", "talla", "recibe"} /\ c.par \in {"cortado", "reset"}
        /\ \/ Deja(p)
           \/ /\ c.pc \in {"par", "talla"} /\ hilo' = hilo
              /\ cliente' = [cliente EXCEPT ![p] = d]
    BY DEF PierdePar, Pon
  <1>2. c.pc \in {"par", "talla"} => ProcOK(p, d, hilo) /\ MenosFe(c, d)
    BY ProcesoDe, DePunto
  <1> HIDE DEF d
  <1>3. CASE Deja(p)
    BY <1>1, <1>3, BienDeja
  <1>4. CASE /\ c.pc \in {"par", "talla"} /\ hilo' = hilo
             /\ cliente' = [cliente EXCEPT ![p] = d]
    BY <1>1, <1>2, <1>4, BienProceso
  <1> QED BY <1>1, <1>3, <1>4

LEMMA BienRecibe ==
  ASSUME MemInv, NEW p \in Clientes, Recibe(p)
  PROVE  Bien
  <1> DEFINE c == cliente[p]
             f == IF c.par = "entero" THEN "entero" ELSE c.fichero
             d == [c EXCEPT !.pc = "shell", !.par = "nada", !.talla = FALSE,
                            !.fichero = f]
  <1>1. c.pc = "recibe" /\ c.par # "abierto" /\ hilo' = hilo
    BY DEF Recibe
  <1>2. cliente' = [cliente EXCEPT ![p] = d]
    BY DEF Recibe, Pon
  <1>3. ProcOK(p, c, hilo) /\ f \in {"nada", "parcial", "entero"} /\ FALSE \in BOOLEAN
    BY ProcesoDe DEF EstadoProceso
  <1> HIDE DEF f
  <1>4. ProcOK(p, d, hilo) /\ MenosFe(c, d)
    BY <1>1, <1>3, DeRecibe
  <1> HIDE DEF d
  <1> QED BY <1>1, <1>2, <1>4, BienProceso

LEMMA BienInterrumpe ==
  ASSUME MemInv, NEW p \in Clientes, Interrumpe(p)
  PROVE  Bien
  <1> DEFINE c == cliente[p]
  <1>1. CASE c.par # "nada" /\ c.pc \in {"par", "talla", "recibe", "gira"} /\ Deja(p)
    BY <1>1, BienDeja
  <1>2. ASSUME c.pc \in {"peticion", "respuesta", "gira"}, c.par = "nada", hilo' = hilo,
               NEW l \in ListaLeida(c), NEW pc \in {"finally", "roto"},
               NEW rc \in {3} \cup (IF c.pc = "respuesta" THEN {c.rc} ELSE {}),
               cliente' = [cliente EXCEPT ![p] =
                 [AlFinally(c, rc, c.active_user, l) EXCEPT !.pc = pc]]
        PROVE  Bien
    <2>1. rc \in -1 .. 4
      <3>1. c \in EstadoProceso
        BY ProcesoDe
      <3>2. c.rc \in -1 .. 4
        BY <3>1 DEF EstadoProceso
      <3>3. 3 \in -1 .. 4
        OBVIOUS
      <3>4. rc = 3 \/ rc = c.rc
        OBVIOUS
      <3> QED BY <3>2, <3>3, <3>4
    <2> QED BY <1>2, <2>1, BienCortada
  <1> QED BY <1>1, <1>2 DEF Interrumpe, Pon

-------------------------------------------------------------------------------
(* Steps of a process and a thread. *)

LEMMA PasoAmbos ==
  ASSUME MemInv, NEW p \in Clientes, NEW d, NEW a \in Hilos, NEW t,
         cliente' = [cliente EXCEPT ![p] = d], hilo' = [hilo EXCEPT ![a] = t],
         t \in EstadoHilo, Persiste(hilo, hilo'), hilo[a].pc \in Vivos => t.pc \in Vivos,
         ProcOK(p, d, hilo'), MenosFe(cliente[p], d),
         \A h \in Hilos : HiloOK(h, hilo'[h], cliente'),
         Ocupa(t) => \A h \in Hilos \ {a} : Ocupa(hilo[h]) => hilo[h].puerto # t.puerto,
         ParInv'
  PROVE  Bien
  <1>1. /\ cliente' \in [Clientes -> EstadoProceso]
        /\ hilo' \in [Hilos -> EstadoHilo]
        /\ cliente'[p] = d
        /\ \A q \in Clientes \ {p} : cliente'[q] = cliente[q]
        /\ hilo'[a] = t /\ \A h \in Hilos \ {a} : hilo'[h] = hilo[h]
    BY DEF MemInv, ProcOK
  <1>2. \A h \in Hilos : HiloOK(h, hilo[h], cliente)
    BY DEF MemInv
  <1>3. ASSUME NEW q \in Clientes
        PROVE  ProcOK(q, cliente'[q], hilo') /\ MenosFe(cliente[q], cliente'[q])
    <2>1. CASE q = p
      BY <1>1, <2>1
    <2>2. CASE q # p
      <3>1. Sigue(q, cliente[q], hilo, hilo')
        BY <1>1 DEF Sigue
      <3>2. ProcOK(q, cliente[q], hilo')
        BY <1>2, <3>1, ProcesoDe, ProcPersiste
      <3> QED BY <1>1, <2>2, <3>2 DEF MenosFe
    <2> QED BY <2>1, <2>2
  <1>4. PuertosOK(hilo')
    BY <1>1 DEF PuertosOK, MemInv
  <1> QED BY <1>1, <1>3, <1>4 DEF Bien, MemInv

\* getfile connects to the address of its list.
LEMMA BienConectaPar ==
  ASSUME MemInv, NEW p \in Clientes, ConectaPar(p)
  PROVE  Bien
  <1> DEFINE c == cliente[p]
             d == [c EXCEPT !.pc = "par", !.par = "abierto", !.rc = -1]
             e == [EnShell(c) EXCEPT !.par = "nada"]
             t(a) == [hilo[a] EXCEPT !.cola = Append(@, p)]
  <1>1. /\ c.pc = "busca"
        /\ \E b \in Buscado(c) :
             \/ \E a \in Oyentes(b) :
                  /\ cliente' = [cliente EXCEPT ![p] = d]
                  /\ hilo' = [hilo EXCEPT ![a].cola = Append(@, p)]
             \/ cliente' = [cliente EXCEPT ![p] = EnShell(c)] /\ hilo' = hilo
    BY DEF ConectaPar, Pon
  <1>2. /\ c \in EstadoProceso /\ ProcOK(p, c, hilo) /\ c.par = "nada"
        /\ c.orden.op = "GET_FILE"
    BY <1>1, ProcesoDe DEF ProcOK, Coherente
  <1>3. CASE cliente' = [cliente EXCEPT ![p] = EnShell(c)] /\ hilo' = hilo
    <2>1. EnShell(c) = e
      BY <1>2 DEF EnShell, EstadoProceso
    <2>2. ProcOK(p, e, hilo) /\ MenosFe(c, e)
      BY <1>1, <1>2, DeShell
    <2> HIDE DEF e
    <2>3. cliente' = [cliente EXCEPT ![p] = e]
      BY <1>3, <2>1
    <2> QED BY <1>1, <1>3, <2>2, <2>3, BienProceso
  <1>4. ASSUME NEW b \in Buscado(c), NEW a \in Oyentes(b),
               cliente' = [cliente EXCEPT ![p] = d],
               hilo' = [hilo EXCEPT ![a].cola = Append(@, p)]
        PROVE  Bien
    <2>1. /\ a \in Hilos /\ hilo[a].puerto = b /\ hilo[a].pc \in Escuchan
          /\ b \in Direcciones /\ FueEn(hilo, c.orden.user, b)
      <3>1. b \in Direcciones /\ <<c.orden.user, b>> \in c.database_listusers
        BY <1>4 DEF Buscado
      <3> QED BY <1>2, <1>4, <3>1 DEF ProcOK, Listas, Oyentes
    <2>18. Destino(c, a, hilo)
      <3>1. PICK g \in Hilos : hilo[g].para = c.orden.user /\ hilo[g].puerto = b
        BY <2>1 DEF FueEn
      <3>2. hilo[g].pc \in {"muerto", "roto"} \/ Ocupa(hilo[g])
        <4>1. hilo[g] \in EstadoHilo /\ HiloOK(g, hilo[g], cliente)
          BY DEF MemInv
        <4> QED BY <2>1, <3>1, <4>1, NadieCortada DEF EstadoHilo, HiloOK, Ocupa
      <3>3. Ocupa(hilo[g]) => g = a
        BY <2>1, <3>1 DEF MemInv, PuertosOK, Ocupa
      <3> QED BY <2>1, <3>1, <3>2, <3>3 DEF Destino
    <2>2. hilo[a] \in EstadoHilo /\ HiloOK(a, hilo[a], cliente)
      BY <2>1 DEF MemInv
    <2>3. \A h \in Hilos : ~EnHilo(hilo[h], p)
      BY <1>1, ServidoAbierto
    <2>4. /\ t(a).con = hilo[a].con /\ t(a).cola = Append(hilo[a].cola, p)
          /\ t(a).puerto = hilo[a].puerto
          /\ t(a).pc = hilo[a].pc /\ t(a).de = hilo[a].de /\ t(a).para = hilo[a].para
      BY <2>2 DEF EstadoHilo
    <2>5. /\ t(a).cola \in Colas
          /\ \A q \in Clientes : /\ EnHilo(t(a), q) => EnHilo(hilo[a], q) \/ q = p
                                 /\ Unico(hilo[a], q) => Unico(t(a), q)
      <3> HIDE DEF t
      <3> QED BY <2>1, <2>2, <2>3, <2>4, ColaEntra
    <2>6. t(a) \in EstadoHilo
      <3>1. ASSUME NEW x \in EstadoHilo, NEW k \in Colas
            PROVE  [x EXCEPT !.cola = k] \in EstadoHilo
        BY DEF EstadoHilo, Colas
      <3>2. [hilo[a] EXCEPT !.cola = t(a).cola] \in EstadoHilo
        <4> HIDE DEF t
        <4> QED BY <2>2, <2>5, <3>1
      <3>3. t(a) = [hilo[a] EXCEPT !.cola = t(a).cola]
        BY <2>4
      <3> QED BY <3>2, <3>3
    <2>7. hilo' = [hilo EXCEPT ![a] = t(a)]
      BY <1>4
    <2> HIDE DEF t
    <2>8. /\ hilo'[a] = t(a) /\ \A h \in Hilos \ {a} : hilo'[h] = hilo[h]
      BY <2>1, <2>7 DEF MemInv
    <2>9. Persiste(hilo, hilo')
      BY <2>4, <2>8 DEF Persiste
    <2>10. /\ d.pc = "par" /\ d.active_user = c.active_user /\ d.lista = c.lista
           /\ d.database_listusers = c.database_listusers /\ d.orden = c.orden
           /\ d.par = "abierto" /\ d.pet = c.pet /\ d.hechas = c.hechas
           /\ d.stop_event = c.stop_event /\ d.server_thread = c.server_thread
           /\ d.server_thread_port = c.server_thread_port
      BY <1>2 DEF EstadoProceso
    <2>11. d \in EstadoProceso
      <3>1. -1 \in -1 .. 4
        OBVIOUS
      <3> QED BY ZenonT(60), <1>2, <3>1 DEF EstadoProceso
    <2> HIDE DEF d
    <2>12. ProcOK(p, d, hilo)
      <3>1. Coherente(d) /\ Conexion(p, d, hilo) /\ Listas(d, hilo)
        BY <1>2, <2>10 DEF Coherente, Conexion, Enlazado, Listas, ProcOK
      <3> QED BY <1>2, <2>10, <2>11, <3>1 DEF ProcOK
    <2>13. ProcOK(p, d, hilo')
      <3>1. \A h \in Hilos : HiloOK(h, hilo[h], cliente)
        BY DEF MemInv
      <3>2. Sigue(p, d, hilo, hilo')
        BY <2>4, <2>8 DEF Sigue
      <3> QED BY <2>9, <2>12, <3>1, <3>2, ProcPersiste
    <2>14. MenosFe(c, d)
      BY <1>1, <2>10 DEF MenosFe, CreeEn
    <2>15. cliente'[p] = d /\ \A q \in Clientes \ {p} : cliente'[q] = cliente[q]
      BY <1>4 DEF MemInv
    <2>16. ASSUME NEW h \in Hilos PROVE HiloOK(h, hilo'[h], cliente')
      <3>1. HiloOK(h, hilo[h], cliente)
        BY DEF MemInv
      <3>2. hilo[h].pc = "creado" => cliente'[hilo[h].de] = cliente[hilo[h].de]
        BY <1>1, <2>15, <3>1 DEF HiloOK
      <3>3. CASE h = a
        BY <1>4, <2>1, <2>2, <2>4, <2>6, <2>8, <3>1, <3>2, <3>3 DEF HiloOK, Escuchan
      <3>4. CASE h # a
        BY <2>8, <3>1, <3>2, <3>4 DEF HiloOK
      <3> QED BY <3>3, <3>4
    <2>17. ParInv'
      <3>1. ASSUME NEW q \in Clientes, NEW h \in Hilos, EnHilo(hilo'[h], q)
            PROVE  /\ EnHilo(hilo[h], q) \/ (q = p /\ h = a)
                   /\ Abierta(cliente'[q], h, hilo')
        <4>1. EnHilo(hilo[h], q) \/ (q = p /\ h = a)
          BY <2>5, <2>8, <3>1
        <4>2. CASE EnHilo(hilo[h], q)
          <5>1. q # p /\ Abierta(cliente[q], h, hilo)
            BY <2>3, <4>2 DEF MemInv, ParInv
          <5>2. cliente'[q] = cliente[q]
            BY <2>15, <5>1
          <5>3. Destino(cliente'[q], h, hilo')
            BY <2>9, <5>1, <5>2, DestinoSigue DEF Abierta
          <5> QED BY <4>2, <5>1, <5>2, <5>3 DEF Abierta
        <4>3. CASE q = p /\ h = a
          <5>1. Destino(d, a, hilo')
            BY <2>1, <2>9, <2>10, <2>18, DestinoSigue
          <5> QED BY <2>10, <2>15, <4>1, <4>3, <5>1 DEF Abierta
        <4> QED BY <4>1, <4>2, <4>3
      <3>2. ASSUME NEW q \in Clientes, NEW h \in Hilos PROVE Unico(hilo'[h], q)
        BY <2>5, <2>8 DEF MemInv, ParInv
      <3>3. ASSUME NEW q \in Clientes, NEW h \in Hilos, NEW g \in Hilos,
                   EnHilo(hilo'[h], q), EnHilo(hilo'[g], q)
            PROVE  h = g
        BY <2>3, <3>1, <3>3 DEF MemInv, ParInv
      <3> QED BY <3>1, <3>2, <3>3 DEF ParInv
    <2>19. Ocupa(t(a)) => \A h \in Hilos \ {a} : Ocupa(hilo[h]) => hilo[h].puerto # t(a).puerto
      BY <2>1, <2>4 DEF MemInv, PuertosOK, Ocupa
    <2> QED BY <1>4, <2>1, <2>4, <2>6, <2>7, <2>9, <2>13, <2>14, <2>16, <2>17, <2>19, PasoAmbos
  <1> QED BY <1>1, <1>3, <1>4

\* connect starts a thread.
LEMMA BienLanza ==
  ASSUME MemInv, NEW p \in Clientes, NEW o \in Ordenes[p], TecleaConnect(p, o)
  PROVE  Bien
  <1> DEFINE c == cliente[p]
             t == [HiloLibre EXCEPT !.pc = "creado", !.de = p, !.para = o.user]
             d(h) == [c EXCEPT !.pc = "espera", !.orden = o, !.pet = "CONNECT",
                               !.hechas = @ + 1, !.par = "nada",
                               !.fichero = "nada", !.server_thread = h,
                               !.stop_event = FALSE, !.server_thread_port = Nadie]
  <1>1. /\ c.pc = "shell" /\ c.hechas < MAX_ORDENES[p] /\ o.op = "CONNECT"
        /\ c.active_user = Nadie
    BY DEF TecleaConnect, LanzaHilo
  <1>2. PICK h \in Hilos : /\ hilo[h].pc = "no"
                                 /\ hilo' = [hilo EXCEPT ![h] = t]
                                 /\ cliente' = [cliente EXCEPT ![p] = d(h)]
    BY DEF TecleaConnect, LanzaHilo, Pon
  <1>3. /\ c \in EstadoProceso /\ ProcOK(p, c, hilo)
        /\ o \in [op : Mandatos, user : Nombres] /\ MAX_ORDENES[p] \in Nat
    BY ProcesoDe, ClienteAssumption
  <1>4. /\ t.pc = "creado" /\ t.de = p /\ t.para = o.user /\ t.con = Nadie
        /\ t.puerto = Nadie
        /\ t.cola = <<>>
    BY DEF HiloLibre
  <1>5. t \in EstadoHilo
    <2>1. <<>> \in Seq(Clientes \cup {Cortada}) /\ o.user \in Nombres
      BY <1>3
    <2> QED BY <2>1 DEF HiloLibre, EstadoHilo
  <1>6. c.hechas \in Nat
    BY <1>3 DEF EstadoProceso
  <1>7. /\ d(h).pc = "espera" /\ d(h).orden = o /\ d(h).pet = "CONNECT"
        /\ d(h).hechas = c.hechas + 1 /\ d(h).par = "nada"
        /\ d(h).active_user = c.active_user /\ d(h).stop_event = FALSE
        /\ d(h).database_listusers = c.database_listusers /\ d(h).lista = c.lista
        /\ d(h).server_thread = h /\ d(h).server_thread_port = Nadie
    BY <1>3 DEF EstadoProceso
  <1>8. d(h) \in EstadoProceso
    <2>1. DOMAIN d(h) = DOMAIN c /\ d(h) = [x \in DOMAIN d(h) |-> d(h)[x]]
      OBVIOUS
    <2>2. /\ DOMAIN c = Campos /\ c.active_user \in Nombres \cup {Nadie}
          /\ c.database_listusers \in SUBSET (Nombres \X Direcciones)
          /\ c.lista \in SUBSET (Nombres \X Direcciones)
      BY <1>3 DEF EstadoProceso, Campos
    <2>3. c.rc \in -1 .. 4
      BY <1>3 DEF EstadoProceso
    <2>4. d(h).rc = c.rc /\ d(h).fichero = "nada" /\ d(h).talla \in BOOLEAN
      BY <1>3 DEF EstadoProceso
    <2>5. /\ o \in [op : Mandatos, user : Nombres] \cup {SinOrden}
          /\ "CONNECT" \in Mandatos \cup {""}
      BY <1>3 DEF Mandatos
    <2>6. c.hechas + 1 \in Nat
      BY <1>6
    <2> HIDE DEF d
    <2> QED BY <1>7, <2>1, <2>2, <2>3, <2>4, <2>5, <2>6, ProcesoForma
  <1> HIDE DEF t, d
  <1>9. /\ hilo'[h] = t /\ \A g \in Hilos \ {h} : hilo'[g] = hilo[g]
        /\ cliente'[p] = d(h) /\ \A q \in Clientes \ {p} : cliente'[q] = cliente[q]
    BY <1>2 DEF MemInv
  <1>16. HiloOK(h, hilo[h], cliente) /\ hilo[h].puerto = Nadie
    BY <1>2 DEF MemInv, HiloOK
  <1>10. Persiste(hilo, hilo')
    BY <1>2, <1>9, <1>16 DEF Persiste
  <1>11. ProcOK(p, c, hilo')
    <2>1. \A g \in Hilos : HiloOK(g, hilo[g], cliente)
      BY DEF MemInv
    <2>2. Sigue(p, c, hilo, hilo')
      BY <1>2, <1>9 DEF Sigue, Vivos, Escuchan
    <2> QED BY <1>3, <1>10, <2>1, <2>2, ProcPersiste
  <1>12. ProcOK(p, d(h), hilo')
    <2>1. d(h).hechas <= MAX_ORDENES[p]
      BY <1>1, <1>3, <1>6, <1>7
    <2>2. Coherente(d(h))
      BY <1>1, <1>7 DEF Coherente
    <2>3. Conexion(p, d(h), hilo')
      BY <1>1, <1>4, <1>7, <1>9 DEF Conexion
    <2>4. Listas(d(h), hilo')
      BY <1>7, <1>11 DEF ProcOK, Listas
    <2> QED BY <1>8, <2>1, <2>2, <2>3, <2>4 DEF ProcOK
  <1>13. MenosFe(c, d(h))
    BY <1>1, <1>7, NadieCortada DEF MenosFe, CreeEn
  <1>14. ASSUME NEW g \in Hilos PROVE HiloOK(g, hilo'[g], cliente')
    <2>1. HiloOK(g, hilo[g], cliente)
      BY DEF MemInv
    <2>2. CASE g = h
      BY <1>4, <1>5, <1>7, <1>9, <2>2 DEF HiloOK, Vivos, Escuchan
    <2>3. CASE g # h
      <3>1. hilo[g].pc = "creado" => cliente'[hilo[g].de] = cliente[hilo[g].de]
        BY <1>1, <1>9, <2>1 DEF HiloOK
      <3> QED BY <1>9, <2>1, <2>3, <3>1 DEF HiloOK
    <2> QED BY <2>2, <2>3
  <1>15. ParInv'
    <2>1. \A g \in Hilos : Menos(hilo[g], hilo'[g])
      <3>1. Menos(hilo[h], t) /\ \A q \in Clientes : ~EnHilo(t, q)
        BY <1>4, NadieCortada, ColaVacia
      <3> QED BY <1>9, <3>1 DEF Menos
    <2>2. ASSUME NEW q \in Clientes, NEW g \in Hilos, EnHilo(hilo'[g], q)
          PROVE  Abierta(cliente'[q], g, hilo')
      <3>1. g # h
        BY <1>4, <1>9, <2>2, NadieCortada, ColaVacia
      <3>2. Abierta(cliente[q], g, hilo)
        BY <1>9, <2>2, <3>1 DEF MemInv, ParInv
      <3>3. cliente'[q] = cliente[q]
        BY <1>1, <1>9, <3>2 DEF Abierta
      <3>4. Destino(cliente'[q], g, hilo')
        BY <1>10, <3>2, <3>3, DestinoSigue DEF Abierta
      <3> QED BY <3>2, <3>3, <3>4 DEF Abierta
    <2> QED BY <2>1, <2>2, ParPasa DEF MemInv
  <1>17. ~Ocupa(t) /\ hilo[h].pc \notin Vivos
    BY <1>2, <1>4 DEF Ocupa, Vivos, Escuchan
  <1> QED BY <1>2, <1>5, <1>10, <1>12, <1>13, <1>14, <1>15, <1>17, PasoAmbos

\* The thread has its port, and its process sees it.
LEMMA BienAtaA ==
  ASSUME MemInv, NEW h \in Hilos, NEW a \in Direcciones \ Ocupados,
         hilo[h].pc = "creado",
         Pon(hilo[h].de, [cliente[hilo[h].de] EXCEPT !.server_thread_port = a]),
         hilo' = [hilo EXCEPT ![h].pc = "atado", ![h].puerto = a]
  PROVE  Bien
  <1> DEFINE p == hilo[h].de
             c == cliente[p]
             t == [hilo[h] EXCEPT !.pc = "atado", !.puerto = a]
             d == [c EXCEPT !.server_thread_port = a]
  <1>15. hilo[h] \in EstadoHilo /\ hilo \in [Hilos -> EstadoHilo]
    BY DEF MemInv
  <1>1. /\ hilo[h].pc = "creado"
        /\ cliente' = [cliente EXCEPT ![p] = d]
        /\ hilo' = [hilo EXCEPT ![h] = t]
    BY <1>15 DEF Pon, EstadoHilo
  <1>2. /\ hilo[h] \in EstadoHilo /\ hilo[h].puerto = Nadie /\ p \in Clientes
        /\ c.pc = "espera" /\ c.server_thread = h
    BY <1>1 DEF MemInv, HiloOK
  <1>3. c \in EstadoProceso /\ ProcOK(p, c, hilo)
    BY <1>2, ProcesoDe
  <1>4. /\ t.pc = "atado" /\ t.puerto = a /\ t.de = p /\ t.para = hilo[h].para
        /\ t.con = hilo[h].con /\ t.cola = hilo[h].cola /\ t \in EstadoHilo
    BY <1>2 DEF EstadoHilo
  <1>5. hilo' = [hilo EXCEPT ![h] = t]
    BY <1>1
  <1>6. /\ d.pc = "espera" /\ d.active_user = c.active_user /\ d.lista = c.lista
        /\ d.database_listusers = c.database_listusers /\ d.orden = c.orden
        /\ d.par = c.par /\ d.pet = c.pet /\ d.hechas = c.hechas
        /\ d.stop_event = c.stop_event /\ d.server_thread = h
        /\ d.server_thread_port = a
    BY <1>2, <1>3 DEF EstadoProceso
  <1>7. d \in EstadoProceso
    BY ZenonT(60), <1>3 DEF EstadoProceso
  <1> HIDE DEF t, d
  <1>8. /\ hilo'[h] = t /\ \A g \in Hilos \ {h} : hilo'[g] = hilo[g]
        /\ cliente'[p] = d /\ \A q \in Clientes \ {p} : cliente'[q] = cliente[q]
    BY <1>1, <1>2, <1>5 DEF MemInv
  <1> HIDE DEF p
  <1>9. Persiste(hilo, hilo')
    BY <1>1, <1>2, <1>4, <1>8 DEF Persiste, p
  <1>10. ProcOK(p, c, hilo')
    <2>1. \A g \in Hilos : HiloOK(g, hilo[g], cliente)
      BY DEF MemInv
    <2>2. Sigue(p, c, hilo, hilo')
      BY <1>4, <1>8 DEF Sigue, Vivos
    <2> QED BY <1>2, <1>3, <1>9, <2>1, <2>2, ProcPersiste
  <1>11. ProcOK(p, d, hilo')
    <2>1. Coherente(d)
      BY <1>2, <1>3, <1>6 DEF Coherente, ProcOK
    <2>2. Enlazado(p, d, c.orden.user, hilo')
      <3>1. hilo'[h].para = c.orden.user /\ ~c.stop_event
        BY <1>2, <1>10 DEF ProcOK, Conexion
      <3> QED BY <1>4, <1>6, <1>8, <3>1 DEF Enlazado, Vivos
    <2>3. d.active_user = Nadie
      BY <1>2, <1>3, <1>6 DEF ProcOK, Coherente
    <2>4. Conexion(p, d, hilo')
      BY <1>6, <2>2, <2>3 DEF Conexion, Enlazado
    <2>5. Listas(d, hilo')
      BY <1>6, <1>10 DEF ProcOK, Listas
    <2>6. d.hechas <= MAX_ORDENES[p]
      BY <1>6, <1>3 DEF ProcOK
    <2> QED BY <1>7, <2>1, <2>4, <2>5, <2>6 DEF ProcOK
  <1>12. MenosFe(c, d)
    <2>1. d.active_user = Nadie
      BY <1>2, <1>3, <1>6 DEF ProcOK, Coherente
    <2> QED BY <1>6, <2>1, NadieCortada DEF MenosFe, CreeEn
  <1>13. ASSUME NEW g \in Hilos PROVE HiloOK(g, hilo'[g], cliente')
    <2>1. HiloOK(g, hilo[g], cliente)
      BY DEF MemInv
    <2>2. CASE g = h
      <3>1. t.pc \notin {"no", "lee", "envia", "datos", "creado"} /\ t.puerto \in Direcciones
        BY <1>4
      <3> QED BY <1>2, <1>4, <1>8, <2>2, <3>1 DEF HiloOK
    <2>3. CASE g # h
      <3>1. ASSUME hilo[g].pc = "creado"
            PROVE  cliente'[hilo[g].de] = cliente[hilo[g].de]
        <4>1. hilo[g].de \in Clientes /\ cliente[hilo[g].de].server_thread = g
          BY <2>1, <3>1 DEF HiloOK
        <4> QED BY <1>2, <1>8, <2>3, <4>1
      <3> QED BY <1>8, <2>1, <2>3, <3>1 DEF HiloOK
    <2> QED BY <2>2, <2>3
  <1>14. ParInv'
    <2>1. \A g \in Hilos : Menos(hilo[g], hilo'[g])
      <3>1. Menos(hilo[h], t)
        BY <1>4, ColaIgual
      <3> QED BY <1>8, <3>1 DEF Menos
    <2>2. ASSUME NEW q \in Clientes, NEW g \in Hilos, EnHilo(hilo'[g], q)
          PROVE  Abierta(cliente'[q], g, hilo')
      <3>1. EnHilo(hilo[g], q)
        BY <2>1, <2>2 DEF Menos
      <3>2. Abierta(cliente[q], g, hilo)
        BY <3>1 DEF MemInv, ParInv
      <3>3. cliente'[q] = cliente[q]
        BY <1>2, <1>8, <3>2 DEF Abierta
      <3>4. Destino(cliente'[q], g, hilo')
        BY <1>9, <3>2, <3>3, DestinoSigue DEF Abierta
      <3> QED BY <3>2, <3>3, <3>4 DEF Abierta
    <2> QED BY <2>1, <2>2, ParPasa DEF MemInv
  <1>16. \A g \in Hilos \ {h} : Ocupa(hilo[g]) => hilo[g].puerto # t.puerto
    BY <1>4 DEF Ocupa, Ocupados
  <1>17. t.pc \in Vivos
    BY <1>4 DEF Vivos
  <1> QED BY ZenonT(60), <1>1, <1>2, <1>4, <1>5, <1>9, <1>11, <1>12, <1>13, <1>14, <1>16,
             <1>17, PasoAmbos

LEMMA BienAta ==
  ASSUME MemInv, NEW h \in Hilos, Ata(h)
  PROVE  Bien
  BY BienAtaA DEF Ata

-------------------------------------------------------------------------------
(* Steps of a thread. *)

\* The thread goes on, and no process changes.
LEMMA BienHiloSolo ==
  ASSUME MemInv, NEW h \in Hilos, Ocupa(hilo[h]),
         NEW v \in Escuchan, NEW w \in Clientes \cup {Nadie, Cortada},
         w \notin Clientes \/ w = hilo[h].con, v \in {"lee", "envia", "datos"} => w # Nadie,
         hilo' = [hilo EXCEPT ![h] = [hilo[h] EXCEPT !.pc = v, !.con = w]],
         cliente' = cliente
  PROVE  Bien
  <1> DEFINE t == [hilo[h] EXCEPT !.pc = v, !.con = w]
  <1>1. hilo[h] \in EstadoHilo
    BY DEF MemInv
  <1>2. hilo' = [hilo EXCEPT ![h] = t] /\ t = [hilo[h] EXCEPT !.pc = v, !.con = w]
    OBVIOUS
  <1> HIDE DEF t
  <1>3. /\ t \in EstadoHilo
        /\ t.pc = v /\ t.con = w /\ t.cola = hilo[h].cola
        /\ t.de = hilo[h].de /\ t.para = hilo[h].para /\ t.puerto = hilo[h].puerto
    <2>1. /\ t.pc = v /\ t.con = w /\ t.cola = hilo[h].cola
          /\ t.de = hilo[h].de /\ t.para = hilo[h].para /\ t.puerto = hilo[h].puerto
      BY <1>1, <1>2 DEF EstadoHilo
    <2>2. v \in {"no", "creado", "atado", "muerto", "roto"} \cup Escuchan
      OBVIOUS
    <2>3. t \in EstadoHilo
      BY <1>1, <1>2, <2>2 DEF EstadoHilo
    <2> QED BY <2>1, <2>3
  <1>4. Menos(hilo[h], t)
    BY <1>3, ColaIgual
  <1>5. cliente' \in [Clientes -> EstadoProceso]
    BY DEF MemInv
  <1>6. Ocupa(t)
    BY <1>3 DEF Ocupa
  <1> QED BY <1>2, <1>3, <1>4, <1>5, <1>6, PasoHilo

LEMMA BienEscucha ==
  ASSUME MemInv, NEW h \in Hilos, Escucha(h)
  PROVE  Bien
  <1>1. /\ hilo[h].pc = "atado" /\ cliente' = cliente
        /\ hilo' = [hilo EXCEPT ![h].pc = "bucle"]
    BY DEF Escucha, Pasa
  <1>2. hilo[h] \in EstadoHilo
    BY DEF MemInv
  <1>3. [hilo[h] EXCEPT !.pc = "bucle"] = [hilo[h] EXCEPT !.pc = "bucle", !.con = hilo[h].con]
    BY <1>2 DEF EstadoHilo
  <1>4. /\ hilo[h].con \in Clientes \cup {Nadie, Cortada} /\ "bucle" \in Escuchan /\ Ocupa(hilo[h])
    BY <1>1, <1>2 DEF EstadoHilo, Ocupa, Escuchan
  <1> QED BY ZenonT(60), <1>1, <1>3, <1>4, BienHiloSolo

LEMMA BienMiraEvento ==
  ASSUME MemInv, NEW h \in Hilos, MiraEvento(h)
  PROVE  Bien
  <1>1. /\ hilo[h].pc = "bucle"
        /\ \/ cliente[hilo[h].de].stop_event /\ AcabaHilo(h, "muerto")
           \/ hilo' = [hilo EXCEPT ![h].pc = "acepta"] /\ cliente' = cliente
    BY DEF MiraEvento, Pasa
  <1>2. hilo[h] \in EstadoHilo
    BY DEF MemInv
  <1>3. [hilo[h] EXCEPT !.pc = "acepta"] = [hilo[h] EXCEPT !.pc = "acepta", !.con = hilo[h].con]
    BY <1>2 DEF EstadoHilo
  <1>4. /\ hilo[h].con \in Clientes \cup {Nadie, Cortada} /\ "acepta" \in Escuchan /\ Ocupa(hilo[h])
    BY <1>1, <1>2 DEF EstadoHilo, Ocupa, Escuchan
  <1>5. CASE cliente[hilo[h].de].stop_event /\ AcabaHilo(h, "muerto")
    <2>1. "muerto" \in {"muerto", "roto"}
      OBVIOUS
    <2> QED BY <1>4, <1>5, <2>1, BienAcabaHilo
  <1>6. CASE hilo' = [hilo EXCEPT ![h].pc = "acepta"] /\ cliente' = cliente
    BY <1>1, <1>3, <1>4, <1>6, BienHiloSolo
  <1> QED BY <1>1, <1>5, <1>6

LEMMA BienAcepta ==
  ASSUME MemInv, NEW h \in Hilos, Acepta(h)
  PROVE  Bien
  <1> DEFINE s == hilo[h]
             t == [s EXCEPT !.pc = "lee", !.con = Head(s.cola), !.cola = Tail(s.cola)]
  <1>1. /\ s.pc = "acepta" /\ s.cola # <<>> /\ cliente' = cliente
        /\ hilo' = [hilo EXCEPT ![h].pc = "lee", ![h].con = Head(hilo[h].cola),
                                ![h].cola = Tail(@)]
    BY DEF Acepta
  <1>2. s \in EstadoHilo /\ hilo \in [Hilos -> EstadoHilo]
    BY DEF MemInv
  <1>3. hilo' = [hilo EXCEPT ![h] = t]
    BY <1>1, <1>2 DEF EstadoHilo
  <1>4. /\ t.pc = "lee" /\ t.con = Head(s.cola) /\ t.cola = Tail(s.cola)
        /\ t.de = s.de /\ t.para = s.para /\ t.puerto = s.puerto
    BY <1>2 DEF EstadoHilo
  <1>5. s.cola \in Seq(Clientes \cup {Cortada})
    BY <1>2 DEF EstadoHilo
  <1>6. Head(s.cola) \in Clientes \cup {Cortada} /\ Tail(s.cola) \in Seq(Clientes \cup {Cortada})
    BY <1>1, <1>5
  <1>7. t \in EstadoHilo
    <2>1. DOMAIN t = DOMAIN s /\ t = [x \in DOMAIN t |-> t[x]]
      OBVIOUS
    <2>2. /\ DOMAIN s = {"pc", "de", "para", "puerto", "con", "cola"}
          /\ s.puerto \in Direcciones \cup {Nadie} /\ s.de \in Clientes \cup {Nadie} /\ s.para \in Nombres \cup {Nadie}
      BY <1>2 DEF EstadoHilo
    <2>3. "lee" \in {"no", "creado", "atado", "muerto", "roto"} \cup Escuchan
      BY DEF Escuchan
    <2>4. Head(s.cola) \in Clientes \cup {Nadie, Cortada}
      BY <1>6
    <2> HIDE DEF t
    <2> QED BY <1>4, <1>6, <2>1, <2>2, <2>3, <2>4 DEF EstadoHilo
  <1> HIDE DEF t
  <1>8. Menos(s, t)
    BY <1>1, <1>2, <1>4, <1>7, ColaAcepta
  <1>9. t.con # Nadie /\ Ocupa(s) /\ Ocupa(t)
    BY <1>1, <1>4, <1>6, NadieCortada DEF Ocupa, Escuchan
  <1>10. cliente' \in [Clientes -> EstadoProceso]
    BY <1>1 DEF MemInv
  <1> QED BY <1>1, <1>3, <1>4, <1>7, <1>8, <1>9, <1>10, PasoHilo

\* The connection of p, which was being served, is closed or goes on, and the
\* process of p sees it.
LEMMA BienSirve ==
  ASSUME MemInv, NEW h \in Hilos, hilo[h].pc \in {"lee", "envia", "datos"},
         NEW p \in Clientes, hilo[h].con = p,
         NEW v \in {"envia", "datos", "bucle"}, NEW w, NEW d,
         Parecido(cliente[p], d),
         \/ v # "bucle" /\ w = p /\ d.par = cliente[p].par
         \/ v = "bucle" /\ w = Nadie,
         hilo' = [hilo EXCEPT ![h] = [hilo[h] EXCEPT !.pc = v, !.con = w]],
         cliente' = [cliente EXCEPT ![p] = d]
  PROVE  Bien
  <1> DEFINE t == [hilo[h] EXCEPT !.pc = v, !.con = w]
  <1>1. hilo[h] \in EstadoHilo
    BY DEF MemInv
  <1>2. /\ v \in Escuchan /\ v # "lee" /\ (v # "bucle" => w # Nadie)
        /\ w \in Clientes \cup {Nadie, Cortada}
    BY NadieCortada DEF Escuchan
  <1>3. hilo' = [hilo EXCEPT ![h] = t] /\ t = [hilo[h] EXCEPT !.pc = v, !.con = w]
    OBVIOUS
  <1> HIDE DEF t
  <1>4. /\ t \in EstadoHilo
        /\ t.pc = v /\ t.con = w /\ t.cola = hilo[h].cola
        /\ t.de = hilo[h].de /\ t.para = hilo[h].para /\ t.puerto = hilo[h].puerto
    <2>1. /\ t.pc = v /\ t.con = w /\ t.cola = hilo[h].cola
          /\ t.de = hilo[h].de /\ t.para = hilo[h].para /\ t.puerto = hilo[h].puerto
      BY <1>1, <1>2, <1>3 DEF EstadoHilo
    <2>2. v \in {"no", "creado", "atado", "muerto", "roto"} \cup Escuchan
      BY <1>2
    <2>3. t \in EstadoHilo
      BY <1>1, <1>2, <1>3, <2>2 DEF EstadoHilo
    <2> QED BY <2>1, <2>3
  <1>5. Menos(hilo[h], t)
    BY <1>4, NadieCortada, ColaIgual
  <1>6. EnHilo(hilo[h], p)
    BY DEF EnHilo
  <1>7. cliente[p].pc \in {"par", "talla", "recibe"}
    BY <1>6, ServidoAbierto
  <1>8. ProcOK(p, d, hilo) /\ MenosFe(cliente[p], d)
    BY <1>7, ProcesoDe, ParCambia
  <1>9. cliente' \in [Clientes -> EstadoProceso]
    BY DEF MemInv, Parecido
  <1>10. cliente'[p] = d /\ \A q \in Clientes \ {p} : cliente'[q] = cliente[q]
    BY DEF MemInv
  <1>11. ASSUME w = Nadie, NEW g \in Hilos, EnHilo(hilo'[g], p) PROVE FALSE
    <2>1. CASE g = h
      <3>1. hilo'[g] = t
        BY <1>3, <2>1 DEF MemInv
      <3>2. Contains(hilo[h].cola, p)
        BY <1>4, <1>11, <3>1, NadieCortada DEF EnHilo
      <3>3. Unico(hilo[h], p)
        BY DEF MemInv, ParInv
      <3> QED BY <3>2, <3>3 DEF Unico
    <2>2. CASE g # h
      <3>1. hilo'[g] = hilo[g]
        BY <1>3, <2>2 DEF MemInv
      <3> QED BY <1>6, <1>11, <2>2, <3>1, ServidoAbierto
    <2> QED BY <2>1, <2>2
  <1>12. \A q \in Clientes : cliente'[q] # cliente[q] =>
           /\ ProcOK(q, cliente'[q], hilo)
           /\ MenosFe(cliente[q], cliente'[q])
           /\ cliente[q].pc \in {"par", "talla", "recibe"}
           /\ \/ \A g \in Hilos : ~EnHilo(hilo'[g], q)
              \/ /\ cliente'[q].par = cliente[q].par
                 /\ cliente'[q].pc = cliente[q].pc
                 /\ cliente'[q].orden = cliente[q].orden
    BY <1>7, <1>8, <1>10, <1>11 DEF Parecido
  <1>13. Ocupa(hilo[h]) /\ Ocupa(t)
    BY <1>2, <1>4 DEF Ocupa, Escuchan
  <1>14. t.pc \in {"lee", "envia", "datos"} => t.con # Nadie
    BY <1>2, <1>4
  <1> QED BY <1>2, <1>4, <1>5, <1>3, <1>9, <1>12, <1>13, <1>14, PasoHilo

\* Whom a thread serves.
LEMMA Servido ==
  ASSUME MemInv, NEW h \in Hilos, hilo[h].pc \in {"lee", "envia", "datos"}
  PROVE  /\ hilo[h] \in EstadoHilo /\ hilo[h].con \in Clientes \cup {Cortada}
         /\ Ocupa(hilo[h])
  <1>1. hilo[h] \in EstadoHilo /\ HiloOK(h, hilo[h], cliente)
    BY DEF MemInv
  <1>2. hilo[h].con \in Clientes \cup {Nadie, Cortada} /\ hilo[h].con # Nadie
    BY <1>1 DEF EstadoHilo, HiloOK
  <1> QED BY <1>1, <1>2 DEF Ocupa, Escuchan

LEMMA BienContesta ==
  ASSUME MemInv, NEW h \in Hilos, hilo[h].pc = "lee", NEW s \in 0 .. 2,
         Contesta(h, s)
  PROVE  Bien
  <1> DEFINE p == hilo[h].con
             v == IF s = 0 THEN "envia" ELSE "bucle"
             w == IF s = 0 THEN p ELSE Nadie
             r == IF s = 0 THEN cliente[p].par ELSE "entero"
             d == [cliente[p] EXCEPT !.rc = s, !.par = r]
  <1>1. /\ hilo[h] \in EstadoHilo /\ p \in Clientes \cup {Cortada}
        /\ Ocupa(hilo[h]) /\ hilo \in [Hilos -> EstadoHilo]
    BY Servido DEF MemInv
  <1>2. /\ hilo' = [hilo EXCEPT ![h] = [hilo[h] EXCEPT !.pc = v, !.con = w]]
        /\ p = Cortada => cliente' = cliente
        /\ p # Cortada => cliente' = [cliente EXCEPT ![p] = d]
    BY <1>1 DEF Contesta, Pon, EstadoHilo
  <1>3. /\ v \in Escuchan /\ v \in {"envia", "bucle"} /\ (v = "envia" => w # Nadie)
        /\ v # "lee" /\ w \in Clientes \cup {Nadie, Cortada}
    BY <1>1, NadieCortada DEF Escuchan
  <1>4. CASE p = Cortada
    <2>1. w \notin Clientes \/ w = hilo[h].con
      BY NadieCortada
    <2> HIDE DEF v, w
    <2> QED BY <1>1, <1>2, <1>3, <1>4, <2>1, BienHiloSolo
  <1>5. CASE p # Cortada
    <2>1. p \in Clientes
      BY <1>1, <1>5
    <2>2. cliente[p] \in EstadoProceso
      BY <2>1, ProcesoDe
    <2>3. cliente[p].par \in {"nada", "abierto", "entero", "cortado", "reset"}
      BY <2>2 DEF EstadoProceso
    <2>4. r \in {"nada", "abierto", "entero", "cortado", "reset"} /\ s \in -1 .. 4
      <3>1. s \in -1 .. 4
        OBVIOUS
      <3> QED BY <2>3, <3>1
    <2>5. /\ v = "envia" => w = p /\ r = cliente[p].par
          /\ v = "bucle" => w = Nadie
      OBVIOUS
    <2> HIDE DEF v, w, r
    <2>6. Parecido(cliente[p], d) /\ d.par = r
      <3>1. ASSUME NEW c \in EstadoProceso
            PROVE  /\ Parecido(c, [c EXCEPT !.rc = s, !.par = r])
                   /\ [c EXCEPT !.rc = s, !.par = r].par = r
        <4>1. [c EXCEPT !.rc = s] \in EstadoProceso
          BY ZenonT(60), <2>4, <3>1 DEF EstadoProceso
        <4>2. ASSUME NEW z \in EstadoProceso PROVE [z EXCEPT !.par = r] \in EstadoProceso
          BY <2>4, ParNuevo DEF Parecido
        <4>3. [c EXCEPT !.rc = s, !.par = r] \in EstadoProceso
          BY <4>1, <4>2
        <4> QED BY <4>3 DEF Parecido, EstadoProceso
      <3> QED BY <2>2, <3>1
    <2> HIDE DEF d
    <2> QED BY <1>2, <1>3, <1>5, <2>1, <2>5, <2>6, BienSirve
  <1> QED BY <1>4, <1>5

LEMMA BienLeePeticion ==
  ASSUME MemInv, NEW h \in Hilos, LeePeticion(h)
  PROVE  Bien
  <1>1. /\ hilo[h].pc = "lee"
        /\ \/ \E s \in 0 .. 2 : Contesta(h, s)
           \/ hilo[h].con = Cortada /\ hilo' = [hilo EXCEPT ![h].pc = "gira"]
                /\ cliente' = cliente
           \/ AcabaHilo(h, "roto")
    BY DEF LeePeticion, Pasa
  <1>2. hilo[h] \in EstadoHilo /\ Ocupa(hilo[h]) /\ "roto" \in {"muerto", "roto"}
    BY <1>1, Servido
  <1>3. CASE \E s \in 0 .. 2 : Contesta(h, s)
    BY <1>1, <1>3, BienContesta
  <1>4. CASE AcabaHilo(h, "roto")
    BY <1>2, <1>4, BienAcabaHilo
  <1>5. CASE /\ hilo[h].con = Cortada /\ hilo' = [hilo EXCEPT ![h].pc = "gira"]
             /\ cliente' = cliente
    <2>1. [hilo[h] EXCEPT !.pc = "gira"] = [hilo[h] EXCEPT !.pc = "gira", !.con = hilo[h].con]
      BY <1>2 DEF EstadoHilo
    <2>2. hilo[h].con \in Clientes \cup {Nadie, Cortada} /\ "gira" \in Escuchan
      BY <1>2 DEF EstadoHilo, Escuchan
    <2> QED BY <1>2, <1>5, <2>1, <2>2, BienHiloSolo
  <1> QED BY <1>1, <1>3, <1>4, <1>5

LEMMA BienEnviaTalla ==
  ASSUME MemInv, NEW h \in Hilos, EnviaTalla(h)
  PROVE  Bien
  <1> DEFINE p == hilo[h].con
             d == [cliente[p] EXCEPT !.talla = TRUE]
             v == "datos"
             w == p
  <1>1. /\ hilo[h].pc = "envia"
        /\ \/ /\ hilo' = [hilo EXCEPT ![h].pc = "datos"]
              /\ p = Cortada => cliente' = cliente
              /\ p # Cortada => cliente' = [cliente EXCEPT ![p] = d]
           \/ AcabaHilo(h, "roto")
    BY DEF EnviaTalla, Pon, Pasa
  <1>2. /\ hilo[h] \in EstadoHilo /\ p \in Clientes \cup {Cortada}
        /\ Ocupa(hilo[h]) /\ "roto" \in {"muerto", "roto"}
    BY <1>1, Servido DEF MemInv
  <1>3. CASE AcabaHilo(h, "roto")
    BY <1>2, <1>3, BienAcabaHilo
  <1>4. CASE /\ hilo' = [hilo EXCEPT ![h].pc = "datos"]
             /\ p = Cortada => cliente' = cliente
             /\ p # Cortada => cliente' = [cliente EXCEPT ![p] = d]
    <2>1. hilo' = [hilo EXCEPT ![h] = [hilo[h] EXCEPT !.pc = v, !.con = w]]
      BY <1>2, <1>4 DEF EstadoHilo
    <2>2. /\ v \in Escuchan /\ v \in {"envia", "datos", "bucle"} /\ v # "bucle"
          /\ w = p /\ w # Nadie /\ w \in Clientes \cup {Nadie, Cortada}
      BY <1>2, NadieCortada DEF Escuchan
    <2> HIDE DEF v, w
    <2>3. CASE p = Cortada
      BY <1>2, <1>4, <2>1, <2>2, <2>3, BienHiloSolo
    <2>4. CASE p # Cortada
      <3>1. p \in Clientes /\ cliente[p] \in EstadoProceso
        BY <1>2, <2>4, ProcesoDe
      <3>2. Parecido(cliente[p], d) /\ d.par = cliente[p].par
        <4>1. ASSUME NEW c \in EstadoProceso
              PROVE  /\ Parecido(c, [c EXCEPT !.talla = TRUE])
                     /\ [c EXCEPT !.talla = TRUE].par = c.par
          <5>1. [c EXCEPT !.talla = TRUE] \in EstadoProceso
            BY ZenonT(60) DEF EstadoProceso
          <5> QED BY <5>1 DEF Parecido, EstadoProceso
        <4> QED BY <3>1, <4>1
      <3>3. hilo[h].pc \in {"lee", "envia", "datos"} /\ cliente' = [cliente EXCEPT ![p] = d]
        BY <1>1, <1>4, <2>4
      <3> HIDE DEF d
      <3> QED BY <2>1, <2>2, <3>1, <3>2, <3>3, BienSirve
    <2> QED BY <2>3, <2>4
  <1> QED BY <1>1, <1>3, <1>4

LEMMA BienEnviaDatos ==
  ASSUME MemInv, NEW h \in Hilos, EnviaDatos(h)
  PROVE  Bien
  <1> DEFINE p == hilo[h].con
             d == [cliente[p] EXCEPT !.par = "entero"]
  <1>1. /\ hilo[h].pc = "datos"
        /\ \/ /\ hilo' = [hilo EXCEPT ![h].pc = "bucle", ![h].con = Nadie]
              /\ p = Cortada => cliente' = cliente
              /\ p # Cortada => cliente' = [cliente EXCEPT ![p] = d]
           \/ AcabaHilo(h, "roto")
    BY DEF EnviaDatos, Pon
  <1>2. /\ hilo[h] \in EstadoHilo /\ p \in Clientes \cup {Cortada}
        /\ Ocupa(hilo[h]) /\ "roto" \in {"muerto", "roto"}
        /\ hilo \in [Hilos -> EstadoHilo]
    BY <1>1, Servido DEF MemInv
  <1>3. CASE AcabaHilo(h, "roto")
    BY <1>2, <1>3, BienAcabaHilo
  <1>4. CASE /\ hilo' = [hilo EXCEPT ![h].pc = "bucle", ![h].con = Nadie]
             /\ p = Cortada => cliente' = cliente
             /\ p # Cortada => cliente' = [cliente EXCEPT ![p] = d]
    <2>1. hilo' = [hilo EXCEPT ![h] = [hilo[h] EXCEPT !.pc = "bucle", !.con = Nadie]]
      BY <1>2, <1>4 DEF EstadoHilo
    <2>2. CASE p = Cortada
      <3> DEFINE v == "bucle"
                 w == Nadie
      <3>1. /\ v \in Escuchan /\ v \notin {"lee", "envia", "datos"}
            /\ w \in Clientes \cup {Nadie, Cortada} /\ w \notin Clientes
            /\ hilo' = [hilo EXCEPT ![h] = [hilo[h] EXCEPT !.pc = v, !.con = w]]
        BY <2>1, NadieCortada DEF Escuchan
      <3>2. cliente' = cliente
        BY <1>4, <2>2
      <3> HIDE DEF v, w
      <3> QED BY <1>2, <3>1, <3>2, BienHiloSolo
    <2>3. CASE p # Cortada
      <3>1. p \in Clientes
        BY <1>2, <2>3
      <3>2. Parecido(cliente[p], d)
        <4>1. "entero" \in {"nada", "abierto", "entero", "cortado", "reset"}
          OBVIOUS
        <4>2. ASSUME NEW c \in EstadoProceso
              PROVE  Parecido(c, [c EXCEPT !.par = "entero"])
          BY <4>1, ParNuevo
        <4>3. cliente[p] \in EstadoProceso
          BY <3>1, ProcesoDe
        <4> QED BY <4>2, <4>3
      <3> HIDE DEF d
      <3> DEFINE v == "bucle"
                 w == Nadie
      <3>3. /\ v = "bucle" /\ w = Nadie /\ v \in {"envia", "datos", "bucle"}
            /\ hilo' = [hilo EXCEPT ![h] = [hilo[h] EXCEPT !.pc = v, !.con = w]]
        BY <2>1
      <3>4. /\ hilo[h].pc \in {"lee", "envia", "datos"}
            /\ cliente' = [cliente EXCEPT ![p] = d]
            /\ \/ v # "bucle" /\ w = p /\ d.par = cliente[p].par
               \/ v = "bucle" /\ w = Nadie
        BY <1>1, <1>4, <2>3
      <3> HIDE DEF v, w
      <3> QED BY <3>1, <3>2, <3>3, <3>4, BienSirve
    <2> QED BY <2>2, <2>3
  <1> QED BY <1>1, <1>3, <1>4

-------------------------------------------------------------------------------
(* The server's directories. *)

\* What an operation does to the addresses: it forgets one, leaves a file empty,
\* or, a CONNECT, writes the one of its request.
Anota(r) ==
  \A u \in Nombres :
    \/ active_users'[u] = active_users[u]
    \/ active_users'[u] \in {NoFile, Vacio}
    \/ /\ r.command_str = "CONNECT" /\ u = r.client_user_name
       /\ active_users'[u] = r.user_addr

Direccion == Direcciones \cup {Vacio, NoFile}

LEMMA ConectaActivos ==
  ASSUME active_users \in [Nombres -> Direccion], NEW u, NEW a \in Direcciones, NEW s,
         connect_user(u, a, s)
  PROVE  /\ active_users' \in [Nombres -> Direccion]
         /\ \A v \in Nombres :
              \/ active_users'[v] = active_users[v]
              \/ active_users'[v] \in {NoFile, Vacio}
              \/ v = u /\ active_users'[v] = a
         /\ s = 0 /\ u \in Nombres => active_users'[u] = a
  <1>1. \/ active_users' = active_users /\ s # 0
        \/ active_users' = [active_users EXCEPT ![u] = a]
        \/ active_users' = [active_users EXCEPT ![u] = Vacio] /\ s # 0
    BY DEF connect_user, disco
  <1>2. a \in Direccion /\ Vacio \in Direccion
    BY DEF Direccion
  <1>3. CASE active_users' = active_users /\ s # 0
    BY <1>3
  <1>4. CASE active_users' = [active_users EXCEPT ![u] = a]
    BY <1>2, <1>4
  <1>5. CASE active_users' = [active_users EXCEPT ![u] = Vacio] /\ s # 0
    BY <1>2, <1>5
  <1> QED BY <1>1, <1>3, <1>4, <1>5

LEMMA DesconectaActivos ==
  ASSUME active_users \in [Nombres -> Direccion], NEW u, NEW s, disconnect_user(u, s)
  PROVE  /\ active_users' \in [Nombres -> Direccion]
         /\ \A v \in Nombres : active_users'[v] = active_users[v] \/ active_users'[v] = NoFile
  <1>1. \/ active_users' = active_users
        \/ active_users' = [active_users EXCEPT ![u] = NoFile]
    BY DEF disconnect_user, disco
  <1>2. NoFile \in Direccion
    BY DEF Direccion
  <1> QED BY <1>1, <1>2

LEMMA ModificaActivos ==
  ASSUME active_users \in [Nombres -> Direccion], NEW r, NEW s, Modifica(r, s),
         r.command_str = "CONNECT" => r.user_addr \in Direcciones
  PROVE  /\ active_users' \in [Nombres -> Direccion]
         /\ Anota(r)
         /\ r.command_str = "CONNECT" /\ s = 0 /\ r.client_user_name \in Nombres
              => active_users'[r.client_user_name] = r.user_addr
         /\ r.command_str \notin {"CONNECT", "DISCONNECT"} => active_users' = active_users
  <1> DEFINE u == r.client_user_name
  <1>1. CASE r.command_str = "CONNECT" /\ connect_user(u, r.user_addr, s)
    <2>1. r.user_addr \in Direcciones
      BY <1>1
    <2> DEFINE a == r.user_addr
    <2>2. connect_user(u, a, s) /\ a \in Direcciones
      BY <1>1, <2>1
    <2> HIDE DEF u, a
    <2>3. /\ active_users' \in [Nombres -> Direccion]
          /\ \A v \in Nombres :
               \/ active_users'[v] = active_users[v]
               \/ active_users'[v] \in {NoFile, Vacio}
               \/ v = u /\ active_users'[v] = a
          /\ s = 0 /\ u \in Nombres => active_users'[u] = a
      BY <2>2, ConectaActivos
    <2> USE DEF u, a
    <2>4. Anota(r)
      BY <1>1, <2>3 DEF Anota
    <2> QED BY <1>1, <2>3, <2>4
  <1>2. CASE r.command_str = "DISCONNECT" /\ disconnect_user(u, s)
    <2>1. /\ active_users' \in [Nombres -> Direccion]
          /\ \A v \in Nombres : active_users'[v] = active_users[v] \/ active_users'[v] = NoFile
      BY <1>2, DesconectaActivos
    <2>2. Anota(r)
      BY <2>1 DEF Anota
    <2> QED BY <1>2, <2>1, <2>2
  <1>3. CASE r.command_str \notin {"CONNECT", "DISCONNECT"}
    <2>1. \/ register_user(u, s) \/ unregister_user(u, s)
          \/ publish(u, r.file_name, r.description, s) \/ delete(u, r.file_name, s)
      BY <1>3 DEF Modifica
    <2>2. register_user(u, s) => active_users' = active_users
      BY DEF register_user, disco
    <2>3. unregister_user(u, s) => active_users' = active_users
      BY DEF unregister_user, disco
    <2>4. publish(u, r.file_name, r.description, s) => active_users' = active_users
      BY DEF publish, disco
    <2>5. delete(u, r.file_name, s) => active_users' = active_users
      BY DEF delete, disco
    <2> QED BY <1>3, <2>1, <2>2, <2>3, <2>4, <2>5 DEF Anota
  <1> QED BY <1>1, <1>2, <1>3 DEF Modifica

\* What the listings answer.
LEMMA ListaResponde ==
  ASSUME active_users \in [Nombres -> Direccion], NEW q, NEW r \in Lista(q)
  PROVE  /\ q.command_str \in {"LIST_USERS", "LIST_CONTENT"}
         /\ r[1] \in 0 .. 4
         /\ q.command_str = "LIST_USERS" =>
              r[2] \subseteq {<<u, active_users[u]>> :
                                u \in {v \in Nombres : active_users[v] \in Direcciones}}
  <1> DEFINE buenos == {<<u, active_users[u]>> :
                          u \in {v \in Nombres : active_users[v] \in Direcciones}}
  <1>1. q.command_str \in {"LIST_USERS", "LIST_CONTENT"}
    BY DEF Lista
  <1>2. ASSUME NEW x \in list_users_get_info
        PROVE  x[1] = 0 /\ x[2] \subseteq buenos
    <2>1. PICK vistos \in SUBSET {u \in Nombres : active_users[u] # NoFile} :
            /\ \A u \in vistos : active_users[u] # Vacio
            /\ x = <<0, {<<u, active_users[u]>> : u \in vistos}>>
      BY DEF list_users_get_info
    <2>2. ASSUME NEW u \in vistos
          PROVE  u \in Nombres /\ active_users[u] \in Direcciones
      BY <2>1, <2>2 DEF Direccion
    <2> QED BY <2>1, <2>2
  <1>3. CASE q.command_str = "LIST_USERS"
    <2>1. r = <<3, {}>> \/ r \in list_users_get_info
      BY <1>3 DEF Lista
    <2>2. r[1] \in {0, 3} /\ r[2] \subseteq buenos
      BY <1>2, <2>1
    <2> QED BY <1>3, <2>2
  <1>4. CASE q.command_str = "LIST_CONTENT"
    <2>1. ASSUME NEW x \in list_content(q.client_user_name, q.user_name)
          PROVE  x[1] \in 0 .. 4
      BY DEF list_content
    <2>2. \/ r = <<3, {}>> \/ r = <<4, {}>>
          \/ r \in list_content(q.client_user_name, q.user_name)
      <3>1. PICK n \in list_content_get_num(q.user_name) :
              r \in CASE n = -1 -> {<<3, {}>>}
                      [] n = -2 -> {<<4, {}>>}
                      [] OTHER -> list_content(q.client_user_name, q.user_name)
        BY <1>4 DEF Lista
      <3> QED BY <3>1
    <2>3. r[1] \in 0 .. 4
      BY <2>1, <2>2
    <2> QED BY <1>4, <2>3
  <1> QED BY <1>1, <1>3, <1>4

\* The directories and the requests left behind after a step.
LEMMA DirPasa ==
  ASSUME MemInv, DirInv, Persiste(hilo, hilo'),
         active_users' = active_users,
         \A r \in abandonadas' : r.command_str = "CONNECT" =>
           \/ r \in abandonadas
           \/ r.user_addr \in Direcciones /\ FueEn(hilo, r.client_user_name, r.user_addr)
  PROVE  DirInv'
  <1>1. ASSUME NEW u \in Nombres, active_users[u] \in Direcciones
        PROVE  FueEn(hilo', u, active_users[u])
    BY <1>1, FueSiempre DEF DirInv
  <1>2. ASSUME NEW r \in abandonadas', r.command_str = "CONNECT"
        PROVE  r.user_addr \in Direcciones /\ FueEn(hilo', r.client_user_name, r.user_addr)
    <2>1. r.user_addr \in Direcciones /\ FueEn(hilo, r.client_user_name, r.user_addr)
      BY <1>2 DEF DirInv
    <2> QED BY <2>1, FueSiempre
  <1> QED BY <1>1, <1>2 DEF DirInv

\* A request of the server that writes the address of a thread of the user.
LEMMA DirModifica ==
  ASSUME DirInv, NEW r, NEW s, Modifica(r, s), hilo' = hilo,
         abandonadas' \subseteq abandonadas,
         r.command_str = "CONNECT" =>
           r.user_addr \in Direcciones /\ FueEn(hilo, r.client_user_name, r.user_addr)
  PROVE  DirInv'
  <1>1. active_users \in [Nombres -> Direccion]
    BY DEF DirInv, Direccion
  <1>2. active_users' \in [Nombres -> Direccion] /\ Anota(r)
    BY <1>1, ModificaActivos
  <1>3. ASSUME NEW u \in Nombres, active_users'[u] \in Direcciones
        PROVE  FueEn(hilo, u, active_users'[u])
    BY <1>2, <1>3, PlatformAssumption DEF Anota, DirInv
  <1> QED BY <1>2, <1>3 DEF DirInv, Direccion

\* The answer has come.
LEMMA DeRespuesta ==
  ASSUME NEW p, NEW H, NEW c, ProcOK(p, c, H), c.pc = "peticion",
         NEW s \in 0 .. 4, NEW l \in SUBSET (Nombres \X Direcciones),
         \A e \in l : FueEn(H, e[1], e[2])
  PROVE  ProcOK(p, [c EXCEPT !.pc = "respuesta", !.rc = s, !.lista = l], H)
  <1> DEFINE d == [c EXCEPT !.pc = "respuesta", !.rc = s, !.lista = l]
  <1>1. c \in EstadoProceso
    BY DEF ProcOK
  <1>2. /\ d.pc = "respuesta" /\ d.active_user = c.active_user /\ d.lista = l
        /\ d.database_listusers = c.database_listusers /\ d.orden = c.orden
        /\ d.par = c.par /\ d.pet = c.pet /\ d.hechas = c.hechas /\ d.rc = s
        /\ d.stop_event = c.stop_event /\ d.server_thread = c.server_thread
        /\ d.server_thread_port = c.server_thread_port /\ d.fichero = c.fichero
        /\ d.talla = c.talla
    BY <1>1 DEF EstadoProceso
  <1>3. d \in EstadoProceso
    <2>1. DOMAIN d = DOMAIN c /\ d = [x \in DOMAIN d |-> d[x]]
      OBVIOUS
    <2>2. /\ DOMAIN c = Campos /\ c.active_user \in Nombres \cup {Nadie}
          /\ c.database_listusers \in SUBSET (Nombres \X Direcciones)
          /\ c.stop_event \in BOOLEAN
          /\ c.server_thread \in Hilos \cup {Nadie}
          /\ c.server_thread_port \in Direcciones \cup {Nadie}
          /\ c.orden \in [op : Mandatos, user : Nombres] \cup {SinOrden}
          /\ c.pet \in Mandatos \cup {""}
      BY <1>1 DEF EstadoProceso, Campos
    <2>3. /\ c.par \in {"nada", "abierto", "entero", "cortado", "reset"}
          /\ c.fichero \in {"nada", "parcial", "entero"} /\ c.hechas \in Nat
          /\ c.talla \in BOOLEAN
      BY <1>1 DEF EstadoProceso
    <2>4. s \in -1 .. 4
      OBVIOUS
    <2> HIDE DEF d
    <2> QED BY <1>2, <2>1, <2>2, <2>3, <2>4, ProcesoForma
  <1> HIDE DEF d
  <1>4. Coherente(d) /\ Conexion(p, d, H)
    BY <1>2 DEF Coherente, Conexion, Enlazado, ProcOK
  <1>5. Listas(d, H)
    BY <1>2 DEF Listas, ProcOK
  <1>6. ProcOK(p, d, H)
    BY <1>2, <1>3, <1>4, <1>5 DEF ProcOK
  <1> QED BY <1>6 DEF d

\* A CONNECT under way carries the port of its thread.
LEMMA PideConectar ==
  ASSUME MemInv, NEW p \in Clientes, cliente[p].pc = "peticion"
  PROVE  /\ Peticion(p).command_str = cliente[p].pet
         /\ cliente[p].pet = "CONNECT" =>
              /\ Peticion(p).client_user_name = cliente[p].orden.user
              /\ Peticion(p).user_addr = cliente[p].server_thread_port
              /\ Peticion(p).user_addr \in Direcciones
              /\ FueEn(hilo, Peticion(p).client_user_name, Peticion(p).user_addr)
  <1>1. /\ Peticion(p).command_str = cliente[p].pet
        /\ Peticion(p).user_addr = cliente[p].server_thread_port
        /\ cliente[p].pet = "CONNECT" =>
             Peticion(p).client_user_name = cliente[p].orden.user
    BY DEF Peticion
  <1>2. cliente[p].pet = "CONNECT" => Enlazado(p, cliente[p], cliente[p].orden.user, hilo)
    BY ProcesoDe DEF ProcOK, Conexion
  <1> QED BY <1>1, <1>2 DEF Enlazado, FueEn

\* What c believes is so, with the addresses A.
FeCierta(c, A) == \A u \in Nombres : CreeEn(c, u) => A[u] = c.server_thread_port

FeSigue ==
  \A p \in Clientes :
    FeCierta(cliente[p], active_users) /\ cliente'[p] # cliente[p]
      => FeCierta(cliente'[p], active_users')

LEMMA BienFe ==
  ASSUME Bien, active_users' = active_users
  PROVE  FeSigue
  BY DEF Bien, FeSigue, FeCierta, MenosFe

\* The record of a process whose answer has come, apart from rc and lista.
LEMMA TrasRespuesta ==
  ASSUME NEW c \in EstadoProceso, NEW s, NEW l
  PROVE  LET d == [c EXCEPT !.pc = "respuesta", !.rc = s, !.lista = l]
         IN  /\ d.pc = "respuesta" /\ d.rc = s /\ d.pet = c.pet
             /\ d.active_user = c.active_user /\ d.orden = c.orden
             /\ d.server_thread_port = c.server_thread_port
  BY DEF EstadoProceso

LEMMA BienModifica ==
  ASSUME MemInv, DirInv, NEW p \in Clientes, cliente[p].pc = "peticion",
         NEW s \in 0 .. 4, Modifica(Peticion(p), s), UNCHANGED <<hilo, abandonadas>>,
         cliente' = [cliente EXCEPT ![p] =
           [cliente[p] EXCEPT !.pc = "respuesta", !.rc = s, !.lista = {}]]
  PROVE  MemInv' /\ DirInv' /\ FeSigue
  <1> DEFINE c == cliente[p]
             d == [c EXCEPT !.pc = "respuesta", !.rc = s, !.lista = {}]
  <1>1. c \in EstadoProceso /\ ProcOK(p, c, hilo)
    BY ProcesoDe
  <1>2. ProcOK(p, d, hilo)
    <2>1. {} \in SUBSET (Nombres \X Direcciones) /\ \A e \in {} : FueEn(hilo, e[1], e[2])
      OBVIOUS
    <2> QED BY <1>1, <2>1, DeRespuesta
  <1>3. /\ d.pc = "respuesta" /\ d.rc = s /\ d.pet = c.pet
        /\ d.active_user = c.active_user /\ d.orden = c.orden
        /\ d.server_thread_port = c.server_thread_port
    BY <1>1, TrasRespuesta
  <1> HIDE DEF d
  <1>4. cliente' = [cliente EXCEPT ![p] = d] /\ hilo' = hilo
    BY DEF d
  <1>5. \A h \in Hilos : ~EnHilo(hilo[h], p)
    BY ServidoAbierto
  <1>6. /\ MemInv' /\ cliente'[p] = d
        /\ \A q \in Clientes \ {p} : cliente'[q] = cliente[q]
    BY <1>2, <1>4, <1>5, PasoProceso
  <1>7. /\ Peticion(p).command_str = c.pet
        /\ c.pet = "CONNECT" =>
             /\ Peticion(p).client_user_name = c.orden.user
             /\ Peticion(p).user_addr = c.server_thread_port
             /\ Peticion(p).user_addr \in Direcciones
             /\ FueEn(hilo, Peticion(p).client_user_name, Peticion(p).user_addr)
    BY PideConectar
  <1>8. DirInv'
    BY <1>4, <1>7, DirModifica
  <1>9. active_users \in [Nombres -> Direccion]
    BY DEF DirInv, Direccion
  <1>10. /\ c.pet = "CONNECT" /\ s = 0 /\ c.orden.user \in Nombres
              => active_users'[c.orden.user] = c.server_thread_port
         /\ c.pet \notin {"CONNECT", "DISCONNECT"} => active_users' = active_users
    BY <1>7, <1>9, ModificaActivos
  <1>11. c.pet = "CONNECT" => c.active_user = Nadie
    BY <1>1 DEF ProcOK, Coherente
  <1>12. ASSUME FeCierta(c, active_users), NEW u \in Nombres, CreeEn(d, u)
         PROVE  active_users'[u] = d.server_thread_port
    <2>1. \/ c.active_user = u /\ c.pet \notin {"CONNECT", "DISCONNECT"}
          \/ c.pet = "CONNECT" /\ s = 0 /\ c.orden.user = u
      BY <1>3, <1>11, <1>12, NadieCortada DEF CreeEn
    <2>2. CASE c.active_user = u /\ c.pet \notin {"CONNECT", "DISCONNECT"}
      <3>1. CreeEn(c, u)
        BY <2>2 DEF CreeEn
      <3> QED BY <1>3, <1>10, <1>12, <2>2, <3>1 DEF FeCierta
    <2>3. CASE c.pet = "CONNECT" /\ s = 0 /\ c.orden.user = u
      BY <1>3, <1>10, <2>3
    <2> QED BY <2>1, <2>2, <2>3
  <1>13. FeSigue
    BY <1>6, <1>12 DEF FeSigue, FeCierta
  <1> QED BY <1>6, <1>8, <1>13

LEMMA BienLista ==
  ASSUME MemInv, DirInv, NEW p \in Clientes, cliente[p].pc = "peticion",
         NEW r \in Lista(Peticion(p)), UNCHANGED <<disco, hilo, abandonadas>>,
         NEW l, l = IF cliente[p].pet = "LIST_USERS" THEN r[2] ELSE {},
         cliente' = [cliente EXCEPT ![p] =
           [cliente[p] EXCEPT !.pc = "respuesta", !.rc = r[1], !.lista = l]]
  PROVE  MemInv' /\ DirInv' /\ FeSigue
  <1> DEFINE c == cliente[p]
             s == r[1]
             d == [c EXCEPT !.pc = "respuesta", !.rc = s, !.lista = l]
  <1>1. c \in EstadoProceso /\ ProcOK(p, c, hilo)
    BY ProcesoDe
  <1>2. Peticion(p).command_str = c.pet
    BY PideConectar
  <1>3. active_users \in [Nombres -> Direccion]
    BY DEF DirInv, Direccion
  <1>4. /\ c.pet \in {"LIST_USERS", "LIST_CONTENT"} /\ s \in 0 .. 4
        /\ c.pet = "LIST_USERS" =>
             l \subseteq {<<u, active_users[u]>> :
                            u \in {v \in Nombres : active_users[v] \in Direcciones}}
    BY <1>2, <1>3, ListaResponde
  <1>5. l \in SUBSET (Nombres \X Direcciones) /\ \A e \in l : FueEn(hilo, e[1], e[2])
    <2>1. CASE c.pet = "LIST_USERS"
      BY <1>4, <2>1 DEF DirInv
    <2>2. CASE c.pet # "LIST_USERS"
      BY <2>2
    <2> QED BY <2>1, <2>2
  <1> HIDE DEF s
  <1>6. ProcOK(p, d, hilo)
    BY <1>1, <1>4, <1>5, DeRespuesta
  <1>7. /\ d.pc = "respuesta" /\ d.rc = s /\ d.pet = c.pet
        /\ d.active_user = c.active_user /\ d.orden = c.orden
        /\ d.server_thread_port = c.server_thread_port
    BY <1>1, TrasRespuesta
  <1>8. cliente' = [cliente EXCEPT ![p] = d] /\ hilo' = hilo
    BY DEF s
  <1> HIDE DEF d
  <1>9. \A h \in Hilos : ~EnHilo(hilo[h], p)
    BY ServidoAbierto
  <1>10. /\ MemInv' /\ cliente'[p] = d
         /\ \A q \in Clientes \ {p} : cliente'[q] = cliente[q]
    BY <1>6, <1>8, <1>9, PasoProceso
  <1>11. active_users' = active_users /\ abandonadas' = abandonadas
    BY DEF disco
  <1>12. DirInv'
    BY <1>8, <1>11 DEF DirInv
  <1>13. MenosFe(c, d)
    BY <1>4, <1>7 DEF MenosFe, CreeEn
  <1>14. FeSigue
    BY <1>10, <1>11, <1>13 DEF FeSigue, FeCierta, MenosFe
  <1> QED BY <1>10, <1>12, <1>14

LEMMA BienServidorAtiende ==
  ASSUME MemInv, DirInv, NEW p \in Clientes, ServidorAtiende(p)
  PROVE  MemInv' /\ DirInv' /\ FeSigue
  <1>1. /\ cliente[p].pc = "peticion" /\ UNCHANGED <<hilo, abandonadas>>
        /\ \/ \E s \in 0 .. 4 :
                /\ Modifica(Peticion(p), s)
                /\ cliente' = [cliente EXCEPT ![p] =
                     [cliente[p] EXCEPT !.pc = "respuesta", !.rc = s, !.lista = {}]]
           \/ \E r \in Lista(Peticion(p)) :
                /\ cliente' = [cliente EXCEPT ![p] =
                     [cliente[p] EXCEPT !.pc = "respuesta", !.rc = r[1],
                        !.lista = IF cliente[p].pet = "LIST_USERS" THEN r[2] ELSE {}]]
                /\ UNCHANGED disco
    BY DEF ServidorAtiende, Pon
  <1>2. ASSUME NEW s \in 0 .. 4, Modifica(Peticion(p), s),
               cliente' = [cliente EXCEPT ![p] =
                     [cliente[p] EXCEPT !.pc = "respuesta", !.rc = s, !.lista = {}]]
        PROVE  MemInv' /\ DirInv' /\ FeSigue
    BY <1>1, <1>2, BienModifica
  <1>3. ASSUME NEW r \in Lista(Peticion(p)), UNCHANGED disco,
               cliente' = [cliente EXCEPT ![p] =
                     [cliente[p] EXCEPT !.pc = "respuesta", !.rc = r[1],
                        !.lista = IF cliente[p].pet = "LIST_USERS" THEN r[2] ELSE {}]]
        PROVE  MemInv' /\ DirInv' /\ FeSigue
    <2> DEFINE l == IF cliente[p].pet = "LIST_USERS" THEN r[2] ELSE {}
    <2>1. /\ l = IF cliente[p].pet = "LIST_USERS" THEN r[2] ELSE {}
          /\ cliente' = [cliente EXCEPT ![p] =
               [cliente[p] EXCEPT !.pc = "respuesta", !.rc = r[1], !.lista = l]]
      BY <1>3
    <2>2. UNCHANGED <<disco, hilo, abandonadas>>
      BY <1>1, <1>3
    <2> HIDE DEF l
    <2> QED BY <1>1, <2>1, <2>2, BienLista
  <1> QED BY <1>1, <1>2, <1>3

-------------------------------------------------------------------------------
(* Every step. *)

LEMMA BienDisco ==
  ASSUME MemInv, DirInv, Bien, UNCHANGED disco, UNCHANGED abandonadas
  PROVE  MemInv' /\ DirInv' /\ FeSigue
  <1>1. active_users' = active_users
    BY DEF disco
  <1>2. DirInv'
    BY <1>1, DirPasa DEF Bien
  <1> QED BY <1>1, <1>2, BienFe DEF Bien

LEMMA PasoCliente ==
  ASSUME MemInv, DirInv, NEW p \in Clientes, ClientePaso(p)
  PROVE  MemInv' /\ DirInv' /\ FeSigue
  <1>1. CASE ServidorAtiende(p)
    BY <1>1, BienServidorAtiende
  <1>2. ASSUME NEW o \in Ordenes[p], Teclea(p, o) PROVE MemInv' /\ DirInv' /\ FeSigue
    <2>1. Bien
      BY <1>2, BienTeclea
    <2> QED BY <1>2, <2>1, BienDisco DEF Teclea
  <1>3. ASSUME NEW o \in Ordenes[p], TecleaConnect(p, o) PROVE MemInv' /\ DirInv' /\ FeSigue
    <2>1. Bien
      BY <1>3, BienLanza
    <2> QED BY <1>3, <2>1, BienDisco DEF TecleaConnect, LanzaHilo
  <1>4. CASE Sale(p)
    <2>1. Bien
      BY <1>4, BienFinProceso DEF Sale
    <2> QED BY <1>4, <2>1, BienDisco DEF Sale
  <1>5. CASE EsperaPuerto(p) \/ Arranca(p) \/ Conecta(p)
    <2>1. Bien
      BY <1>5, BienPunto
    <2> QED BY <1>5, <2>1, BienDisco DEF EsperaPuerto, Arranca, Conecta
  <1>6. CASE LeeRespuesta(p)
    <2>1. Bien
      BY <1>6, BienLeeRespuesta
    <2> QED BY <1>6, <2>1, BienDisco DEF LeeRespuesta
  <1>7. CASE EnviaFecha(p)
    <2>1. Bien
      BY <1>7, BienEnviaFecha
    <2> QED BY <1>7, <2>1, BienDisco DEF EnviaFecha
  <1>8. CASE FechaRota(p)
    <2>1. Bien
      BY <1>8, BienSinFecha
    <2> QED BY <1>8, <2>1, BienDisco DEF FechaRota, SinFecha
  <1>9. CASE ConectaPar(p)
    <2>1. Bien
      BY <1>9, BienConectaPar
    <2> QED BY <1>9, <2>1, BienDisco DEF ConectaPar
  <1>10. CASE LeeEstado(p)
    <2>1. Bien
      BY <1>10, BienLeeEstado
    <2> QED BY <1>10, <2>1, BienDisco DEF LeeEstado
  <1>13. CASE LeeTalla(p)
    <2>1. Bien
      BY <1>13, BienLeeTalla
    <2> QED BY <1>13, <2>1, BienDisco DEF LeeTalla
  <1>11. CASE PierdePar(p)
    <2>1. Bien
      BY <1>11, BienPierdePar
    <2> QED BY <1>11, <2>1, BienDisco DEF PierdePar
  <1>12. CASE Recibe(p)
    <2>1. Bien
      BY <1>12, BienRecibe
    <2> QED BY <1>12, <2>1, BienDisco DEF Recibe
  <1> QED BY <1>1, <1>2, <1>3, <1>4, <1>5, <1>6, <1>7, <1>8, <1>9, <1>10, <1>11, <1>12,
             <1>13 DEF ClientePaso, Avanza

LEMMA PasoDeHilo ==
  ASSUME MemInv, DirInv, NEW h \in Hilos, HiloPaso(h)
  PROVE  MemInv' /\ DirInv' /\ FeSigue
  <1>1. CASE Ata(h)
    <2>1. Bien
      BY <1>1, BienAta
    <2> QED BY <1>1, <2>1, BienDisco DEF Ata, Local
  <1>2. CASE Escucha(h)
    <2>1. Bien
      BY <1>2, BienEscucha
    <2> QED BY <1>2, <2>1, BienDisco DEF Escucha, Local
  <1>3. CASE MiraEvento(h)
    <2>1. Bien
      BY <1>3, BienMiraEvento
    <2> QED BY <1>3, <2>1, BienDisco DEF MiraEvento, Local
  <1>4. CASE Acepta(h)
    <2>1. Bien
      BY <1>4, BienAcepta
    <2> QED BY <1>4, <2>1, BienDisco DEF Acepta, Local
  <1>5. CASE LeePeticion(h)
    <2>1. Bien
      BY <1>5, BienLeePeticion
    <2> QED BY <1>5, <2>1, BienDisco DEF LeePeticion, Local
  <1>6. CASE EnviaTalla(h)
    <2>1. Bien
      BY <1>6, BienEnviaTalla
    <2> QED BY <1>6, <2>1, BienDisco DEF EnviaTalla, Local
  <1>7. CASE EnviaDatos(h)
    <2>1. Bien
      BY <1>7, BienEnviaDatos
    <2> QED BY <1>7, <2>1, BienDisco DEF EnviaDatos, Local
  <1> QED BY <1>1, <1>2, <1>3, <1>4, <1>5, <1>6, <1>7 DEF HiloPaso

\* A request that is left behind carries the port of its thread.
LEMMA BienAbandona ==
  ASSUME MemInv, DirInv, Bien, NEW p \in Clientes, Abandona(p), UNCHANGED disco
  PROVE  MemInv' /\ DirInv' /\ FeSigue
  <1>1. active_users' = active_users
    BY DEF disco
  <1>2. ASSUME NEW r \in abandonadas', r \notin abandonadas, r.command_str = "CONNECT"
        PROVE  r.user_addr \in Direcciones /\ FueEn(hilo, r.client_user_name, r.user_addr)
    <2>1. cliente[p].pc = "peticion" /\ r = Peticion(p)
      BY <1>2 DEF Abandona
    <2> QED BY <1>2, <2>1, PideConectar
  <1>3. DirInv'
    BY <1>1, <1>2, DirPasa DEF Bien
  <1> QED BY <1>1, <1>3, BienFe DEF Bien

LEMMA PasoAveria ==
  ASSUME MemInv, DirInv, NEW p \in Clientes, Averia(p)
  PROVE  MemInv' /\ DirInv' /\ FeSigue
  <1>1. CASE ServidorCorta(p)
    <2>1. Bien
      BY <1>1, BienServidorCorta
    <2> QED BY <1>1, <2>1, BienDisco DEF ServidorCorta
  <1>2. CASE ConectaFalla(p)
    <2>1. Bien
      BY <1>2, BienConectaFalla
    <2> QED BY <1>2, <2>1, BienDisco DEF ConectaFalla
  <1>3. CASE FechaFalla(p)
    <2>1. Bien
      BY <1>3, BienSinFecha
    <2> QED BY <1>3, <2>1, BienDisco DEF FechaFalla, SinFecha
  <1>4. CASE Interrumpe(p)
    <2>1. Bien
      BY <1>4, BienInterrumpe
    <2> QED BY <1>4, <2>1, BienAbandona DEF Interrumpe
  <1>5. CASE Muere(p)
    <2>1. Bien
      BY <1>5, BienFinProceso DEF Muere
    <2> QED BY <1>5, <2>1, BienAbandona DEF Muere
  <1> QED BY <1>1, <1>2, <1>3, <1>4, <1>5 DEF Averia

LEMMA MemIgual ==
  ASSUME MemInv, cliente' = cliente, hilo' = hilo
  PROVE  MemInv' /\ FeSigue
  BY DEF MemInv, ParInv, FeSigue

LEMMA PasoAbandonada ==
  ASSUME MemInv, DirInv, NEW r \in abandonadas, AtiendeAbandonada(r)
  PROVE  MemInv' /\ DirInv' /\ FeSigue
  <1>1. PICK s \in 0 .. 4 : Modifica(r, s)
    BY DEF AtiendeAbandonada
  <1>2. /\ cliente' = cliente /\ hilo' = hilo /\ abandonadas' \subseteq abandonadas
    BY DEF AtiendeAbandonada
  <1>3. r.command_str = "CONNECT" =>
          r.user_addr \in Direcciones /\ FueEn(hilo, r.client_user_name, r.user_addr)
    BY DEF DirInv
  <1>4. DirInv'
    BY <1>1, <1>2, <1>3, DirModifica
  <1> QED BY <1>2, <1>4, MemIgual

LEMMA CliPaso ==
  ASSUME CliInv, [Next]_vars
  PROVE  CliInv' /\ FeSigue
  <1> USE DEF CliInv
  <1>1. CASE UNCHANGED vars
    <2>1. /\ cliente' = cliente /\ hilo' = hilo /\ abandonadas' = abandonadas
          /\ averias' = averias /\ active_users' = active_users
      BY <1>1 DEF vars, disco
    <2>2. DirInv'
      BY <2>1 DEF DirInv
    <2> QED BY <2>1, <2>2, MemIgual
  <1>2. CASE Next
    <2>1. averias' \in 0 .. MAX_AVERIAS
      <3>1. MAX_AVERIAS \in Nat
        BY ClienteAssumption
      <3>2. averias' = averias \/ (averias < MAX_AVERIAS /\ averias' = averias + 1)
        BY <1>2 DEF Next
      <3> QED BY <3>1, <3>2
    <2>2. \/ \E p \in Clientes : ClientePaso(p)
          \/ \E h \in Hilos : HiloPaso(h)
          \/ \E r \in abandonadas : AtiendeAbandonada(r)
          \/ \E p \in Clientes : Averia(p)
      BY <1>2 DEF Next
    <2>3. MemInv' /\ DirInv' /\ FeSigue
      BY <2>2, PasoCliente, PasoDeHilo, PasoAbandonada, PasoAveria
    <2> QED BY <2>1, <2>3
  <1> QED BY <1>1, <1>2

LEMMA CliInicio == Init => CliInv
  <1> SUFFICES ASSUME Init PROVE CliInv
    OBVIOUS
  <1>1. /\ \A u \in Nombres : active_users[u] = NoFile
        /\ active_users \in [Nombres -> Direccion]
        /\ cliente = [p \in Clientes |-> Proceso]
        /\ hilo = [h \in Hilos |-> HiloLibre]
        /\ abandonadas = {} /\ averias = 0
    BY DEF Init, InitPlatform, Direccion
  <1>2. DirInv
    BY <1>1, PlatformAssumption DEF DirInv, Direccion
  <1>3. /\ HiloLibre \in EstadoHilo /\ HiloLibre.pc = "no" /\ HiloLibre.de = Nadie
        /\ HiloLibre.para = Nadie /\ HiloLibre.puerto = Nadie
        /\ HiloLibre.con = Nadie /\ HiloLibre.cola = <<>>
    <2>1. <<>> \in Seq(Clientes \cup {Cortada})
      OBVIOUS
    <2> QED BY <2>1 DEF HiloLibre, EstadoHilo
  <1>4. ASSUME NEW p \in Clientes PROVE ProcOK(p, Proceso, hilo)
    <2>1. /\ Proceso.pc = "shell" /\ Proceso.active_user = Nadie
          /\ Proceso.database_listusers = {} /\ Proceso.lista = {}
          /\ Proceso.orden = SinOrden /\ Proceso.par = "nada" /\ Proceso.hechas = 0
      BY DEF Proceso
    <2>2. Proceso.orden.op = ""
      <3>1. SinOrden.op = ""
        BY DEF SinOrden
      <3> QED BY <2>1, <3>1
    <2>3. Proceso.hechas <= MAX_ORDENES[p]
      <3>1. MAX_ORDENES[p] \in Nat
        BY ClienteAssumption
      <3> QED BY <2>1, <3>1
    <2>4. Coherente(Proceso) /\ Conexion(p, Proceso, hilo) /\ Listas(Proceso, hilo)
      BY <2>1, <2>2 DEF Coherente, Conexion, Listas
    <2> QED BY <2>3, <2>4, ProcesoTipo DEF ProcOK
  <1>5. ASSUME NEW h \in Hilos PROVE HiloOK(h, hilo[h], cliente)
    BY <1>1, <1>3 DEF HiloOK, Vivos, Escuchan
  <1>11. PuertosOK(hilo)
    BY <1>1, <1>3 DEF PuertosOK, Ocupa, Escuchan
  <1>6. ASSUME NEW h \in Hilos, NEW p \in Clientes
        PROVE  ~EnHilo(hilo[h], p) /\ Unico(hilo[h], p)
    BY <1>1, <1>3, NadieCortada DEF EnHilo, Unico, Contains
  <1>7. ParInv
    BY <1>6 DEF ParInv
  <1>8. cliente \in [Clientes -> EstadoProceso] /\ hilo \in [Hilos -> EstadoHilo]
    BY <1>1, <1>3, ProcesoTipo
  <1>9. MemInv
    BY <1>1, <1>4, <1>5, <1>7, <1>8, <1>11 DEF MemInv
  <1>10. averias \in 0 .. MAX_AVERIAS
    BY <1>1, ClienteAssumption
  <1> QED BY <1>2, <1>9, <1>10 DEF CliInv

LEMMA CliSiempre == Spec => []CliInv
  <1>1. CliInv /\ [Next]_vars => CliInv'
    BY CliPaso
  <1> QED BY <1>1, CliInicio, PTL DEF Spec

-------------------------------------------------------------------------------
(* The theorems. *)

\* Every variable of the clients and of their threads keeps its type, and the
\* bounds on commands and failures are kept.
THEOREM ClienteTipos == Spec => []TypeOK
  <1>1. CliInv => TypeOK
    BY DEF CliInv, MemInv, ProcOK, DirInv, TypeOK
  <1> QED BY <1>1, CliSiempre, PTL

\* client.py, connect, disconnect and socket_server: while a client has an active
\* user, its own thread for that user has not been told to stop, and is bound to the
\* announced port unless a GET_FILE cut by its client has killed it.
THEOREM ElActivoSirve == Spec => []ActivoSirve
  <1>1. ASSUME CliInv, NEW p \in Clientes, cliente[p].active_user # Nadie
        PROVE  Enlazado(p, cliente[p], cliente[p].active_user, hilo)
    BY <1>1 DEF CliInv, MemInv, ProcOK, Conexion
  <1>2. CliInv => ActivoSirve
    BY <1>1, NadieCortada DEF ActivoSirve, Enlazado, Vivos
  <1> QED BY <1>2, CliSiempre, PTL

\* However ports are reused, an address that the server keeps or that a client has
\* in its list was announced by the user it is listed under; and a GET_FILE is at a
\* thread of the user asked for, or that user's thread there has ended.
THEOREM LaDireccionEsPropia == Spec => []DireccionPropia
  <1>1. ASSUME CliInv, NEW u \in Nombres, active_users[u] \in Direcciones
        PROVE  Fue(u, active_users[u])
    BY <1>1 DEF CliInv, DirInv, Fue, FueEn
  <1>2. ASSUME CliInv, NEW p \in Clientes, NEW e \in cliente[p].database_listusers
        PROVE  Fue(e[1], e[2])
    BY <1>2 DEF CliInv, MemInv, ProcOK, Listas, Fue, FueEn
  <1>3. ASSUME CliInv, NEW h \in Hilos, NEW p \in Clientes, Sirve(h, p)
        PROVE  Destino(cliente[p], h, hilo)
    BY <1>3 DEF CliInv, MemInv, ParInv, EnHilo, Sirve, Abierta
  <1>4. CliInv => DireccionPropia
    BY <1>1, <1>2, <1>3 DEF DireccionPropia, Destino
  <1> QED BY <1>4, CliSiempre, PTL

\* No step of a client, its failures included, makes it believe that it is
\* connected when the server does not have its user at its port.
THEOREM LaCreenciaEsCierta == Spec => CreenciaCierta
  <1>1. ASSUME NEW p \in Clientes PROVE Acierta(p) <=> FeCierta(cliente[p], active_users)
    BY DEF Acierta, Cree, FeCierta, CreeEn
  <1>2. ASSUME NEW p \in Clientes PROVE Acierta(p)' <=> FeCierta(cliente'[p], active_users')
    BY DEF Acierta, Cree, FeCierta, CreeEn
  <1>3. CliInv /\ [Next]_vars =>
          [\A p \in Clientes :
             Acierta(p) /\ cliente'[p] # cliente[p] => Acierta(p)']_vars
    BY <1>1, <1>2, CliPaso DEF FeSigue
  <1> QED BY <1>3, CliSiempre, PTL DEF Spec, CreenciaCierta
===============================================================================
