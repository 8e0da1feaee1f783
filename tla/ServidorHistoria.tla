--------------------------- MODULE ServidorHistoria ---------------------------
(***************************************************************************)
(* Where each connection's request is, from accept() to the log, for any   *)
(* values of the constants: each one is executed at most once, with its    *)
(* own fields, and its client and the log are told what happened.          *)
(***************************************************************************)
EXTENDS ServidorProofs

EnCola == 1 .. Len(cola)
EnHistoria == 1 .. Len(historia)
Ultima == historia[Len(historia)]
Ocupado(w) == hilo[w].pc # "libre"

\* main has read the whole request of c and has queued it.
Tratada(c) ==
  /\ cliente[c].aceptada
  /\ leyendo # c
  /\ cliente[c].fase \notin {"nueva", "pide"}

\* A connection is with main, in the queue, in the hands of one worker or only in
\* the history, once; the worker that has executed it has its last entry.
LugarInv ==
  /\ leyendo # Nadie => cliente[leyendo].aceptada
  /\ \A i, j \in EnCola : cola[i].con = cola[j].con => i = j
  /\ \A v, w \in Workers :
       Ocupado(v) /\ Ocupado(w) /\ hilo[v].con = hilo[w].con => v = w
  /\ \A i, j \in EnHistoria : historia[i].con = historia[j].con => i = j
  /\ \A i \in EnCola :
       /\ Tratada(cola[i].con)
       /\ \A w \in Workers : Ocupado(w) => hilo[w].con # cola[i].con
       /\ \A j \in EnHistoria : historia[j].con # cola[i].con
  /\ \A w \in Workers : Ocupado(w) =>
       /\ Tratada(hilo[w].con)
       /\ ~Ejecutado(w) => \A j \in EnHistoria : historia[j].con # hilo[w].con
       /\ Ejecutado(w) => /\ Len(historia) > 0
                          /\ Ultima.con = hilo[w].con
                          /\ Ultima.status = hilo[w].status
                          /\ Ultima.lista = hilo[w].lista
  /\ \A j \in EnHistoria : Tratada(historia[j].con)

\* What the client has done when its request is in each place.
FaseInv ==
  /\ \A i \in EnCola : cliente[cola[i].con].fase \in {"enviada", "cortada"}
  /\ \A w \in Workers :
       hilo[w].pc \in {"espera", "trata", "envia", "lista", "cuelga"} =>
         cliente[hilo[w].con].fase \in {"enviada", "cortada"}
  /\ \A w \in Workers : Ejecutado(w) /\ ~HayLista(w) => hilo[w].lista = {}
  /\ \A c \in Conexiones :
       cliente[c].fase \in {"nueva", "pide", "enviada"} => cliente[c].lista = {}

\* The fields of request p are those that client x sent, if it sent them all.
Propio(p, x) ==
  LET campos == EnElCable(x.sol.command_str)
  IN  x.k = Len(campos) =>
        \A j \in 1 .. Len(campos) : p[campos[j]] = x.sol[campos[j]]

CamposInv ==
  /\ \A i \in EnCola : Propio(cola[i].pet, cliente[cola[i].con])
  /\ \A w \in Workers : Ocupado(w) => Propio(hilo[w].pet, cliente[hilo[w].con])
  /\ \A i \in EnHistoria : Propio(historia[i].pet, cliente[historia[i].con])

\* The lines of log l that came in time follow the order of history h.
EnOrden(l, h) ==
  \A i, j \in 1 .. Len(l) : \A a, b \in 1 .. Len(h) :
    /\ i < j /\ l[i].aTiempo /\ l[j].aTiempo
    /\ h[a].con = l[i].con /\ h[b].con = l[j].con
    => a < b

\* Every logged or loggable connection was executed, once; the log in time
\* follows the history.
LogInv ==
  /\ \A c \in rpc : \E j \in EnHistoria : historia[j].con = c
  /\ \A i \in 1 .. Len(log) :
       /\ log[i].con \notin rpc
       /\ \E j \in EnHistoria : historia[j].con = log[i].con
       /\ \A j \in 1 .. Len(log) : log[i].con = log[j].con => i = j
  /\ \A w \in Workers : Ejecutado(w) /\ hilo[w].pc # "cierra" =>
       /\ hilo[w].con \notin rpc
       /\ \A i \in 1 .. Len(log) : log[i].con # hilo[w].con
  /\ EnOrden(log, historia)

\* A client with a status has the result of its own execution.
FielInv ==
  \A c \in Conexiones : cliente[c].status # -1 =>
    \E i \in EnHistoria :
      /\ historia[i].con = c
      /\ historia[i].status = cliente[c].status
      /\ cliente[c].fase \in {"respondida", "fechada"} =>
           historia[i].lista = cliente[c].lista

HistInv ==
  /\ MemoriaOK /\ DiscoInv /\ MutexInv
  /\ LugarInv /\ FaseInv /\ CamposInv /\ LogInv /\ FielInv

-------------------------------------------------------------------------------
(* What each step does to the places where a request can be. *)

LEMMA Sitios ==
  ASSUME MemoriaOK
  PROVE  /\ Len(cola) \in Nat /\ Len(historia) \in Nat /\ Len(log) \in Nat
         /\ \A i \in EnCola : cola[i].con \in Conexiones
         /\ \A w \in Workers : Ocupado(w) => hilo[w].con \in Conexiones
         /\ \A j \in EnHistoria : historia[j].con \in Conexiones
         /\ \A i \in 1 .. Len(log) : log[i].con \in Conexiones
  <1>0. ASSUME NEW S, NEW q \in Seq(S)
        PROVE  Len(q) \in Nat /\ \A i \in 1 .. Len(q) : q[i] \in S
    OBVIOUS
  <1>1. /\ Len(cola) \in Nat
        /\ \A i \in EnCola : cola[i] \in [con : Conexiones, pet : Peticion]
    BY <1>0, Zenon DEF MemoriaOK, EnCola
  <1>2. Len(historia) \in Nat /\ \A j \in EnHistoria : historia[j] \in Ejecucion
    BY <1>0, Zenon DEF MemoriaOK, EnHistoria
  <1>3. /\ Len(log) \in Nat
        /\ \A i \in 1 .. Len(log) : log[i] \in [con : Conexiones, aTiempo : BOOLEAN]
    BY <1>0, Zenon DEF MemoriaOK
  <1> QED BY <1>1, <1>2, <1>3 DEF MemoriaOK, Ocupado, Ejecucion

LEMMA PropioIgual ==
  ASSUME NEW p, NEW x, NEW y, x.sol = y.sol, x.k = y.k, Propio(p, x)
  PROVE  Propio(p, y)
  BY DEF Propio

\* Steps that move no request: those of a client, a connection that main takes
\* or gives up, the start, and a stutter.
Aparte ==
  /\ UNCHANGED <<hilo, cola, historia, log, rpc>>
  /\ leyendo' # Nadie => cliente'[leyendo'].aceptada
  /\ \A c \in Conexiones :
       /\ cliente'[c].status = cliente[c].status
       /\ cliente'[c].lista = cliente[c].lista
       /\ Tratada(c) => Tratada(c)'
       /\ \/ cliente'[c] = cliente[c]
          \/ /\ ~Tratada(c)
             /\ \/ /\ cliente[c].fase \in {"nueva", "pide"}
                   /\ cliente'[c].fase \in {"pide", "enviada", "cortada"}
                \/ cliente'[c].fase \in {cliente[c].fase, "fin"}
          \/ /\ cliente'[c].sol = cliente[c].sol /\ cliente'[c].k = cliente[c].k
             /\ \/ /\ cliente[c].fase \in {"enviada", "respondida"}
                   /\ cliente'[c].fase = "cortada"
                \/ cliente[c].fase = "respondida" /\ cliente'[c].fase = "fechada"

LEMMA PasosAparte ==
  ASSUME MemoriaOK, LugarInv,
         \/ \E c \in Conexiones : ClientePaso(c) \/ Acepta(c) \/ ErrorLectura(c)
         \/ Arranca \/ UNCHANGED vars
  PROVE  Aparte
  <1> USE ServidorAssumption
  <1>0. \A c \in Conexiones : cliente[c] \in EstadoCliente
    BY DEF MemoriaOK
  \* The client of c moves on.
  <1>1. ASSUME NEW c \in Conexiones, NEW e, cliente' = [cliente EXCEPT ![c] = e],
               UNCHANGED Servicio,
               e.aceptada = cliente[c].aceptada, e.status = cliente[c].status,
               e.lista = cliente[c].lista,
               \/ /\ cliente[c].fase \in {"nueva", "pide"}
                  /\ e.fase \in {"pide", "enviada", "cortada"}
               \/ /\ e.sol = cliente[c].sol /\ e.k = cliente[c].k
                  /\ \/ /\ cliente[c].fase \in {"enviada", "respondida"}
                        /\ e.fase = "cortada"
                     \/ cliente[c].fase = "respondida" /\ e.fase = "fechada"
        PROVE  Aparte
    <2>1. cliente'[c] = e /\ \A d \in Conexiones \ {c} : cliente'[d] = cliente[d]
      BY <1>1 DEF MemoriaOK
    <2>2. UNCHANGED <<hilo, cola, historia, log, rpc, leyendo>>
      BY <1>1 DEF Servicio
    <2>3. \A d \in Conexiones : cliente'[d].aceptada = cliente[d].aceptada
      BY <1>1, <2>1
    <2>4. leyendo' # Nadie => cliente'[leyendo'].aceptada
      BY <2>2, <2>3 DEF LugarInv, MemoriaOK
    <2>5. \A d \in Conexiones : Tratada(d) => Tratada(d)'
      BY <1>1, <2>1, <2>2 DEF Tratada
    <2>6. cliente[c].fase \in {"nueva", "pide"} => ~Tratada(c)
      BY DEF Tratada
    <2> QED BY <1>1, <2>1, <2>2, <2>4, <2>5, <2>6 DEF Aparte
  <1>2. ASSUME NEW c \in Conexiones, ClientePaso(c) PROVE Aparte
    <2>1. ASSUME NEW s, ClienteConecta(c, s) PROVE Aparte
      <3> DEFINE e == [cliente[c] EXCEPT !.fase = "pide", !.sol = s]
      <3>1. cliente' = [cliente EXCEPT ![c] = e] /\ UNCHANGED Servicio
        BY <2>1 DEF ClienteConecta, MemoriaOK
      <3>2. /\ e.fase = "pide" /\ e.aceptada = cliente[c].aceptada
            /\ e.status = cliente[c].status /\ e.lista = cliente[c].lista
        BY <1>0 DEF EstadoCliente
      <3> HIDE DEF e
      <3> QED BY <1>1, <2>1, <3>1, <3>2 DEF ClienteConecta
    <2>2. CASE ClienteEnvia(c)
      <3> DEFINE n == Len(EnElCable(cliente[c].sol.command_str))
                 e == [cliente[c] EXCEPT !.fase = "enviada", !.k = n]
      <3>1. cliente' = [cliente EXCEPT ![c] = e] /\ UNCHANGED Servicio
        BY <2>2 DEF ClienteEnvia, MemoriaOK
      <3> HIDE DEF n
      <3>2. /\ e.fase = "enviada" /\ e.aceptada = cliente[c].aceptada
            /\ e.status = cliente[c].status /\ e.lista = cliente[c].lista
        BY <1>0 DEF EstadoCliente
      <3> HIDE DEF e
      <3> QED BY <1>1, <2>2, <3>1, <3>2 DEF ClienteEnvia
    <2>3. ASSUME NEW k, ClienteCorta(c, k) PROVE Aparte
      <3> DEFINE m == read_to_pet(PetBasura, cliente[c].sol, k)
                 e == [cliente[c] EXCEPT !.fase = "cortada", !.k = k, !.sol = m]
      <3>1. cliente' = [cliente EXCEPT ![c] = e] /\ UNCHANGED Servicio
        BY <2>3 DEF ClienteCorta, MemoriaOK
      <3> HIDE DEF m
      <3>2. /\ e.fase = "cortada" /\ e.aceptada = cliente[c].aceptada
            /\ e.status = cliente[c].status /\ e.lista = cliente[c].lista
        BY <1>0 DEF EstadoCliente
      <3> HIDE DEF e
      <3> QED BY <1>1, <2>3, <3>1, <3>2 DEF ClienteCorta
    <2>4. ASSUME NEW f \in {"fechada", "cortada"}, Fase(c, f), UNCHANGED Servicio,
                 \/ cliente[c].fase = "respondida"
                 \/ cliente[c].fase = "enviada" /\ f = "cortada"
          PROVE  Aparte
      <3> DEFINE e == [cliente[c] EXCEPT !.fase = f]
      <3>1. cliente' = [cliente EXCEPT ![c] = e]
        BY <2>4 DEF Fase, MemoriaOK
      <3>2. /\ e.fase = f /\ e.aceptada = cliente[c].aceptada
            /\ e.status = cliente[c].status /\ e.lista = cliente[c].lista
            /\ e.sol = cliente[c].sol /\ e.k = cliente[c].k
        BY <1>0 DEF EstadoCliente
      <3> HIDE DEF e
      <3> QED BY <1>1, <2>4, <3>1, <3>2
    <2> QED
      BY <1>2, <2>1, <2>2, <2>3, <2>4 DEF ClientePaso, ClienteAbandona, ClienteFecha
  <1>3. ASSUME NEW c \in Conexiones, Acepta(c) PROVE Aparte
    <2> DEFINE e == [cliente[c] EXCEPT !.aceptada = TRUE]
    <2>1. /\ ~cliente[c].aceptada /\ cliente' = [cliente EXCEPT ![c] = e]
          /\ leyendo = Nadie /\ leyendo' = c
          /\ UNCHANGED <<hilo, cola, historia, log, rpc>>
      BY <1>3 DEF Acepta, MemoriaOK
    <2>2. /\ e.fase = cliente[c].fase /\ e.aceptada = TRUE
          /\ e.status = cliente[c].status /\ e.lista = cliente[c].lista
      BY <1>0 DEF EstadoCliente
    <2> HIDE DEF e
    <2>3. cliente'[c] = e /\ \A d \in Conexiones \ {c} : cliente'[d] = cliente[d]
      BY <2>1 DEF MemoriaOK
    <2>4. ~Tratada(c) /\ \A d \in Conexiones \ {c} : Tratada(d) => Tratada(d)'
      BY <2>1, <2>3 DEF Tratada
    <2> QED BY <2>1, <2>2, <2>3, <2>4 DEF Aparte
  <1>4. ASSUME NEW c \in Conexiones, ErrorLectura(c) PROVE Aparte
    <2>1. /\ leyendo = c /\ leyendo' = Nadie /\ Fase(c, "fin")
          /\ UNCHANGED <<hilo, cola, historia, log, rpc>>
      BY <1>4 DEF ErrorLectura
    <2>2. /\ cliente'[c] = [cliente[c] EXCEPT !.fase = "fin"]
          /\ \A d \in Conexiones \ {c} : cliente'[d] = cliente[d]
      BY <2>1, ClienteFase
    <2>3. /\ cliente'[c].fase = "fin" /\ cliente'[c].lista = cliente[c].lista
          /\ cliente'[c].status = cliente[c].status
      BY <1>0, <2>2 DEF EstadoCliente
    <2>4. ~Tratada(c) /\ \A d \in Conexiones \ {c} : Tratada(d) => Tratada(d)'
      BY <2>1, <2>2 DEF Tratada
    <2> QED BY <2>1, <2>2, <2>3, <2>4 DEF Aparte
  <1>5. CASE Arranca \/ UNCHANGED vars
    <2>1. UNCHANGED <<hilo, cola, historia, log, rpc, cliente, leyendo>>
      BY <1>5 DEF Arranca, vars
    <2> QED BY <2>1 DEF Aparte, LugarInv, Tratada
  <1> QED
    BY <1>2, <1>3, <1>4, <1>5

LEMMA HistAparte ==
  ASSUME HistInv, Aparte
  PROVE  LugarInv' /\ FaseInv' /\ CamposInv' /\ LogInv' /\ FielInv'
  <1> USE DEF EnCola, EnHistoria
  <1>0. /\ MemoriaOK /\ LugarInv /\ FaseInv /\ CamposInv /\ LogInv /\ FielInv
        /\ UNCHANGED <<hilo, cola, historia, log, rpc>>
    BY DEF HistInv, Aparte
  <1>1. LugarInv'
    BY <1>0, Sitios DEF LugarInv, Aparte, Ocupado, Ejecutado, Ultima
  <1> HIDE DEF HistInv
  <1>2. FaseInv'
    <2>1. \A i \in EnCola : cliente'[cola[i].con].fase \in {"enviada", "cortada"}
      BY <1>0, Sitios DEF FaseInv, LugarInv, Aparte
    <2>2. ASSUME NEW w \in Workers,
                 hilo[w].pc \in {"espera", "trata", "envia", "lista", "cuelga"}
          PROVE  cliente'[hilo[w].con].fase \in {"enviada", "cortada"}
      <3>1. /\ hilo[w].con \in Conexiones /\ Tratada(hilo[w].con)
            /\ cliente[hilo[w].con].fase \in {"enviada", "cortada"}
        BY <1>0, <2>2, Sitios DEF FaseInv, LugarInv, Ocupado
      <3> QED BY <3>1 DEF Aparte
    <2>3. \A c \in Conexiones :
            cliente'[c].fase \in {"nueva", "pide", "enviada"} => cliente'[c].lista = {}
      BY <1>0 DEF FaseInv, Aparte
    <2> QED BY <1>0, <2>1, <2>2, <2>3 DEF FaseInv, Ejecutado, HayLista
  <1>3. CamposInv'
    <2>1. ASSUME NEW c \in Conexiones, Tratada(c)
          PROVE  \/ cliente'[c].sol = cliente[c].sol /\ cliente'[c].k = cliente[c].k
                 \/ cliente'[c] = cliente[c]
      BY <2>1 DEF Aparte
    <2>2. ASSUME NEW c \in Conexiones, Tratada(c), NEW p, Propio(p, cliente[c])
          PROVE  Propio(p, cliente'[c])
      BY <2>1, <2>2, PropioIgual
    <2> QED BY <1>0, <2>2, Sitios DEF CamposInv, LugarInv, Ocupado
  <1>4. LogInv'
    BY <1>0 DEF LogInv, Ejecutado
  <1>5. FielInv'
    BY <1>0 DEF FielInv, Aparte
  <1> QED BY <1>1, <1>2, <1>3, <1>4, <1>5

\* main reads a connection: its request goes to the end of the queue.
LEMMA read_to_petPropio ==
  ASSUME NEW viejo, NEW c \in Conexiones
  PROVE  Propio(read_to_pet(viejo, cliente[c].sol, cliente[c].k), cliente[c])
  <1> DEFINE sol == cliente[c].sol
             campos == EnElCable(sol.command_str)
             leidos == SubSeq(campos, 1, Len(campos))
  <1>1. campos \in Seq(Campos) /\ Len(campos) \in Nat
    BY CableTipo
  <1>2. leidos = campos
    BY <1>1
  <1>3. ASSUME NEW j \in 1 .. Len(campos)
        PROVE  campos[j] \in Campos /\ Contains(campos, campos[j])
    BY <1>1, <1>3 DEF Contains
  <1> HIDE DEF campos
  <1>4. ASSUME cliente[c].k = Len(campos), NEW j \in 1 .. Len(campos)
        PROVE  read_to_pet(viejo, sol, cliente[c].k)[campos[j]] = sol[campos[j]]
    BY <1>2, <1>3, <1>4 DEF read_to_pet, campos
  <1> QED BY <1>4 DEF Propio, campos

LEMMA HistEncola ==
  ASSUME HistInv, NEW c \in Conexiones, Encola(c)
  PROVE  LugarInv' /\ FaseInv' /\ CamposInv' /\ LogInv' /\ FielInv'
  <1> USE ServidorAssumption DEF EnCola, EnHistoria
  <1>0. MemoriaOK /\ LugarInv /\ FaseInv /\ CamposInv /\ LogInv /\ FielInv
    BY DEF HistInv
  <1>1. /\ UNCHANGED <<cliente, hilo, historia, log, rpc>>
        /\ leyendo = c /\ leyendo' = Nadie
        /\ cliente[c].fase \in {"enviada", "cortada"}
    BY DEF Encola
  <1>2. /\ Len(cola') = Len(cola) + 1 /\ Len(cola) \in Nat
        /\ \A i \in 1 .. Len(cola) : cola'[i] = cola[i]
        /\ cola'[Len(cola) + 1] = [con |-> c, pet |-> pet']
        /\ pet' = read_to_pet(pet, cliente[c].sol, cliente[c].k)
    <2>1. cola \in Seq([con : Conexiones, pet : Peticion])
      BY <1>0 DEF MemoriaOK
    <2>2. cola' = Append(cola, [con |-> c, pet |-> pet'])
      BY DEF Encola
    <2> QED BY <2>1, <2>2 DEF Encola
  <1>3. Tratada(c)' /\ \A d \in Conexiones : Tratada(d) => Tratada(d)'
    BY <1>0, <1>1 DEF LugarInv, Tratada
  <1>4. /\ \A i \in EnCola : cola[i].con # c
        /\ \A w \in Workers : Ocupado(w) => hilo[w].con # c
        /\ \A j \in EnHistoria : historia[j].con # c
    BY <1>0, <1>1 DEF LugarInv, Tratada
  <1>5. UNCHANGED cliente
    BY <1>1
  <1>6. LugarInv'
    <2>1. \A i \in 1 .. Len(cola') : \/ i \in EnCola /\ cola'[i] = cola[i]
                                     \/ i = Len(cola) + 1 /\ cola'[i].con = c
      BY <1>2
    <2>2. ASSUME NEW i \in 1 .. Len(cola'), NEW j \in 1 .. Len(cola'),
                 cola'[i].con = cola'[j].con
          PROVE  i = j
      <3>1. CASE i \in EnCola /\ j \in EnCola
        <4>1. cola[i].con = cola[j].con
          BY <1>2, <2>2, <3>1
        <4> QED BY <1>0, <3>1, <4>1 DEF LugarInv
      <3>2. CASE i \in EnCola /\ j = Len(cola) + 1
        BY <1>2, <1>4, <2>1, <2>2, <3>2
      <3>3. CASE i = Len(cola) + 1 /\ j \in EnCola
        BY <1>2, <1>4, <2>1, <2>2, <3>3
      <3> QED BY <2>1, <3>1, <3>2, <3>3
    <2>3. ASSUME NEW i \in 1 .. Len(cola')
          PROVE  /\ Tratada(cola[i].con)'
                 /\ \A w \in Workers : Ocupado(w) => hilo[w].con # cola'[i].con
                 /\ \A j \in EnHistoria : historia[j].con # cola'[i].con
      <3>1. CASE i \in EnCola /\ cola'[i] = cola[i]
        <4>1. cola[i].con \in Conexiones /\ Tratada(cola[i].con)
          BY <1>0, <3>1, Sitios DEF LugarInv
        <4>2. Tratada(cola[i].con)'
          BY <1>1, <3>1, <4>1 DEF Tratada
        <4> QED BY <1>0, <3>1, <4>2 DEF LugarInv
      <3>2. CASE i = Len(cola) + 1 /\ cola'[i].con = c
        <4>1. Tratada(cola[i].con)'
          BY <1>0, <1>1, <3>2 DEF LugarInv, Tratada
        <4> QED BY <1>4, <3>2, <4>1
      <3> QED BY <2>1, <3>1, <3>2
    <2>4. \A d \in Conexiones : Tratada(d) => Tratada(d)'
      BY <1>3
    <2>5. ASSUME NEW w \in Workers, Ocupado(w) PROVE Tratada(hilo[w].con)'
      <3>1. hilo[w].con \in Conexiones /\ Tratada(hilo[w].con)
        BY <1>0, <2>5, Sitios DEF LugarInv
      <3> QED BY <1>1, <3>1 DEF Tratada
    <2>6. ASSUME NEW j \in EnHistoria PROVE Tratada(historia[j].con)'
      <3>1. historia[j].con \in Conexiones /\ Tratada(historia[j].con)
        BY <1>0, <2>6, Sitios DEF LugarInv
      <3> QED BY <1>1, <3>1 DEF Tratada
    <2>7. /\ leyendo' = Nadie /\ UNCHANGED <<cliente, hilo, historia>>
          /\ \A w \in Workers : (Ejecutado(w) <=> Ejecutado(w)') /\ (Ocupado(w) <=> Ocupado(w)')
      BY <1>1 DEF Ejecutado, Ocupado
    <2> HIDE DEF HistInv
    <2> QED
      BY <1>0, <2>2, <2>3, <2>5, <2>6, <2>7
      DEF LugarInv, Ocupado, Ultima
  <1>7. FaseInv'
    <2>1. \A i \in 1 .. Len(cola') : cliente'[cola'[i].con].fase \in {"enviada", "cortada"}
      <3>1. ASSUME NEW i \in 1 .. Len(cola')
            PROVE  cliente'[cola'[i].con].fase \in {"enviada", "cortada"}
        <4>1. CASE i \in EnCola
          BY <1>0, <1>2, <1>5, <4>1, Sitios DEF FaseInv
        <4>2. CASE i = Len(cola) + 1
          BY <1>1, <1>2, <1>5, <4>2
        <4> QED BY <1>2, <4>1, <4>2
      <3> QED BY <3>1
    <2>2. \A w \in Workers :
            hilo[w].pc \in {"espera", "trata", "envia", "lista", "cuelga"} =>
              cliente'[hilo[w].con].fase \in {"enviada", "cortada"}
      BY <1>0, <1>5, Sitios DEF FaseInv, Ocupado
    <2>3. \A d \in Conexiones :
            cliente'[d].fase \in {"nueva", "pide", "enviada"} =>
              cliente'[d].lista = {}
      BY <1>0, <1>5 DEF FaseInv
    <2> QED BY <1>0, <1>1, <2>1, <2>2, <2>3 DEF FaseInv, Ejecutado, HayLista
  <1>8. CamposInv'
    <2>1. ASSUME NEW e \in Conexiones, NEW p, Propio(p, cliente[e])
          PROVE  Propio(p, cliente'[e])
      BY <1>5, <2>1
    <2>2. ASSUME NEW i \in 1 .. Len(cola') PROVE Propio(cola'[i].pet, cliente'[cola'[i].con])
      <3>1. CASE i \in EnCola
        <4>1. Propio(cola[i].pet, cliente[cola[i].con]) /\ cola'[i] = cola[i]
          BY <1>0, <1>2, <3>1 DEF CamposInv
        <4>2. cola[i].con \in Conexiones
          BY <1>0, <3>1, Sitios
        <4> QED BY <2>1, <4>1, <4>2
      <3>2. CASE i = Len(cola) + 1
        <4>1. cola'[i].con = c /\ cola'[i].pet = read_to_pet(pet, cliente[c].sol, cliente[c].k)
          BY <1>2, <3>2
        <4> QED BY <2>1, <4>1, read_to_petPropio
      <3> QED BY <1>2, <3>1, <3>2
    <2> QED BY <1>0, <1>1, <2>1, <2>2, Sitios DEF CamposInv, Ocupado
  <1>9. LogInv'
    BY <1>0, <1>1 DEF LogInv, Ejecutado
  <1>10. FielInv'
    BY <1>0, <1>1 DEF FielInv
  <1> QED BY <1>6, <1>7, <1>8, <1>9, <1>10

\* A worker takes the first request of the queue.
LEMMA HistSaca ==
  ASSUME HistInv, NEW w \in Workers, Saca(w)
  PROVE  LugarInv' /\ FaseInv' /\ CamposInv' /\ LogInv' /\ FielInv'
  <1> USE DEF EnCola, EnHistoria
  <1>0. MemoriaOK /\ LugarInv /\ FaseInv /\ CamposInv /\ LogInv /\ FielInv
    BY DEF HistInv
  <1>1. /\ UNCHANGED <<cliente, historia, log, rpc, leyendo>>
        /\ hilo[w].pc = "libre"
    BY DEF Saca, En
  <1>2. /\ Len(cola) \in Nat \ {0} /\ Len(cola') = Len(cola) - 1
        /\ \A i \in 1 .. Len(cola') : i + 1 \in EnCola /\ cola'[i] = cola[i + 1]
        /\ Head(cola) = cola[1] /\ 1 \in EnCola
    <2>1. cola \in Seq([con : Conexiones, pet : Peticion]) /\ cola # <<>>
      BY <1>0 DEF MemoriaOK, Saca
    <2> HIDE DEF HistInv
    <2>2. cola' = Tail(cola)
      BY DEF Saca
    <2> QED BY <2>1, <2>2, HeadTailProperties, LenProperties
  <1>3. /\ \A v \in Workers \ {w} : hilo'[v] = hilo[v]
        /\ hilo'[w].pc = "espera" /\ hilo'[w].con = cola[1].con
        /\ hilo'[w].pet = cola[1].pet
    BY <1>0, <1>2 DEF Saca, Libre, MemoriaOK
  <1>4. \A i \in 1 .. Len(cola') : cola'[i].con # cola[1].con
    BY <1>0, <1>2 DEF LugarInv
  <1>5. LugarInv'
    <2>1. \A i, j \in 1 .. Len(cola') : cola'[i].con = cola'[j].con => i = j
      BY <1>0, <1>2 DEF LugarInv
    <2>2. \A v, u \in Workers :
            Ocupado(v)' /\ Ocupado(u)' /\ hilo'[v].con = hilo'[u].con => v = u
      BY <1>0, <1>2, <1>3 DEF LugarInv, Ocupado
    <2>3. ASSUME NEW i \in 1 .. Len(cola')
          PROVE  /\ Tratada(cola'[i].con)
                 /\ \A v \in Workers : Ocupado(v)' => hilo'[v].con # cola'[i].con
                 /\ \A j \in EnHistoria : historia[j].con # cola'[i].con
      <3>1. i + 1 \in EnCola /\ cola'[i] = cola[i + 1] /\ cola[1].con # cola'[i].con
        BY <1>2, <1>4
      <3>2. /\ Tratada(cola'[i].con)
            /\ \A v \in Workers : Ocupado(v) => hilo[v].con # cola'[i].con
            /\ \A j \in EnHistoria : historia[j].con # cola'[i].con
        BY <1>0, <3>1 DEF LugarInv
      <3> QED BY <1>3, <3>1, <3>2 DEF Ocupado
    <2>4. ASSUME NEW v \in Workers, Ocupado(v)'
          PROVE  /\ Tratada(hilo'[v].con)
                 /\ ~Ejecutado(v)' => \A j \in EnHistoria : historia[j].con # hilo'[v].con
                 /\ Ejecutado(v)' => /\ Len(historia) > 0
                                     /\ Ultima.con = hilo'[v].con
                                     /\ Ultima.status = hilo'[v].status
                                     /\ Ultima.lista = hilo'[v].lista
      BY <1>0, <1>2, <1>3, <2>4 DEF LugarInv, Ocupado, Ejecutado
    <2> QED BY <1>0, <1>1, <2>1, <2>2, <2>3, <2>4 DEF LugarInv, Ultima, Tratada
  <1>6. FaseInv'
    <2>1. \A i \in 1 .. Len(cola') : cliente[cola'[i].con].fase \in {"enviada", "cortada"}
      BY <1>0, <1>2 DEF FaseInv
    <2>2. \A v \in Workers :
            hilo'[v].pc \in {"espera", "trata", "envia", "lista", "cuelga"} =>
              cliente[hilo'[v].con].fase \in {"enviada", "cortada"}
      BY <1>0, <1>2, <1>3 DEF FaseInv
    <2>3. \A v \in Workers : Ejecutado(v)' /\ ~HayLista(v)' => hilo'[v].lista = {}
      BY <1>0, <1>3 DEF FaseInv, Ejecutado, HayLista
    <2> QED BY <1>0, <1>1, <2>1, <2>2, <2>3 DEF FaseInv
  <1>7. CamposInv'
    <2>1. \A i \in 1 .. Len(cola') : Propio(cola'[i].pet, cliente[cola'[i].con])
      BY <1>0, <1>2 DEF CamposInv
    <2>2. \A v \in Workers : Ocupado(v)' => Propio(hilo'[v].pet, cliente[hilo'[v].con])
      BY <1>0, <1>2, <1>3 DEF CamposInv, Ocupado
    <2> QED BY <1>0, <1>1, <2>1, <2>2 DEF CamposInv
  <1>8. LogInv'
    BY <1>0, <1>1, <1>3 DEF LogInv, Ejecutado
  <1>9. FielInv'
    BY <1>0, <1>1 DEF FielInv
  <1> QED BY <1>5, <1>6, <1>7, <1>8, <1>9

\* A worker goes on to another stage, before or after its operation, and its
\* client notices nothing.
LEMMA HistPasa ==
  ASSUME HistInv, NEW w \in Workers, NEW p, Pasa(w, p),
         \/ hilo[w].pc = "espera" /\ p = "trata"
         \/ hilo[w].pc = "trata" /\ p = "cuelga"
         \/ hilo[w].pc = "envia" /\ p \in {"lista", "fecha", "cierra"}
         \/ hilo[w].pc = "lista" /\ p \in {"fecha", "cierra"}
         \/ hilo[w].pc = "fecha" /\ p \in {"log", "cierra"}
         \/ hilo[w].pc = "log" /\ p = "cierra",
         UNCHANGED <<cliente, cola, historia, leyendo>>
  PROVE  /\ LugarInv' /\ FaseInv' /\ CamposInv' /\ FielInv'
         /\ UNCHANGED <<log, rpc>> => LogInv'
  <1> USE DEF EnCola, EnHistoria
  <1>0. MemoriaOK /\ LugarInv /\ FaseInv /\ CamposInv /\ LogInv /\ FielInv
    BY DEF HistInv
  <1>1. /\ \A v \in Workers \ {w} : hilo'[v] = hilo[v]
        /\ hilo'[w].pc = p /\ hilo'[w].con = hilo[w].con
        /\ hilo'[w].pet = hilo[w].pet /\ hilo'[w].status = hilo[w].status
        /\ hilo'[w].lista = hilo[w].lista
    BY <1>0, HiloPasa
  <1>2. /\ Ocupado(w) /\ p # "libre"
        /\ Ejecutado(w)' <=> Ejecutado(w)
        /\ HayLista(w)' <=> HayLista(w)
        /\ Ejecutado(w) => hilo[w].pc # "cierra"
    BY <1>1 DEF Ocupado, Ejecutado, HayLista
  <1>3. \A v \in Workers : /\ Ocupado(v)' <=> Ocupado(v)
                           /\ Ejecutado(v)' <=> Ejecutado(v)
                           /\ HayLista(v)' <=> HayLista(v)
                           /\ hilo'[v].con = hilo[v].con
                           /\ hilo'[v].pet = hilo[v].pet
                           /\ hilo'[v].status = hilo[v].status
                           /\ hilo'[v].lista = hilo[v].lista
    BY <1>1, <1>2 DEF Ocupado, Ejecutado, HayLista
  <1>4. LugarInv'
    BY <1>0, <1>3 DEF LugarInv, Ultima, Tratada
  <1>5. FaseInv'
    <2>1. \A v \in Workers :
            hilo'[v].pc \in {"espera", "trata", "envia", "lista", "cuelga"} =>
              hilo[v].pc \in {"espera", "trata", "envia", "lista", "cuelga"}
      BY <1>1
    <2> QED BY <1>0, <1>3, <2>1 DEF FaseInv
  <1>6. CamposInv'
    BY <1>0, <1>3 DEF CamposInv
  <1>7. FielInv'
    BY <1>0 DEF FielInv
  <1>8. ASSUME UNCHANGED <<log, rpc>> PROVE LogInv'
    <2>1. \A v \in Workers : Ejecutado(v)' /\ hilo'[v].pc # "cierra" =>
                               Ejecutado(v) /\ hilo[v].pc # "cierra"
      BY <1>1, <1>2, <1>3
    <2> QED BY <1>0, <1>3, <1>8, <2>1 DEF LogInv
  <1> QED BY <1>4, <1>5, <1>6, <1>7, <1>8

\* Who holds each connection does not depend on what its client reads.
LEMMA LugarQuieto ==
  ASSUME MemoriaOK, LugarInv, UNCHANGED <<cola, historia, leyendo>>,
         \A v \in Workers : /\ Ocupado(v)' <=> Ocupado(v)
                            /\ Ejecutado(v)' <=> Ejecutado(v)
                            /\ hilo'[v].con = hilo[v].con
                            /\ hilo'[v].status = hilo[v].status
                            /\ hilo'[v].lista = hilo[v].lista,
         \A d \in Conexiones :
           /\ cliente'[d].aceptada = cliente[d].aceptada
           /\ cliente'[d].fase \in {"nueva", "pide"} => cliente'[d].fase = cliente[d].fase
  PROVE  LugarInv'
  <1> USE DEF EnCola, EnHistoria
  <1>1. /\ \A i \in EnCola : cola[i].con \in Conexiones
        /\ \A v \in Workers : Ocupado(v) => hilo[v].con \in Conexiones
        /\ \A j \in EnHistoria : historia[j].con \in Conexiones
    BY Sitios
  <1>0. \A d \in Conexiones : Tratada(d) => Tratada(d)'
    BY DEF Tratada
  <1>2. /\ \A i \in EnCola : Tratada(cola[i].con)'
        /\ \A j \in EnHistoria : Tratada(historia[j].con)'
        /\ leyendo' # Nadie => cliente'[leyendo'].aceptada
    BY <1>0, <1>1 DEF LugarInv, MemoriaOK
  <1>3. \A v \in Workers : Ocupado(v)' =>
          /\ Tratada(hilo[v].con)'
          /\ ~Ejecutado(v)' => \A j \in EnHistoria : historia[j].con # hilo'[v].con
          /\ Ejecutado(v)' => /\ Len(historia) > 0
                             /\ Ultima.con = hilo'[v].con
                             /\ Ultima.status = hilo'[v].status
                             /\ Ultima.lista = hilo'[v].lista
    BY <1>0, <1>1 DEF LugarInv
  <1>4. /\ \A v, u \in Workers :
             Ocupado(v)' /\ Ocupado(u)' /\ hilo'[v].con = hilo'[u].con => v = u
        /\ \A i \in EnCola, v \in Workers : Ocupado(v)' => hilo'[v].con # cola[i].con
    BY DEF LugarInv
  <1> QED BY <1>2, <1>3, <1>4 DEF LugarInv, Ultima

\* A worker gives its client the status, or the listing after it.
LEMMA HistEntrega ==
  ASSUME HistInv, NEW w \in Workers, NEW p \in {"lista", "fecha"},
         hilo[w].pc \in {"envia", "lista"}, Pasa(w, p),
         UNCHANGED <<cola, historia, log, rpc, leyendo>>,
         \A d \in Conexiones \ {hilo[w].con} : cliente'[d] = cliente[d],
         NEW x, x = cliente'[hilo[w].con],
         x.sol = cliente[hilo[w].con].sol, x.k = cliente[hilo[w].con].k,
         x.aceptada = cliente[hilo[w].con].aceptada,
         x.status \in {-1, hilo[w].status},
         \/ /\ p = "lista" /\ hilo[w].pc = "envia"
            /\ x.fase = cliente[hilo[w].con].fase
            /\ x.lista = cliente[hilo[w].con].lista
         \/ p = "fecha" /\ x.fase = "respondida" /\ x.lista = hilo[w].lista
  PROVE  LugarInv' /\ FaseInv' /\ CamposInv' /\ LogInv' /\ FielInv'
  <1> USE DEF EnCola, EnHistoria
  <1> DEFINE c == hilo[w].con
  <1>0. MemoriaOK /\ LugarInv /\ FaseInv /\ CamposInv /\ LogInv /\ FielInv
    BY DEF HistInv
  <1>1. /\ \A v \in Workers \ {w} : hilo'[v] = hilo[v]
        /\ hilo'[w].pc = p /\ hilo'[w].con = c
        /\ hilo'[w].pet = hilo[w].pet /\ hilo'[w].status = hilo[w].status
        /\ hilo'[w].lista = hilo[w].lista
    BY <1>0, HiloPasa
  <1>2. /\ Ocupado(w) /\ Ejecutado(w) /\ Ejecutado(w)'
        /\ hilo[w].pc # "cierra" /\ c \in Conexiones
    BY <1>0, <1>1, Sitios DEF Ocupado, Ejecutado
  <1>3. \A v \in Workers : /\ Ocupado(v)' <=> Ocupado(v)
                           /\ Ejecutado(v)' <=> Ejecutado(v)
                           /\ HayLista(v)' <=> HayLista(v)
                           /\ hilo'[v].con = hilo[v].con
                           /\ hilo'[v].pet = hilo[v].pet
                           /\ hilo'[v].status = hilo[v].status
                           /\ hilo'[v].lista = hilo[v].lista
    BY <1>1, <1>2 DEF Ocupado, Ejecutado, HayLista
  <1>4. /\ \A i \in EnCola : cola[i].con # c
        /\ \A v \in Workers \ {w} : Ocupado(v) => hilo[v].con # c
        /\ Len(historia) \in EnHistoria /\ Ultima.con = c
        /\ Ultima.status = hilo[w].status /\ Ultima.lista = hilo[w].lista
    BY SMTT(30), <1>0, <1>2, Sitios DEF LugarInv
  <1>5. \A d \in Conexiones : /\ cliente'[d].aceptada = cliente[d].aceptada
                              /\ cliente'[d].sol = cliente[d].sol
                              /\ cliente'[d].k = cliente[d].k
                              /\ cliente'[d].fase \in {"nueva", "pide"} =>
                                   cliente'[d].fase = cliente[d].fase
    OBVIOUS
  <1> HIDE DEF c
  <1>6. LugarInv'
    BY <1>0, <1>3, <1>5, LugarQuieto
  <1>7. FaseInv'
    <2>1. \A i \in EnCola : cliente'[cola[i].con].fase \in {"enviada", "cortada"}
      BY <1>0, <1>4, Sitios DEF FaseInv, c
    <2>2. ASSUME NEW v \in Workers,
                 hilo'[v].pc \in {"espera", "trata", "envia", "lista", "cuelga"}
          PROVE  cliente'[hilo'[v].con].fase \in {"enviada", "cortada"}
      <3>1. CASE v = w
        BY <1>0, <1>1, <2>2, <3>1 DEF FaseInv, c
      <3>2. CASE v # w
        BY <1>0, <1>1, <1>4, <2>2, <3>2, Sitios DEF FaseInv, Ocupado, c
      <3> QED BY <3>1, <3>2
    <2>3. \A d \in Conexiones :
            cliente'[d].fase \in {"nueva", "pide", "enviada"} =>
              cliente'[d].lista = {}
      BY <1>0 DEF FaseInv, c
    <2> QED BY <1>0, <1>3, <2>1, <2>2, <2>3 DEF FaseInv
  <1>8. CamposInv'
    <2>1. ASSUME NEW d \in Conexiones, NEW q, Propio(q, cliente[d])
          PROVE  Propio(q, cliente'[d])
      BY <1>5, <2>1, PropioIgual
    <2> QED BY <1>0, <1>3, <2>1, Sitios DEF CamposInv
  <1>9. LogInv'
    <2>1. \A v \in Workers : Ejecutado(v)' /\ hilo'[v].pc # "cierra" =>
                               Ejecutado(v) /\ hilo[v].pc # "cierra"
      BY <1>1, <1>2, <1>3
    <2>2. \A v \in Workers : Ejecutado(v)' /\ hilo'[v].pc # "cierra" =>
            /\ hilo'[v].con \notin rpc
            /\ \A i \in 1 .. Len(log) : log[i].con # hilo'[v].con
      BY <1>0, <1>3, <2>1 DEF LogInv
    <2>3. UNCHANGED <<historia, log, rpc>>
      OBVIOUS
    <2>4. \A i \in 1 .. Len(log) :
            /\ log[i].con \notin rpc
            /\ \E j \in EnHistoria : historia[j].con = log[i].con
            /\ \A j \in 1 .. Len(log) : log[i].con = log[j].con => i = j
      BY <1>0, Zenon DEF LogInv
    <2>5. EnOrden(log, historia)
      BY <1>0 DEF LogInv
    <2>6. \A d \in rpc : \E j \in EnHistoria : historia[j].con = d
      BY <1>0, Zenon DEF LogInv
    <2> QED BY <2>2, <2>3, <2>4, <2>5, <2>6 DEF LogInv
  <1>10. FielInv'
    <2>1. ASSUME NEW d \in Conexiones, d # c, cliente'[d].status # -1
          PROVE  \E i \in EnHistoria :
                   /\ historia[i].con = d
                   /\ historia[i].status = cliente'[d].status
                   /\ cliente'[d].fase \in {"respondida", "fechada"} =>
                        historia[i].lista = cliente'[d].lista
      BY <1>0, <2>1 DEF FielInv, c
    <2>2. cliente'[c].status # -1 =>
            /\ Ultima.con = c /\ Ultima.status = cliente'[c].status
            /\ cliente'[c].fase \in {"respondida", "fechada"} =>
                 Ultima.lista = cliente'[c].lista
      BY <1>0, <1>4 DEF FaseInv, c
    <2> QED BY <1>4, <2>1, <2>2 DEF FielInv, Ultima
  <1> QED BY <1>6, <1>7, <1>8, <1>9, <1>10

LEMMA HistEnvia ==
  ASSUME HistInv, NEW w \in Workers, EnviaStatus(w) \/ EnviaLista(w)
  PROVE  LugarInv' /\ FaseInv' /\ CamposInv' /\ LogInv' /\ FielInv'
  <1> DEFINE c == hilo[w].con
             sigue == IF HayLista(w) THEN "lista" ELSE "fecha"
             e == [cliente[c] EXCEPT
                     !.status = hilo[w].status,
                     !.fase = IF HayLista(w) THEN @ ELSE "respondida"]
             g == [cliente[c] EXCEPT !.lista = hilo[w].lista, !.fase = "respondida"]
  <1>0. MemoriaOK /\ LugarInv /\ FaseInv /\ FielInv
    BY DEF HistInv
  <1>1. /\ UNCHANGED <<cola, historia, log, rpc, leyendo>>
        /\ hilo[w].pc \in {"envia", "lista"} /\ Ocupado(w) /\ Ejecutado(w)
    BY DEF EnviaStatus, EnviaLista, En, Ocupado, Ejecutado
  <1>2. /\ c \in Conexiones /\ cliente[c] \in EstadoCliente
        /\ cliente[c].fase \in {"enviada", "cortada"}
        /\ ~HayLista(w) => hilo[w].lista = {}
        /\ cliente[c].fase = "enviada" => cliente[c].lista = {}
    <2>1. c \in Conexiones
      BY <1>0, <1>1, Sitios
    <2>2. cliente[c].fase \in {"enviada", "cortada"}
      BY <1>0, <1>1 DEF FaseInv
    <2> QED BY <1>0, <1>1, <2>1, <2>2 DEF FaseInv, MemoriaOK
  <1>3. CASE EnviaStatus(w) /\ EnvioPerdido(w, sigue)
    BY <1>1, <1>3, HistPasa DEF EnvioPerdido, EnviaStatus, En
  <1>4. CASE EnviaLista(w) /\ EnvioPerdido(w, "fecha")
    BY <1>1, <1>4, HistPasa DEF EnvioPerdido, EnviaLista, En
  <1>5. CASE EnviaStatus(w) /\ Entrega(w, e, sigue)
    <2>1. /\ cliente[c].fase # "cortada" /\ cliente' = [cliente EXCEPT ![c] = e]
          /\ Pasa(w, sigue) /\ hilo[w].pc = "envia"
      BY <1>5 DEF Entrega, EnviaStatus, En
    <2>2. /\ e.sol = cliente[c].sol /\ e.k = cliente[c].k
          /\ e.aceptada = cliente[c].aceptada /\ e.status = hilo[w].status
          /\ e.lista = cliente[c].lista
          /\ HayLista(w) => e.fase = cliente[c].fase
          /\ ~HayLista(w) => e.fase = "respondida"
      BY <1>2 DEF EstadoCliente
    <2> HIDE DEF e
    <2>3. cliente'[c] = e /\ \A d \in Conexiones \ {c} : cliente'[d] = cliente[d]
      BY <1>0, <1>2, <2>1 DEF MemoriaOK
    <2>4. CASE HayLista(w)
      BY <1>1, <1>2, <2>1, <2>2, <2>3, <2>4, HistEntrega
    <2>5. CASE ~HayLista(w)
      <3>1. sigue = "fecha" /\ e.fase = "respondida" /\ e.lista = hilo[w].lista
        BY <1>2, <2>1, <2>2, <2>5
      <3> QED BY <1>1, <1>2, <2>1, <2>2, <2>3, <3>1, HistEntrega
    <2> QED BY <2>4, <2>5
  <1>6. CASE EnviaLista(w) /\ Entrega(w, g, "fecha")
    <2>1. cliente' = [cliente EXCEPT ![c] = g] /\ Pasa(w, "fecha")
      BY <1>6 DEF Entrega
    <2>2. /\ g.sol = cliente[c].sol /\ g.k = cliente[c].k
          /\ g.aceptada = cliente[c].aceptada /\ g.status = cliente[c].status
          /\ g.lista = hilo[w].lista /\ g.fase = "respondida"
      BY <1>2 DEF EstadoCliente
    <2> HIDE DEF g
    <2>3. cliente'[c] = g /\ \A d \in Conexiones \ {c} : cliente'[d] = cliente[d]
      BY <1>0, <1>2, <2>1 DEF MemoriaOK
    \* The status, if it has one, is that of its execution, the last one.
    <2>4. cliente[c].status \in {-1, hilo[w].status}
      <3>1. /\ Len(historia) \in EnHistoria /\ Ultima.con = c
            /\ Ultima.status = hilo[w].status
        BY <1>0, <1>1, Sitios DEF LugarInv, EnHistoria
      <3>2. ASSUME NEW i \in EnHistoria, historia[i].con = c
            PROVE  historia[i].status = hilo[w].status
        BY <1>0, <3>1, <3>2 DEF LugarInv, Ultima
      <3> QED BY <1>0, <1>2, <3>2 DEF FielInv
    <2> QED BY <1>1, <2>1, <2>2, <2>3, <2>4, HistEntrega
  <1> QED BY <1>3, <1>4, <1>5, <1>6 DEF EnviaStatus, EnviaLista

\* The log entry of the last request executed goes after all the others.
LEMMA HistSendLog ==
  ASSUME HistInv, NEW w \in Workers, SendLog(w)
  PROVE  LugarInv' /\ FaseInv' /\ CamposInv' /\ LogInv' /\ FielInv'
  <1> USE DEF EnCola, EnHistoria
  <1>0. MemoriaOK /\ LugarInv /\ LogInv /\ MutexInv
    BY DEF HistInv
  <1>1. /\ UNCHANGED <<cliente, cola, historia, leyendo>> /\ hilo[w].pc = "log"
        /\ Pasa(w, "cierra") /\ Ocupado(w) /\ Ejecutado(w)
    BY DEF SendLog, En, Ocupado, Ejecutado
  <1>2. LugarInv' /\ FaseInv' /\ CamposInv' /\ FielInv'
    BY <1>1, HistPasa
  <1>3. CASE UNCHANGED <<log, rpc>>
    BY <1>1, <1>2, <1>3, HistPasa
  <1> DEFINE c == hilo[w].con
  <1>4. /\ c \in Conexiones /\ c \notin rpc
        /\ \A i \in 1 .. Len(log) : log[i].con # c
        /\ Len(historia) \in EnHistoria /\ historia[Len(historia)].con = c
        /\ \A j \in EnHistoria : historia[j].con = c => j = Len(historia)
    BY <1>0, <1>1, Sitios DEF LugarInv, LogInv, Ultima
  \* The others are out of tratar_peticion.
  <1>5. /\ \A v \in Workers \ {w} : hilo'[v] = hilo[v] /\ ~Ejecutado(v)
        /\ hilo'[w].pc = "cierra"
    BY <1>0, <1>1, HiloPasa DEF MutexInv, Critica
  <1>6. \A v \in Workers : ~(Ejecutado(v)' /\ hilo'[v].pc # "cierra")
    BY <1>5 DEF Ejecutado
  <1> HIDE DEF c
  <1>7. CASE UNCHANGED log /\ rpc' = rpc \cup {c}
    <2>1. \A d \in rpc' : \E j \in EnHistoria : historia[j].con = d
      BY <1>0, <1>4, <1>7 DEF LogInv
    <2>2. \A i \in 1 .. Len(log) :
            /\ log[i].con \notin rpc'
            /\ \E j \in EnHistoria : historia[j].con = log[i].con
            /\ \A j \in 1 .. Len(log) : log[i].con = log[j].con => i = j
      BY <1>0, <1>4, <1>7 DEF LogInv
    <2>3. EnOrden(log, historia)
      BY <1>0 DEF LogInv
    <2>4. LogInv'
      BY <1>1, <1>6, <1>7, <2>1, <2>2, <2>3 DEF LogInv
    <2> QED BY <1>2, <2>4
  <1>8. CASE UNCHANGED rpc /\ log' = Append(log, [con |-> c, aTiempo |-> TRUE])
    <2>1. /\ Len(log') = Len(log) + 1 /\ Len(log) \in Nat
          /\ \A i \in 1 .. Len(log) : log'[i] = log[i]
          /\ log'[Len(log) + 1].con = c
      <3>1. log \in Seq([con : Conexiones, aTiempo : BOOLEAN])
        BY <1>0 DEF MemoriaOK
      <3> QED BY <1>8, <3>1
    <2>2. \A i \in 1 .. Len(log') : \/ i \in 1 .. Len(log) /\ log'[i] = log[i]
                                    \/ i = Len(log) + 1 /\ log'[i].con = c
      BY <2>1
    <2>3. \A i \in 1 .. Len(log') :
            /\ log'[i].con \notin rpc
            /\ \E j \in EnHistoria : historia[j].con = log'[i].con
            /\ \A j \in 1 .. Len(log') : log'[i].con = log'[j].con => i = j
      <3>1. \A i \in 1 .. Len(log) :
              /\ log[i].con \notin rpc
              /\ \E j \in EnHistoria : historia[j].con = log[i].con
              /\ \A j \in 1 .. Len(log) : log[i].con = log[j].con => i = j
        BY <1>0 DEF LogInv
      <3>2. \E j \in EnHistoria : historia[j].con = c
        BY <1>4
      <3>3. \A i \in 1 .. Len(log) : log[i].con # c
        BY <1>4
      <3>4. ASSUME NEW i \in 1 .. Len(log')
            PROVE  /\ log'[i].con \notin rpc
                   /\ \E j \in EnHistoria : historia[j].con = log'[i].con
        BY <1>4, <2>2, <3>1, <3>2
      <3>5. ASSUME NEW i \in 1 .. Len(log'), NEW j \in 1 .. Len(log'),
                   log'[i].con = log'[j].con
            PROVE  i = j
        BY <2>2, <3>1, <3>3, <3>5
      <3> QED BY <3>4, <3>5
    <2>4. ASSUME NEW i \in 1 .. Len(log'), NEW j \in 1 .. Len(log'),
                 NEW a \in EnHistoria, NEW b \in EnHistoria,
                 i < j, log'[i].aTiempo, log'[j].aTiempo,
                 historia[a].con = log'[i].con, historia[b].con = log'[j].con
          PROVE  a < b
      <3>1. i \in 1 .. Len(log) /\ log'[i] = log[i]
        BY <2>1, <2>4
      <3>2. CASE j \in 1 .. Len(log)
        <4>1. EnOrden(log, historia)
          BY <1>0 DEF LogInv
        <4>2. log'[j] = log[j]
          BY <2>1, <3>2
        <4> QED BY <2>4, <3>1, <3>2, <4>1, <4>2 DEF EnOrden
      <3>3. CASE j = Len(log) + 1
        <4>1. b = Len(historia) /\ a # Len(historia)
          BY <1>4, <2>1, <2>4, <3>1, <3>3
        <4> QED BY <4>1, <1>0, Sitios
      <3> QED BY <2>2, <3>2, <3>3
    <2>5. LogInv'
      <3>1. EnOrden(log', historia)
        BY <2>4 DEF EnOrden
      <3> QED BY <1>0, <1>1, <1>6, <1>8, <2>3, <3>1 DEF LogInv
    <2> QED BY <1>2, <2>5
  <1> QED BY <1>3, <1>7, <1>8 DEF SendLog, c

\* A call that had timed out reaches the log service after all.
LEMMA HistTarde ==
  ASSUME HistInv, NEW c \in Conexiones, LlegaTarde(c)
  PROVE  LugarInv' /\ FaseInv' /\ CamposInv' /\ LogInv' /\ FielInv'
  <1> USE DEF EnCola, EnHistoria
  <1>0. MemoriaOK /\ LugarInv /\ FaseInv /\ CamposInv /\ LogInv /\ FielInv
    BY DEF HistInv
  <1>1. /\ UNCHANGED <<hilo, cliente, cola, historia, leyendo>>
        /\ c \in rpc /\ rpc' = rpc \ {c}
        /\ log' = Append(log, [con |-> c, aTiempo |-> FALSE])
    BY DEF LlegaTarde
  <1>2. LugarInv' /\ FaseInv' /\ CamposInv' /\ FielInv'
    BY <1>0, <1>1
    DEF LugarInv, FaseInv, CamposInv, FielInv, Ocupado, Ejecutado, HayLista, Ultima,
        Tratada
  <1>3. /\ Len(log') = Len(log) + 1 /\ Len(log) \in Nat
        /\ \A i \in 1 .. Len(log) : log'[i] = log[i]
        /\ log'[Len(log) + 1].con = c /\ log'[Len(log) + 1].aTiempo = FALSE
    <2>1. log \in Seq([con : Conexiones, aTiempo : BOOLEAN])
      BY <1>0 DEF MemoriaOK
    <2> QED BY <1>1, <2>1
  <1>4. \A i \in 1 .. Len(log') :
          \/ i \in 1 .. Len(log) /\ log'[i] = log[i]
          \/ i = Len(log) + 1 /\ log'[i].con = c /\ log'[i].aTiempo = FALSE
    BY <1>3
  <1>5. \A d \in rpc' : \E j \in EnHistoria : historia[j].con = d
    BY <1>0, <1>1 DEF LogInv
  <1>6. \A i \in 1 .. Len(log') :
          /\ log'[i].con \notin rpc'
          /\ \E j \in EnHistoria : historia[j].con = log'[i].con
          /\ \A j \in 1 .. Len(log') : log'[i].con = log'[j].con => i = j
    BY <1>0, <1>1, <1>4 DEF LogInv
  <1>7. \A w \in Workers : Ejecutado(w) /\ hilo[w].pc # "cierra" =>
          /\ hilo[w].con \notin rpc'
          /\ \A i \in 1 .. Len(log') : log'[i].con # hilo[w].con
    BY <1>0, <1>1, <1>4 DEF LogInv
  <1>8. EnOrden(log', historia)
    <2>1. ASSUME NEW i \in 1 .. Len(log'), log'[i].aTiempo
          PROVE  i \in 1 .. Len(log) /\ log'[i] = log[i]
      BY <1>4, <2>1
    <2>2. EnOrden(log, historia)
      BY <1>0 DEF LogInv
    <2> QED BY <2>1, <2>2 DEF EnOrden
  <1>9. LogInv'
    BY <1>1, <1>5, <1>6, <1>7, <1>8 DEF LogInv, Ejecutado
  <1> QED BY <1>2, <1>9

\* A worker closes its connection and goes back for another.
LEMMA HistCierra ==
  ASSUME HistInv, NEW w \in Workers, Cierra(w)
  PROVE  LugarInv' /\ FaseInv' /\ CamposInv' /\ LogInv' /\ FielInv'
  <1> USE DEF EnCola, EnHistoria
  <1> DEFINE c == hilo[w].con
  <1>0. MemoriaOK /\ LugarInv /\ FaseInv /\ CamposInv /\ LogInv /\ FielInv
    BY DEF HistInv
  <1>1. /\ UNCHANGED <<cola, historia, log, rpc, leyendo>>
        /\ hilo[w].pc = "cierra" /\ Ocupado(w) /\ Fase(c, "fin")
    BY DEF Cierra, En, Ocupado, Fase
  <1>2. /\ \A v \in Workers \ {w} : hilo'[v] = hilo[v]
        /\ hilo'[w].pc = "libre"
    BY <1>0 DEF Cierra, Libre, MemoriaOK
  <1>3. \A v \in Workers : /\ Ocupado(v)' => v # w /\ Ocupado(v)
                           /\ Ejecutado(v)' => v # w /\ Ejecutado(v)
                           /\ v # w => (Ejecutado(v)' <=> Ejecutado(v))
    BY <1>2 DEF Ocupado, Ejecutado
  <1>4. c \in Conexiones
    BY <1>0, <1>1, Sitios
  <1>5. /\ \A d \in Conexiones \ {c} : cliente'[d] = cliente[d]
        /\ cliente'[c].fase = "fin" /\ cliente'[c].aceptada = cliente[c].aceptada
        /\ cliente'[c].sol = cliente[c].sol /\ cliente'[c].k = cliente[c].k
        /\ cliente'[c].status = cliente[c].status
    <2>1. cliente'[c] = [cliente[c] EXCEPT !.fase = "fin"] /\ cliente[c] \in EstadoCliente
      BY <1>0, <1>1, <1>4, ClienteFase DEF MemoriaOK
    <2> QED BY <1>0, <1>1, <1>4, <2>1, ClienteFase DEF EstadoCliente
  <1>6. /\ \A i \in EnCola : cola[i].con # c
        /\ \A v \in Workers \ {w} : Ocupado(v) => hilo[v].con # c
    BY <1>0, <1>1 DEF LugarInv
  <1> HIDE DEF c
  <1>7. LugarInv'
    <2>1. /\ \A d \in Conexiones : /\ cliente'[d].aceptada = cliente[d].aceptada
                                   /\ Tratada(d) => Tratada(d)'
          /\ leyendo' # Nadie => cliente'[leyendo'].aceptada
      BY <1>0, <1>1, <1>5 DEF Tratada, LugarInv, MemoriaOK
    <2>2. \A v \in Workers : Ocupado(v)' =>
            /\ Tratada(hilo[v].con)' /\ hilo'[v].con = hilo[v].con
            /\ ~Ejecutado(v)' => \A j \in EnHistoria : historia[j].con # hilo'[v].con
            /\ Ejecutado(v)' => /\ Len(historia) > 0
                                /\ Ultima.con = hilo'[v].con
                                /\ Ultima.status = hilo'[v].status
                                /\ Ultima.lista = hilo'[v].lista
      BY <1>0, <1>2, <1>3, <2>1, Sitios DEF LugarInv
    <2> QED BY SMTT(30), <1>0, <1>1, <1>2, <1>3, <2>1, <2>2, Sitios DEF LugarInv, Ultima
  <1>8. FaseInv'
    <2>1. \A i \in EnCola : cliente'[cola[i].con].fase \in {"enviada", "cortada"}
      BY <1>0, <1>5, <1>6, Sitios DEF FaseInv
    <2>2. \A v \in Workers :
            hilo'[v].pc \in {"espera", "trata", "envia", "lista", "cuelga"} =>
              cliente'[hilo'[v].con].fase \in {"enviada", "cortada"}
      BY <1>0, <1>2, <1>5, <1>6, Sitios DEF FaseInv, Ocupado
    <2>3. \A d \in Conexiones :
            cliente'[d].fase \in {"nueva", "pide", "enviada"} =>
              cliente'[d].lista = {}
      BY <1>0, <1>5 DEF FaseInv
    <2>4. \A v \in Workers : Ejecutado(v)' /\ ~HayLista(v)' => hilo'[v].lista = {}
      BY <1>0, <1>2, <1>3 DEF FaseInv, HayLista
    <2> QED BY <1>1, <2>1, <2>2, <2>3, <2>4 DEF FaseInv
  <1>9. CamposInv'
    <2>1. ASSUME NEW d \in Conexiones, NEW q, Propio(q, cliente[d])
          PROVE  Propio(q, cliente'[d])
      BY <1>5, <2>1, PropioIgual
    <2>2. (\A i \in EnCola : Propio(cola[i].pet, cliente[cola[i].con]))'
      BY <1>0, <1>1, <2>1, Sitios DEF CamposInv
    <2>3. (\A v \in Workers : Ocupado(v) => Propio(hilo[v].pet, cliente[hilo[v].con]))'
      BY <1>0, <1>2, <1>3, <2>1, Sitios DEF CamposInv
    <2>4. (\A i \in EnHistoria : Propio(historia[i].pet, cliente[historia[i].con]))'
      BY <1>0, <1>1, <2>1, Sitios DEF CamposInv
    <2> QED BY <2>2, <2>3, <2>4 DEF CamposInv
  <1>10. LogInv'
    <2>1. \A v \in Workers : Ejecutado(v)' /\ hilo'[v].pc # "cierra" =>
            /\ hilo'[v].con \notin rpc
            /\ \A i \in 1 .. Len(log) : log[i].con # hilo'[v].con
      BY <1>0, <1>2, <1>3 DEF LogInv
    <2> QED BY <1>0, <1>1, <2>1 DEF LogInv
  <1>11. FielInv'
    BY <1>0, <1>1, <1>5 DEF FielInv
  <1> QED BY <1>7, <1>8, <1>9, <1>10, <1>11

\* The memory of the process is lost, and what the clients saw is not.
LEMMA HistMuere ==
  ASSUME HistInv, Muere
  PROVE  LugarInv' /\ FaseInv' /\ CamposInv' /\ LogInv' /\ FielInv'
  <1> USE DEF EnCola, EnHistoria
  <1>0. MemoriaOK /\ LugarInv /\ FaseInv /\ CamposInv /\ LogInv /\ FielInv
    BY DEF HistInv
  <1>1. UNCHANGED <<historia, log, rpc>> /\ PierdeMemoria
    BY DEF Muere
  <1>2. Len(cola') = 0 /\ \A w \in Workers : hilo'[w].pc = "libre"
    BY <1>0, <1>1, PierdeMemoriaTipos
  <1>3. ASSUME NEW c \in Conexiones
        PROVE  /\ cliente'[c].aceptada = cliente[c].aceptada
               /\ cliente'[c].sol = cliente[c].sol /\ cliente'[c].k = cliente[c].k
               /\ cliente'[c].status = cliente[c].status
               /\ \/ cliente'[c] = cliente[c] /\ cliente[c].fase = "nueva"
                  \/ cliente'[c].fase = "fin"
    <2>1. cliente[c] \in EstadoCliente
      BY <1>0 DEF MemoriaOK
    <2>2. \/ cliente[c].fase = "nueva" /\ cliente'[c] = cliente[c]
          \/ cliente'[c] = [cliente[c] EXCEPT !.fase = "fin"]
      BY <1>0, <1>1, PierdeMemoriaTipos
    <2> QED BY <2>1, <2>2 DEF EstadoCliente
  <1>4. LugarInv'
    BY ServidorAssumption, <1>0, <1>1, <1>2, <1>3, Sitios, PierdeMemoriaTipos
    DEF LugarInv, Ocupado, Tratada
  <1>5. FaseInv'
    BY <1>0, <1>2, <1>3 DEF FaseInv, Ejecutado
  <1>6. CamposInv'
    <2>1. ASSUME NEW d \in Conexiones, NEW q, Propio(q, cliente[d])
          PROVE  Propio(q, cliente'[d])
      BY <1>3, <2>1, PropioIgual
    <2>2. (\A i \in EnHistoria : Propio(historia[i].pet, cliente[historia[i].con]))'
      BY <1>0, <1>1, <2>1, Sitios DEF CamposInv
    <2>3. (\A i \in EnCola : Propio(cola[i].pet, cliente[cola[i].con]))'
      BY <1>2
    <2>4. (\A w \in Workers : Ocupado(w) => Propio(hilo[w].pet, cliente[hilo[w].con]))'
      BY <1>2 DEF Ocupado
    <2> QED BY <2>2, <2>3, <2>4 DEF CamposInv
  <1>7. LogInv'
    BY <1>0, <1>1, <1>2 DEF LogInv, Ejecutado
  <1>8. FielInv'
    BY <1>0, <1>1, <1>3 DEF FielInv
  <1> QED BY <1>4, <1>5, <1>6, <1>7, <1>8

\* The operation: the request enters the history, the last of it.
LEMMA HistResuelve ==
  ASSUME HistInv, NEW w \in Workers, NEW s, NEW l, Resuelve(w, s, l),
         hilo[w].pc = "trata",
         \/ l = {}
         \/ s = 0 /\ hilo[w].pet.command_str \in {"LIST_USERS", "LIST_CONTENT"},
         UNCHANGED <<cola, cliente, log, rpc, leyendo>>
  PROVE  LugarInv' /\ FaseInv' /\ CamposInv' /\ LogInv' /\ FielInv'
  <1> USE DEF EnCola, EnHistoria
  <1> DEFINE c == hilo[w].con
             n == Len(historia) + 1
  <1>0. MemoriaOK /\ LugarInv /\ FaseInv /\ CamposInv /\ LogInv /\ FielInv /\ MutexInv
    BY DEF HistInv
  <1>1. /\ Ocupado(w) /\ ~Ejecutado(w) /\ c \in Conexiones
        /\ hilo[w] \in EstadoHilo
    BY <1>0, Sitios DEF Ocupado, Ejecutado, MemoriaOK
  <1>2. /\ \A v \in Workers \ {w} : hilo'[v] = hilo[v] /\ ~Ejecutado(v)
        /\ hilo'[w].pc = "envia" /\ hilo'[w].con = c
        /\ hilo'[w].pet = hilo[w].pet /\ hilo'[w].status = s
        /\ hilo'[w].lista = l
    <2>1. hilo' = [hilo EXCEPT ![w] = [hilo[w] EXCEPT !.pc = "envia", !.status = s,
                                                      !.lista = l]]
      BY <1>0 DEF Resuelve, MemoriaOK
    <2>2. \A v \in Workers \ {w} : ~Ejecutado(v)
      BY <1>0 DEF MutexInv, Critica
    <2> QED BY <1>0, <1>1, <2>1, <2>2 DEF MemoriaOK, EstadoHilo
  <1>3. /\ n \in Nat /\ n > 0 /\ Len(historia) \in Nat /\ Len(historia') = n
        /\ \A j \in 1 .. Len(historia) : /\ historia'[j] = historia[j]
                                         /\ j \in 1 .. Len(historia')
        /\ historia'[n].con = c /\ historia'[n].status = s
        /\ historia'[n].lista = l /\ historia'[n].pet = hilo[w].pet
    <2> DEFINE x == [con |-> hilo[w].con, pet |-> hilo[w].pet, status |-> s, lista |-> l]
    <2>1. historia \in Seq(Ejecucion) /\ historia' = Append(historia, x)
      BY <1>0 DEF MemoriaOK, Resuelve
    <2>2. /\ x.con = c /\ x.status = s /\ x.lista = l /\ x.pet = hilo[w].pet
      OBVIOUS
    <2> HIDE DEF x
    <2> QED BY <2>1, <2>2
  <1>4. /\ \A j \in 1 .. Len(historia) : historia[j].con # c
        /\ \A v \in Workers \ {w} : Ocupado(v) => hilo[v].con # c
        /\ \A i \in EnCola : cola[i].con # c
        /\ Tratada(c)
    BY <1>0, <1>1 DEF LugarInv
  <1>5. \A j \in 1 .. Len(historia') :
          \/ j \in 1 .. Len(historia) /\ historia'[j] = historia[j]
          \/ j = n
    BY <1>3
  <1>6. \A v \in Workers : /\ Ocupado(v)' <=> Ocupado(v)
                           /\ hilo'[v].con = hilo[v].con
                           /\ hilo'[v].pet = hilo[v].pet
                           /\ Ejecutado(v)' => v = w
    BY <1>1, <1>2 DEF Ocupado, Ejecutado
  <1> HIDE DEF c, n
  <1>7. LugarInv'
    <2>1. \A i, j \in 1 .. Len(historia') : historia'[i].con = historia'[j].con => i = j
      BY <1>0, <1>3, <1>4, <1>5 DEF LugarInv
    <2>2. \A i \in EnCola :
            /\ Tratada(cola[i].con)
            /\ \A v \in Workers : Ocupado(v)' => hilo'[v].con # cola[i].con
            /\ \A j \in 1 .. Len(historia') : historia'[j].con # cola[i].con
      BY <1>0, <1>3, <1>4, <1>5, <1>6 DEF LugarInv
    <2>3. ASSUME NEW v \in Workers, Ocupado(v)'
          PROVE  /\ Tratada(hilo'[v].con)
                 /\ ~Ejecutado(v)' => \A j \in 1 .. Len(historia') :
                                        historia'[j].con # hilo'[v].con
                 /\ Ejecutado(v)' => /\ Len(historia') > 0
                                     /\ historia'[Len(historia')].con = hilo'[v].con
                                     /\ historia'[Len(historia')].status = hilo'[v].status
                                     /\ historia'[Len(historia')].lista = hilo'[v].lista
      <3>1. CASE v = w
        BY <1>2, <1>3, <1>4, <3>1 DEF Ejecutado
      <3>2. CASE v # w
        <4>1. Ocupado(v) /\ ~Ejecutado(v) /\ hilo'[v].con = hilo[v].con /\ hilo[v].con # c
          BY <1>2, <1>4, <1>6, <2>3, <3>2
        <4>2. Tratada(hilo[v].con)
              /\ \A j \in 1 .. Len(historia) : historia[j].con # hilo[v].con
          BY <1>0, <4>1 DEF LugarInv
        <4> QED BY <1>3, <1>5, <1>6, <3>2, <4>1, <4>2
      <3> QED BY <3>1, <3>2
    <2>4. \A j \in 1 .. Len(historia') : Tratada(historia'[j].con)
      BY <1>0, <1>3, <1>4, <1>5 DEF LugarInv
    <2>5. leyendo' # Nadie => cliente'[leyendo'].aceptada
      BY <1>0 DEF LugarInv
    <2> QED BY <1>0, <1>6, <2>1, <2>2, <2>3, <2>4, <2>5 DEF LugarInv, Ultima, Tratada
  <1>8. FaseInv'
    <2>1. \A v \in Workers :
            hilo'[v].pc \in {"espera", "trata", "envia", "lista", "cuelga"} =>
              hilo[v].pc \in {"espera", "trata", "envia", "lista", "cuelga"}
      BY <1>2
    <2>2. \A v \in Workers : Ejecutado(v)' /\ ~HayLista(v)' => hilo'[v].lista = {}
      BY <1>2, <1>6 DEF HayLista
    <2> QED BY <1>0, <1>6, <2>1, <2>2 DEF FaseInv
  <1>9. CamposInv'
    <2>1. (\A i \in EnHistoria : Propio(historia[i].pet, cliente[historia[i].con]))'
      <3>1. \A j \in 1 .. Len(historia) : Propio(historia[j].pet, cliente[historia[j].con])
        BY <1>0 DEF CamposInv
      <3>2. Propio(hilo[w].pet, cliente[c])
        BY <1>0, <1>1 DEF CamposInv, c
      <3>3. ASSUME NEW j \in 1 .. Len(historia')
            PROVE  Propio(historia'[j].pet, cliente[historia'[j].con])
        BY <1>3, <1>5, <3>1, <3>2
      <3> QED BY <3>3
    <2>2. (\A v \in Workers : Ocupado(v) => Propio(hilo[v].pet, cliente[hilo[v].con]))'
      BY <1>0, <1>6 DEF CamposInv
    <2>3. (\A i \in EnCola : Propio(cola[i].pet, cliente[cola[i].con]))'
      BY <1>0 DEF CamposInv
    <2> QED BY <2>1, <2>2, <2>3 DEF CamposInv
  \* Nothing of the log is about c, which had not been executed.
  <1>10. LogInv'
    <2>1. c \notin rpc /\ \A i \in 1 .. Len(log) : log[i].con # c
      BY <1>0, <1>4 DEF LogInv
    <2>2. \A d \in rpc : \E j \in 1 .. Len(historia') : historia'[j].con = d
      BY <1>0, <1>3 DEF LogInv
    <2>3. \A i \in 1 .. Len(log) :
            /\ log[i].con \notin rpc
            /\ \E j \in 1 .. Len(historia') : historia'[j].con = log[i].con
            /\ \A j \in 1 .. Len(log) : log[i].con = log[j].con => i = j
      BY <1>0, <1>3 DEF LogInv
    <2>4. \A v \in Workers : Ejecutado(v)' /\ hilo'[v].pc # "cierra" =>
            /\ hilo'[v].con \notin rpc
            /\ \A i \in 1 .. Len(log) : log[i].con # hilo'[v].con
      BY <1>2, <1>6, <2>1
    <2>5. EnOrden(log, historia')
      <3>1. ASSUME NEW i \in 1 .. Len(log), NEW a \in 1 .. Len(historia'),
                   historia'[a].con = log[i].con
            PROVE  a \in 1 .. Len(historia) /\ historia[a].con = log[i].con
        BY <1>3, <1>5, <2>1, <3>1
      <3>2. EnOrden(log, historia)
        BY <1>0 DEF LogInv
      <3> QED BY <3>1, <3>2 DEF EnOrden
    <2> QED BY <2>2, <2>3, <2>4, <2>5 DEF LogInv
  <1>11. FielInv'
    <2>1. \A i \in 1 .. Len(historia) : i \in 1 .. Len(historia') /\ historia'[i] = historia[i]
      BY <1>3
    <2>2. ASSUME NEW d \in Conexiones, cliente[d].status # -1
          PROVE  \E i \in 1 .. Len(historia') :
                   /\ historia'[i].con = d
                   /\ historia'[i].status = cliente[d].status
                   /\ cliente[d].fase \in {"respondida", "fechada"} =>
                        historia'[i].lista = cliente[d].lista
      BY <1>0, <2>1, <2>2 DEF FielInv
    <2> QED BY <2>2 DEF FielInv
  <1> QED BY <1>7, <1>8, <1>9, <1>10, <1>11

LEMMA HistEjecuta ==
  ASSUME HistInv, NEW w \in Workers, Ejecuta(w)
  PROVE  LugarInv' /\ FaseInv' /\ CamposInv' /\ LogInv' /\ FielInv'
  <1>1. hilo[w].pc = "trata" /\ UNCHANGED <<cola, cliente, log, rpc, leyendo>>
    BY DEF Ejecuta, En
  <1>2. hilo[w].pet \in Peticion /\ DiscoInv
    BY DEF HistInv, MemoriaOK, EstadoHilo
  <1>3. ASSUME NEW r \in Lista(hilo[w].pet), Resuelve(w, r[1], r[2])
        PROVE  LugarInv' /\ FaseInv' /\ CamposInv' /\ LogInv' /\ FielInv'
    <2>1. \/ r[2] = {}
          \/ r[1] = 0 /\ hilo[w].pet.command_str \in {"LIST_USERS", "LIST_CONTENT"}
      BY <1>2, ListaVeraz
    <2> QED BY <1>1, <1>3, <2>1, HistResuelve
  <1>4. ASSUME NEW s, Resuelve(w, s, {})
        PROVE  LugarInv' /\ FaseInv' /\ CamposInv' /\ LogInv' /\ FielInv'
    BY <1>1, <1>4, HistResuelve
  <1>5. CASE Pasa(w, "cuelga") /\ UNCHANGED historia
    BY <1>1, <1>5, HistPasa
  <1> QED BY <1>3, <1>4, <1>5 DEF Ejecuta

-------------------------------------------------------------------------------
(* The invariant holds. *)

LEMMA InitHist == Init => HistInv
  <1> SUFFICES ASSUME Init PROVE HistInv
    OBVIOUS
  <1>1. MemoriaOK /\ DiscoInv /\ MutexInv
    BY InitSrv DEF SrvInv
  <1>2. /\ Len(cola) = 0 /\ Len(historia) = 0 /\ Len(log) = 0 /\ rpc = {}
        /\ leyendo = Nadie
        /\ \A w \in Workers : hilo[w].pc = "libre"
        /\ \A c \in Conexiones : /\ cliente[c].aceptada = FALSE
                                 /\ cliente[c].lista = {} /\ cliente[c].status = -1
    BY DEF Init, Libre, Nueva
  <1> QED
    BY <1>1, <1>2
    DEF HistInv, LugarInv, FaseInv, CamposInv, LogInv, EnOrden, FielInv, EnCola,
        EnHistoria, Ocupado, Ejecutado

LEMMA StepHist ==
  ASSUME SrvInv, SrvInv', HistInv, [Next]_vars
  PROVE  HistInv'
  <1> DEFINE Objetivo == LugarInv' /\ FaseInv' /\ CamposInv' /\ LogInv' /\ FielInv'
  <1>1. MemoriaOK' /\ DiscoInv' /\ MutexInv'
    BY DEF SrvInv
  <1>2. MemoriaOK /\ LugarInv
    BY DEF HistInv
  <1>3. ASSUME \/ \E c \in Conexiones : ClientePaso(c) \/ Acepta(c) \/ ErrorLectura(c)
               \/ Arranca \/ UNCHANGED vars
        PROVE  Objetivo
    BY <1>2, <1>3, PasosAparte, HistAparte
  <1>4. ASSUME NEW c \in Conexiones, Encola(c) PROVE Objetivo
    BY <1>4, HistEncola
  <1>5. ASSUME NEW c \in Conexiones, LlegaTarde(c) PROVE Objetivo
    BY <1>5, HistTarde
  <1>6. ASSUME NEW w \in Workers, Saca(w) PROVE Objetivo
    BY <1>6, HistSaca
  <1>7. ASSUME NEW w \in Workers, LockTuples(w) PROVE Objetivo
    BY <1>7, HistPasa DEF LockTuples, En
  <1>8. ASSUME NEW w \in Workers, Ejecuta(w) PROVE Objetivo
    BY <1>8, HistEjecuta
  <1>9. ASSUME NEW w \in Workers, EnviaStatus(w) \/ EnviaLista(w) PROVE Objetivo
    BY <1>9, HistEnvia
  <1>10. ASSUME NEW w \in Workers, LeeFecha(w) PROVE Objetivo
    BY <1>10, HistPasa DEF LeeFecha, En
  <1>11. ASSUME NEW w \in Workers, SendLog(w) PROVE Objetivo
    BY <1>11, HistSendLog
  <1>12. ASSUME NEW w \in Workers, Cierra(w) PROVE Objetivo
    BY <1>12, HistCierra
  <1>13. ASSUME \/ ProcesoMuere \/ Termina
                \/ \E w \in Workers : MuereEjecutando(w)
         PROVE  Objetivo
    <2>1. Muere
      BY <1>13 DEF ProcesoMuere, Termina, MuereEjecutando, Muere
    <2> QED BY <2>1, HistMuere
  <1>14. Objetivo
    <2> HIDE DEF Objetivo
    <2> QED
      BY <1>3, <1>4, <1>5, <1>6, <1>7, <1>8, <1>9, <1>10, <1>11, <1>12, <1>13
      DEF Next, MainPaso, WorkerPaso
  <1> QED BY <1>1, <1>14 DEF HistInv

LEMMA HistInvariante == Spec => []HistInv
  <1>1. SrvInv /\ SrvInv' /\ HistInv /\ [Next]_vars => HistInv'
    BY StepHist
  <1> QED BY <1>1, InitHist, SrvInvariante, PTL DEF Spec

-------------------------------------------------------------------------------
(* The theorems. *)

\* A request is executed at most once, whoever dies and however often the
\* server is started again, and the status and the listing that reach its
\* client are those of that execution, never those of another request that a
\* worker or main's reused struct went through.
THEOREM CadaUnoLoSuyo == Spec => []RespuestaFiel
  <1>1. HistInv => RespuestaFiel
    <2> SUFFICES ASSUME HistInv PROVE RespuestaFiel
      OBVIOUS
    <2>1. DOMAIN historia = EnHistoria
      BY DEF HistInv, MemoriaOK, EnHistoria
    <2> QED BY <2>1 DEF HistInv, LugarInv, FielInv, RespuestaFiel
  <1> QED BY <1>1, HistInvariante, PTL

\* The fields with which a whole request is executed are those its client
\* sent: what an earlier request left in main's struct is never in them.
THEOREM SinRestosDeOtra == Spec => []CamposPropios
  <1>1. HistInv => CamposPropios
    <2> SUFFICES ASSUME HistInv PROVE CamposPropios
      OBVIOUS
    <2>1. DOMAIN historia = EnHistoria
      BY DEF HistInv, MemoriaOK, EnHistoria
    <2>2. \A com : DOMAIN EnElCable(com) = 1 .. Len(EnElCable(com))
      BY CableTipo
    <2>3. \A i \in EnHistoria : Propio(historia[i].pet, cliente[historia[i].con])
      BY DEF HistInv, CamposInv
    <2> QED BY <2>1, <2>2, <2>3 DEF Propio, CamposPropios
  <1> QED BY <1>1, HistInvariante, PTL

\* The log tells of each executed request once, of nothing else, and in the
\* order of execution, but for the calls that timed out and came late.
THEOREM ElLogEsFiel == Spec => []LogEnOrden
  <1>1. HistInv => LogEnOrden
    <2> SUFFICES ASSUME HistInv PROVE LogEnOrden
      OBVIOUS
    <2>1. DOMAIN historia = EnHistoria /\ DOMAIN log = 1 .. Len(log)
      BY DEF HistInv, MemoriaOK, EnHistoria
    <2>2. LugarInv /\ LogInv
      BY DEF HistInv
    <2>3. ASSUME NEW i \in 1 .. Len(log)
          PROVE  /\ Posicion(log[i].con) \in EnHistoria
                 /\ historia[Posicion(log[i].con)].con = log[i].con
      BY <2>1, <2>2 DEF LogInv, Posicion
    <2>4. ASSUME NEW i \in 1 .. Len(log), NEW j \in 1 .. Len(log),
                 i < j, log[i].aTiempo, log[j].aTiempo
          PROVE  Posicion(log[i].con) < Posicion(log[j].con)
      <3>1. EnOrden(log, historia)
        BY <2>2 DEF LogInv
      <3> QED BY <2>3, <2>4, <3>1 DEF EnOrden, EnHistoria
    <2> QED BY <2>1, <2>2, <2>4 DEF LogInv, LogEnOrden
  <1> QED BY <1>1, HistInvariante, PTL
===============================================================================
