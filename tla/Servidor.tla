------------------------------- MODULE Servidor -------------------------------
(***************************************************************************)
(* The server of servidor/ with its clients and the log service around it. *)
(* A client opens one connection per request, sends the fields, waits for  *)
(* the status and the listing, sends its date and closes; it may stop for  *)
(* ever, or die, at any point.  main() accepts a connection, waits for its *)
(* whole request, which it reads into one `pet` that it reuses, and queues *)
(* it (here the queue of ColaPeticiones, which ThreadPool implements).  A  *)
(* worker takes it and, under mutex_tuples, goes through                   *)
(* the stages of tratar_peticion(): the operation on the directories of    *)
(* Platform, the answer, the date, the remote call that logs the request.  *)
(* The process may die and be started again over the same directories.     *)
(***************************************************************************)
EXTENDS Platform

CONSTANTS
  Workers,         \* the threads of the pool
  Conexiones,      \* connections, one request each
  Solicitudes,     \* the requests that clients make
  MAX_PETICIONES,  \* capacity of the queue
  MAX_ARRANQUES,   \* bound: lives of the process; it dies only if one is left
  Cortes,          \* may clients die in the middle of a request?
  Basura,          \* content of a field of main's `pet` never written
  Nadie            \* "no thread"

\* The fields of struct peticion; ip and port of a peer are one.
Campos == {"command_str", "client_user_name", "user_addr", "file_name",
           "description", "user_name"}

\* The commands that tratar_peticion knows.
Operaciones == {"REGISTER", "UNREGISTER", "CONNECT", "DISCONNECT", "PUBLISH",
                "DELETE", "LIST_USERS", "LIST_CONTENT"}

Peticion == [command_str : Operaciones \cup {Basura}, client_user_name : Nombres,
             user_addr : Direcciones \cup {Basura},
             file_name : Ficheros \cup {Basura},
             description : Descripciones \cup {Basura}, user_name : Nombres]

\* What the two directories may hold: an unwritten field is written as it is.
EntradasEnDisco == (Ficheros \cup {Basura}) \X (Descripciones \cup {Basura})
Destinos == Direcciones \cup {Basura, Vacio}

ASSUME ServidorAssumption ==
  /\ MAX_PETICIONES \in Nat \ {0}
  /\ MAX_ARRANQUES \in Nat \ {0}
  /\ Cortes \in BOOLEAN
  /\ Basura \in Nombres           \* a name that is never told whole is a name
  /\ Basura \notin Operaciones    \* also any command the server does not know
  /\ Solicitudes \subseteq Peticion
  /\ Nadie \notin Workers
  /\ NoFile \notin Seq(EntradasEnDisco) \cup Destinos
  /\ Ilegible \notin Seq(EntradasEnDisco)
  /\ Nadie \notin Conexiones

VARIABLES
  servidor,       \* "abierto", "cerrado" (main left its loop), "muerto"
  arranques,      \* how many times it has been started
  leyendo,        \* the connection main has accepted and is reading
  pet,            \* main's local, reused for every request
  cola,           \* requests read and not yet taken by a worker
  mutex_tuples,   \* its owner
  hilo,           \* each worker: where it is, and its locals
  cliente,        \* each connection, as the client sees it
  historia,       \* the operations executed, in order, with their results
  log,            \* what the log service has printed
  rpc             \* log calls that timed out and may still be delivered

vars == <<disco, servidor, arranques, leyendo, pet, cola, mutex_tuples, hilo,
          cliente, historia, log, rpc>>

PetBasura == [c \in Campos |-> Basura]

\* The fields a request has on the wire, in order (read_to_pet).
EnElCable(command) ==
  CASE command = "CONNECT" -> <<"command_str", "client_user_name", "user_addr">>
    [] command = "PUBLISH" ->
         <<"command_str", "client_user_name", "file_name", "description">>
    [] command = "DELETE" -> <<"command_str", "client_user_name", "file_name">>
    [] command = "LIST_CONTENT" -> <<"command_str", "client_user_name", "user_name">>
    [] OTHER -> <<"command_str", "client_user_name">>

\* Mutant of read_to_pet: the branch of PUBLISH does not read the description.
read_to_petSinTexto(viejo, sol, k) ==
  LET cable == EnElCable(IF sol.command_str = "PUBLISH" THEN "DELETE"
                         ELSE sol.command_str)
  IN  [c \in Campos |-> IF \E i \in DOMAIN cable : i <= k /\ cable[i] = c
                        THEN sol[c] ELSE viejo[c]]

\* The first k fields of sol over the previous content of main's struct: at the
\* end of the stream readLine returns 0 and leaves its buffer as it was.
read_to_pet(viejo, sol, k) ==
  LET leidos == SubSeq(EnElCable(sol.command_str), 1, k)
  IN  [c \in Campos |-> IF Contains(leidos, c) THEN sol[c] ELSE viejo[c]]

Libre == [pc |-> "libre", con |-> Nadie, pet |-> PetBasura, status |-> 0,
          lista |-> {}]
Nueva == [fase |-> "nueva", sol |-> PetBasura, k |-> 0, aceptada |-> FALSE,
          status |-> -1, lista |-> {}]

Init ==
  /\ InitPlatform
  /\ servidor = "abierto"
  /\ arranques = 1
  /\ leyendo = Nadie
  /\ pet = PetBasura
  /\ cola = <<>>
  /\ mutex_tuples = Nadie
  /\ hilo = [w \in Workers |-> Libre]
  /\ cliente = [c \in Conexiones |-> Nueva]
  /\ historia = <<>>
  /\ log = <<>>
  /\ rpc = {}

-------------------------------------------------------------------------------
(* The clients. *)

Fase(c, f) == cliente' = [cliente EXCEPT ![c].fase = f]

Servicio == <<disco, servidor, arranques, leyendo, pet, cola, mutex_tuples, hilo,
              historia, log, rpc>>

\* connect: the kernel has the connection, whatever main is doing.  From here until
\* ClienteEnvia the client is there and has not sent everything; how much it has
\* sent makes a difference only if it dies (ClienteCorta).
ClienteConecta(c, s) ==
  /\ servidor # "muerto"
  /\ cliente[c].fase = "nueva"
  /\ cliente' = [cliente EXCEPT ![c].fase = "pide", ![c].sol = s]
  /\ UNCHANGED Servicio

\* sendall of the last field.
ClienteEnvia(c) ==
  /\ cliente[c].fase = "pide"
  /\ cliente' = [cliente EXCEPT ![c].fase = "enviada",
                                ![c].k = Len(EnElCable(cliente[c].sol.command_str))]
  /\ UNCHANGED Servicio

\* The client dies having sent k fields, not all of them.
ClienteCorta(c, k) ==
  /\ Cortes
  /\ cliente[c].fase = "pide"
  /\ k < Len(EnElCable(cliente[c].sol.command_str))
  /\ cliente' = [cliente EXCEPT ![c].fase = "cortada", ![c].k = k,
                                ![c].sol = read_to_pet(PetBasura, @, k)]
  /\ UNCHANGED Servicio

\* The client dies after sending its request.
ClienteAbandona(c) ==
  /\ Cortes
  /\ cliente[c].fase \in {"enviada", "respondida"}
  /\ Fase(c, "cortada")
  /\ UNCHANGED Servicio

\* The client has its answer: it sends the date and closes.
ClienteFecha(c) ==
  /\ cliente[c].fase = "respondida"
  /\ Fase(c, "fechada")
  /\ UNCHANGED Servicio

-------------------------------------------------------------------------------
(* main(): accept, read_to_pet and the queue. *)

\* accept: the connections that the kernel holds, in any order.
Acepta(c) ==
  /\ servidor = "abierto"
  /\ leyendo = Nadie
  /\ cliente[c].fase \in {"pide", "enviada", "cortada"}
  /\ ~cliente[c].aceptada
  /\ leyendo' = c
  /\ cliente' = [cliente EXCEPT ![c].aceptada = TRUE]
  /\ UNCHANGED <<disco, servidor, arranques, pet, cola, mutex_tuples, hilo,
                 historia, log, rpc>>

\* Mutant of Encola: main does not wait for a free slot.
EncolaSinEsperar(c) ==
  /\ servidor = "abierto"
  /\ leyendo = c
  /\ cliente[c].fase \in {"enviada", "cortada"}
  /\ leyendo' = Nadie
  /\ pet' = read_to_pet(pet, cliente[c].sol, cliente[c].k)
  /\ cola' = Append(cola, [con |-> c, pet |-> pet'])
  /\ UNCHANGED <<disco, servidor, arranques, mutex_tuples, hilo, cliente,
                 historia, log, rpc>>

\* read_to_pet, which comes back when the client has sent everything or is gone
\* and has no time limit, and the insertion in the queue.
Encola(c) ==
  /\ servidor = "abierto"
  /\ leyendo = c
  /\ cliente[c].fase \in {"enviada", "cortada"}
  /\ Len(cola) < MAX_PETICIONES
  /\ leyendo' = Nadie
  /\ pet' = read_to_pet(pet, cliente[c].sol, cliente[c].k)
  /\ cola' = Append(cola, [con |-> c, pet |-> pet'])
  /\ UNCHANGED <<disco, servidor, arranques, mutex_tuples, hilo, cliente,
                 historia, log, rpc>>

\* readLine returns -1 (the client's end was reset): main closes the socket and
\* leaves its loop.
ErrorLectura(c) ==
  /\ servidor = "abierto"
  /\ leyendo = c
  /\ cliente[c].fase = "cortada"
  /\ servidor' = "cerrado"
  /\ leyendo' = Nadie
  /\ Fase(c, "fin")
  /\ UNCHANGED <<disco, arranques, pet, cola, mutex_tuples, hilo, historia,
                 log, rpc>>

-------------------------------------------------------------------------------
(* servicio() and tratar_peticion(). *)

En(w, pc) == servidor # "muerto" /\ hilo[w].pc = pc

Pasa(w, pc) == hilo' = [hilo EXCEPT ![w].pc = pc]

\* Mutant of Saca: the request stays in the queue.
SacaSinQuitar(w) ==
  /\ En(w, "libre")
  /\ cola # <<>>
  /\ hilo' = [hilo EXCEPT ![w] = [Libre EXCEPT !.pc = "espera",
                                               !.con = Head(cola).con,
                                               !.pet = Head(cola).pet]]
  /\ UNCHANGED <<disco, servidor, arranques, leyendo, pet, cola, mutex_tuples, cliente,
                 historia, log, rpc>>

Saca(w) ==
  /\ En(w, "libre")
  /\ cola # <<>>
  /\ hilo' = [hilo EXCEPT ![w] = [Libre EXCEPT !.pc = "espera",
                                               !.con = Head(cola).con,
                                               !.pet = Head(cola).pet]]
  /\ cola' = Tail(cola)
  /\ UNCHANGED <<disco, servidor, arranques, leyendo, pet, mutex_tuples, cliente,
                 historia, log, rpc>>

\* Mutant of LockTuples: the mutex is not waited for.
LockTuplesSinEsperar(w) ==
  /\ En(w, "espera")
  /\ mutex_tuples' = w
  /\ Pasa(w, "trata")
  /\ UNCHANGED <<disco, servidor, arranques, leyendo, pet, cola, cliente, historia, log,
                 rpc>>

LockTuples(w) ==
  /\ En(w, "espera")
  /\ mutex_tuples = Nadie
  /\ mutex_tuples' = w
  /\ Pasa(w, "trata")
  /\ UNCHANGED <<disco, servidor, arranques, leyendo, pet, cola, cliente, historia, log,
                 rpc>>

Resuelve(w, s, l) ==
  /\ hilo' = [hilo EXCEPT ![w].pc = "envia", ![w].status = s, ![w].lista = l]
  /\ historia' = Append(historia, [con |-> hilo[w].con, pet |-> hilo[w].pet,
                                   status |-> s, lista |-> l])

\* The dispatch on command_str; with no known command the status is whatever
\* the variable held.
Ejecuta(w) ==
  /\ En(w, "trata")
  /\ \/ \E s \in 0 .. 4 : Modifica(hilo[w].pet, s) /\ Resuelve(w, s, {})
     \/ \E r \in Lista(hilo[w].pet) : Resuelve(w, r[1], r[2]) /\ UNCHANGED disco
     \/ /\ hilo[w].pet.command_str = Basura
        /\ \E s \in 0 .. 4 : Resuelve(w, s, {})
        /\ UNCHANGED disco
     \/ Cuelga(hilo[w].pet) /\ Pasa(w, "cuelga") /\ UNCHANGED <<disco, historia>>
  /\ UNCHANGED <<servidor, arranques, leyendo, pet, cola, mutex_tuples, cliente, log,
                 rpc>>

HayLista(w) ==
  hilo[w].status = 0 /\ hilo[w].pet.command_str \in {"LIST_USERS", "LIST_CONTENT"}

\* sendMessage to a client that is still there, which now has `campos`.
Entrega(w, campos, pc) ==
  LET c == hilo[w].con
  IN  /\ cliente[c].fase # "cortada"
      /\ cliente' = [cliente EXCEPT ![c] = campos]
      /\ Pasa(w, pc)

\* sendMessage to a client that is gone: the write is lost, or it fails.  (It
\* may also raise SIGPIPE: see ProcesoMuere.)
EnvioPerdido(w, pc) ==
  /\ cliente[hilo[w].con].fase = "cortada"
  /\ Pasa(w, pc) \/ Pasa(w, "cierra")
  /\ UNCHANGED cliente

\* Mutant of EnviaStatus: the mutex is held only for the operation.
EnviaStatusSoltando(w) ==
  LET c == hilo[w].con
      sigue == IF HayLista(w) THEN "lista" ELSE "fecha"
  IN  /\ En(w, "envia")
      /\ mutex_tuples' = Nadie
      /\ \/ EnvioPerdido(w, sigue)
         \/ Entrega(w, [cliente[c] EXCEPT
                          !.status = hilo[w].status,
                          !.fase = IF HayLista(w) THEN @ ELSE "respondida"],
                    sigue)
      /\ UNCHANGED <<disco, servidor, arranques, leyendo, pet, cola, historia, log, rpc>>

EnviaStatus(w) ==
  LET c == hilo[w].con
      sigue == IF HayLista(w) THEN "lista" ELSE "fecha"
  IN  /\ En(w, "envia")
      /\ \/ EnvioPerdido(w, sigue)
         \/ Entrega(w, [cliente[c] EXCEPT
                          !.status = hilo[w].status,
                          !.fase = IF HayLista(w) THEN @ ELSE "respondida"],
                    sigue)
      /\ UNCHANGED <<disco, servidor, arranques, leyendo, pet, cola, mutex_tuples,
                     historia, log, rpc>>

EnviaLista(w) ==
  LET c == hilo[w].con
  IN  /\ En(w, "lista")
      /\ \/ EnvioPerdido(w, "fecha")
         \/ Entrega(w, [cliente[c] EXCEPT !.lista = hilo[w].lista,
                                          !.fase = "respondida"],
                    "fecha")
      /\ UNCHANGED <<disco, servidor, arranques, leyendo, pet, cola, mutex_tuples,
                     historia, log, rpc>>

\* Mutant of LeeFecha: the mutex is released before the request is logged.
LeeFechaSoltando(w) ==
  /\ En(w, "fecha")
  /\ mutex_tuples' = Nadie
  /\ \/ cliente[hilo[w].con].fase \in {"fechada", "cortada"} /\ Pasa(w, "log")
     \/ cliente[hilo[w].con].fase = "cortada" /\ Pasa(w, "cierra")
  /\ UNCHANGED <<disco, servidor, arranques, leyendo, pet, cola, cliente, historia, log,
                 rpc>>

\* readLine of the date: at the end of the stream it returns 0 and the request
\* goes on with an unwritten date; after a reset it is dropped without a log.
LeeFecha(w) ==
  /\ En(w, "fecha")
  /\ \/ cliente[hilo[w].con].fase \in {"fechada", "cortada"} /\ Pasa(w, "log")
     \/ cliente[hilo[w].con].fase = "cortada" /\ Pasa(w, "cierra")
  /\ UNCHANGED <<disco, servidor, arranques, leyendo, pet, cola, mutex_tuples, cliente,
                 historia, log, rpc>>

\* send_log: the call is answered; or it cannot be made; or it times out, and
\* the log service may still get it.
SendLog(w) ==
  /\ En(w, "log")
  /\ Pasa(w, "cierra")
  /\ \/ log' = Append(log, [con |-> hilo[w].con, aTiempo |-> TRUE])
        /\ UNCHANGED rpc
     \/ Fallos /\ UNCHANGED <<log, rpc>>
     \/ Fallos /\ rpc' = rpc \cup {hilo[w].con} /\ UNCHANGED log
  /\ UNCHANGED <<disco, servidor, arranques, leyendo, pet, cola, mutex_tuples, cliente,
                 historia>>

LlegaTarde(c) ==
  /\ c \in rpc
  /\ rpc' = rpc \ {c}
  /\ log' = Append(log, [con |-> c, aTiempo |-> FALSE])
  /\ UNCHANGED <<disco, servidor, arranques, leyendo, pet, cola, mutex_tuples, hilo,
                 cliente, historia>>

\* Mutant of Cierra: tratar_peticion returns and the unlock is missing.
CierraSinUnlock(w) ==
  /\ En(w, "cierra")
  /\ hilo' = [hilo EXCEPT ![w] = Libre]
  /\ cliente' = [cliente EXCEPT ![hilo[w].con].fase = "fin"]
  /\ UNCHANGED <<disco, servidor, arranques, leyendo, pet, cola, mutex_tuples, historia,
                 log, rpc>>

\* close of the client's socket, end of tratar_peticion and unlock.
Cierra(w) ==
  /\ En(w, "cierra")
  /\ hilo' = [hilo EXCEPT ![w] = Libre]
  /\ mutex_tuples' = Nadie
  /\ cliente' = [cliente EXCEPT ![hilo[w].con].fase = "fin"]
  /\ UNCHANGED <<disco, servidor, arranques, leyendo, pet, cola, historia, log, rpc>>

-------------------------------------------------------------------------------
(* Death and restart of the process. *)

\* Queue, locals and stages are lost and every descriptor is closed: clients
\* that were waiting are left alone.
PierdeMemoria ==
  /\ leyendo' = Nadie
  /\ pet' = PetBasura
  /\ cola' = <<>>
  /\ mutex_tuples' = Nadie
  /\ hilo' = [w \in Workers |-> Libre]
  /\ cliente' = [c \in Conexiones |->
                   IF cliente[c].fase = "nueva" THEN cliente[c]
                   ELSE [cliente[c] EXCEPT !.fase = "fin"]]

\* accept fails and main returns -1; SIGPIPE in a sendMessage; the machine goes
\* down.
ProcesoMuere ==
  /\ servidor # "muerto"
  /\ arranques < MAX_ARRANQUES
  /\ servidor' = "muerto"
  /\ PierdeMemoria
  /\ UNCHANGED <<disco, arranques, historia, log, rpc>>

\* The process dies with the operation under way: its effect, or a part of it, is
\* on disk and nobody is told.  LIST_USERS may be the cause of it.
MuereEjecutando(w) ==
  /\ En(w, "trata")
  /\ arranques < MAX_ARRANQUES
  /\ \/ \E s \in 0 .. 4 : Modifica(hilo[w].pet, s)
     \/ AMedias(hilo[w].pet)
     \/ Aborta(hilo[w].pet)
  /\ servidor' = "muerto"
  /\ PierdeMemoria
  /\ UNCHANGED <<arranques, historia, log, rpc>>

\* main returns: after the shutdown the queue is empty and the workers joined.
Termina ==
  /\ servidor = "cerrado"
  /\ cola = <<>>
  /\ \A w \in Workers : hilo[w].pc = "libre"
  /\ servidor' = "muerto"
  /\ PierdeMemoria
  /\ UNCHANGED <<disco, arranques, historia, log, rpc>>

\* The server is started again over the same directories.
Arranca ==
  /\ servidor = "muerto"
  /\ arranques < MAX_ARRANQUES
  /\ servidor' = "abierto"
  /\ arranques' = arranques + 1
  /\ UNCHANGED <<disco, leyendo, pet, cola, mutex_tuples, hilo, cliente, historia,
                 log, rpc>>

-------------------------------------------------------------------------------

ClientePaso(c) ==
  \/ \E s \in Solicitudes : ClienteConecta(c, s)
  \/ ClienteEnvia(c)
  \/ \E k \in 0 .. 3 : ClienteCorta(c, k)
  \/ ClienteAbandona(c)
  \/ ClienteFecha(c)

MainPaso == \E c \in Conexiones : Acepta(c) \/ Encola(c) \/ ErrorLectura(c)

WorkerPaso(w) ==
  \/ Saca(w) \/ LockTuples(w) \/ Ejecuta(w) \/ EnviaStatus(w) \/ EnviaLista(w)
  \/ LeeFecha(w) \/ SendLog(w) \/ Cierra(w)

Next ==
  \/ \E c \in Conexiones : ClientePaso(c) \/ LlegaTarde(c)
  \/ MainPaso
  \/ \E w \in Workers : WorkerPaso(w) \/ MuereEjecutando(w)
  \/ ProcesoMuere
  \/ Termina
  \/ Arranca

Spec == Init /\ [][Next]_vars

\* main and the threads run and their calls return; when main is free it accepts
\* every connection in turn, and a thread that asks for mutex_tuples gets it in
\* the end.  Nothing is assumed of clients, deaths, late calls or restarts.
Justicia ==
  /\ \A c \in Conexiones : SF_vars(Acepta(c)) /\ WF_vars(Encola(c))
  /\ \A w \in Workers : WF_vars(WorkerPaso(w)) /\ SF_vars(LockTuples(w))

SpecJusta == Spec /\ Justicia

-------------------------------------------------------------------------------
(* Properties. *)

\* A listing: users with their addresses, or numbered publications.
Listados ==
  (SUBSET (Nombres \X Destinos)) \cup (SUBSET (Nat \X EntradasEnDisco))

EstadoHilo == [pc : {"libre", "espera", "trata", "envia", "lista", "fecha",
                     "log", "cierra", "cuelga"},
               con : Conexiones \cup {Nadie}, pet : Peticion,
               status : 0 .. 4, lista : Listados]

EstadoCliente == [fase : {"nueva", "pide", "enviada", "respondida", "fechada",
                          "cortada", "fin"},
                  sol : Peticion, k : 0 .. 4, aceptada : BOOLEAN,
                  status : -1 .. 4, lista : Listados]

Ejecucion == [con : Conexiones, pet : Peticion, status : 0 .. 4,
              lista : Listados]

\* Every variable keeps its type.
TypeOK ==
  /\ dir_registered \in BOOLEAN /\ dir_active \in BOOLEAN
  /\ registered_users \in
       [Nombres -> Seq(EntradasEnDisco) \cup {NoFile, Ilegible}]
  /\ active_users \in [Nombres -> Destinos \cup {NoFile}]
  /\ servidor \in {"abierto", "cerrado", "muerto"}
  /\ arranques \in 1 .. MAX_ARRANQUES
  /\ leyendo \in Conexiones \cup {Nadie}
  /\ pet \in Peticion
  /\ cola \in Seq([con : Conexiones, pet : Peticion])
  /\ Len(cola) <= MAX_PETICIONES
  /\ mutex_tuples \in Workers \cup {Nadie}
  /\ hilo \in [Workers -> EstadoHilo]
  /\ \A w \in Workers : hilo[w].pc # "libre" => hilo[w].con \in Conexiones
  /\ cliente \in [Conexiones -> EstadoCliente]
  /\ historia \in Seq(Ejecucion)
  /\ log \in Seq([con : Conexiones, aTiempo : BOOLEAN])
  /\ rpc \subseteq Conexiones

\* A user never has the same path published twice, as far as the file can be
\* read and reads do not fail.
SinDuplicados ==
  \A u \in Nombres : Legible(u) =>
    \A i, j \in DOMAIN registered_users[u] :
      registered_users[u][i][1] = registered_users[u][j][1] => i = j

\* What an answer with status 0 tells the client: nothing that can be checked of
\* a file that is not legible, and nothing of a DELETE or a listing when the calls
\* that the code does not look at may fail (Ignorados).
Dice(p, l) ==
  LET u == p.client_user_name
      op == p.command_str
  IN  /\ op = "REGISTER" => registered_users[u] = <<>>
      /\ op = "UNREGISTER" => registered_users[u] = NoFile
      /\ op = "CONNECT" => active_users[u] = p.user_addr
      /\ op = "DISCONNECT" => active_users[u] = NoFile
      /\ op = "PUBLISH" /\ registered_users[u] # Ilegible =>
           Contains(registered_users[u], <<p.file_name, p.description>>)
      /\ op = "DELETE" /\ registered_users[u] # Ilegible /\ ~Ignorados =>
           ~Publicado(u, p.file_name)
      /\ op = "LIST_USERS" /\ ~Ignorados =>
           l = {<<n, active_users[n]>> :
                  n \in {m \in Nombres : active_users[m] # NoFile}}
      /\ op = "LIST_CONTENT" /\ registered_users[p.user_name] # Ilegible /\ ~Ignorados =>
           l = {<<i, registered_users[p.user_name][i]>> :
                  i \in DOMAIN registered_users[p.user_name]}

\* From the operation until the request is logged and closed the answer stays
\* true: no other request changes what the client is being told meanwhile.
RespuestaVigente ==
  \A w \in Workers :
    /\ servidor # "muerto"
    /\ hilo[w].pc \in {"envia", "lista", "fecha", "log", "cierra"}
    /\ hilo[w].status = 0
    => Dice(hilo[w].pet, hilo[w].lista)

\* Each connection's request is executed at most once, and the client that has
\* an answer has the status and the listing of that execution.
RespuestaFiel ==
  /\ \A i, j \in DOMAIN historia : historia[i].con = historia[j].con => i = j
  /\ \A c \in Conexiones : cliente[c].status # -1 =>
       \E i \in DOMAIN historia :
         /\ historia[i].con = c
         /\ historia[i].status = cliente[c].status
         /\ cliente[c].fase \in {"respondida", "fechada"} =>
              historia[i].lista = cliente[c].lista

\* A request that was sent whole is executed with the fields its client sent,
\* whatever main's reused struct held before.  (Fields under 256 bytes: longer ones
\* are the subject of Lineas.)
CamposPropios ==
  \A i \in DOMAIN historia :
    LET s == cliente[historia[i].con].sol
        campos == EnElCable(s.command_str)
    IN  cliente[historia[i].con].k = Len(campos) =>
          \A j \in DOMAIN campos : historia[i].pet[campos[j]] = s[campos[j]]

Posicion(c) == CHOOSE i \in DOMAIN historia : historia[i].con = c

\* The log tells the truth: a logged request was executed, none is logged
\* twice, and the entries logged in time are in the order of execution.
LogEnOrden ==
  /\ \A i \in DOMAIN log : \E j \in DOMAIN historia : historia[j].con = log[i].con
  /\ \A i \in DOMAIN log : log[i].con \notin rpc
  /\ \A i, j \in DOMAIN log :
       /\ log[i].con = log[j].con => i = j
       /\ i < j /\ log[i].aTiempo /\ log[j].aTiempo =>
            Posicion(log[i].con) < Posicion(log[j].con)

\* A user's files are changed only by the worker that holds mutex_tuples, for a
\* request made in that user's name.
SoloElDuenio ==
  [][\A u \in Nombres :
       \/ UNCHANGED <<registered_users[u], active_users[u]>>
       \/ \E w \in Workers : /\ mutex_tuples = w
                             /\ hilo[w].pc = "trata"
                             /\ hilo[w].pet.client_user_name = u]_disco

Cat == INSTANCE Catalogo WITH
  Ficheros <- Ficheros \cup {Basura},
  Descripciones <- Descripciones \cup {Basura},
  Direcciones <- Direcciones \cup {Basura, Vacio},
  publicaciones <- registered_users,
  conectados <- active_users

\* Whatever the interleaving of clients and workers, deaths and restarts, the
\* server's answers are those of a catalogue that serves one request at a time,
\* and a death costs at most publications of the user whose DELETE or PUBLISH it
\* interrupts.
ImplementaCatalogo == Cat!Spec

Colgado == \E w \in Workers : hilo[w].pc = "cuelga"

\* The server waits for a client that is there and has not sent all of its request
\* (main) or its date (a worker, with mutex_tuples).
EsperaA(c) ==
  \/ leyendo = c /\ cliente[c].fase = "pide"
  \/ /\ cliente[c].fase = "respondida"
     /\ \E w \in Workers : hilo[w].pc = "fecha" /\ hilo[w].con = c

NadieSeParaParaSiempre == \A c \in Conexiones : []<>~EsperaA(c)

\* If no client that the server waits for stops for ever (one is enough to stop
\* everybody), every complete request is read and every request read is carried to
\* its end, unless the process dies, main stops listening before accepting it, or
\* a worker is in one of the loops that do not end, which stops all of them.
TodoClienteAtendido ==
  NadieSeParaParaSiempre =>
    \A c \in Conexiones :
      cliente[c].fase = "enviada" \/ cliente[c].aceptada ~>
        \/ cliente[c].fase = "fin"
        \/ servidor = "muerto" \/ Colgado
        \/ ~cliente[c].aceptada /\ servidor # "abierto"
===============================================================================
