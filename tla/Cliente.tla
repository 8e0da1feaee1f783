------------------------------- MODULE Cliente -------------------------------
(***************************************************************************)
(* cliente/client.py: processes that run the command interpreter, one      *)
(* request to the server after another, and the daemon threads that each   *)
(* CONNECT starts to hand files to other clients (GET_FILE).  The server   *)
(* serves one request at a time on the directories of Platform, which is   *)
(* what Servidor was shown to do.                                          *)
(*                                                                         *)
(* A thread binds to port 0 and the kernel gives it any port that no       *)
(* thread has now, those of threads that have ended included: an address   *)
(* that is remembered somewhere may come to be another thread's.  A        *)
(* command that is refused before anything is sent changes nothing and is  *)
(* not a step.                                                             *)
(***************************************************************************)
EXTENDS Platform, SequencesExt

CONSTANTS
  Clientes,      \* client processes
  Hilos,         \* bound: server threads, one for each CONNECT
  Ordenes,       \* the commands that may be typed at each one
  MAX_ORDENES,   \* bound: commands typed at each one
  Averias,       \* what may go wrong: see the assumption
  MAX_AVERIAS,   \* bound: things that go wrong
  Nadie,         \* Python's None
  Cortada        \* the other end of a connection is closed

\* The commands of the shell.
Mandatos == {"REGISTER", "UNREGISTER", "CONNECT", "DISCONNECT", "PUBLISH",
             "DELETE", "LIST_USERS", "LIST_CONTENT", "GET_FILE", "QUIT"}

\* "servidor": the server is down, or dies with the request; "fecha": the web
\* service fails; "interrupcion": Ctrl-C; "muerte": the process is killed.
ASSUME ClienteAssumption ==
  /\ Ordenes \in [Clientes -> SUBSET [op : Mandatos, user : Nombres]]
  /\ MAX_ORDENES \in [Clientes -> Nat]
  /\ Averias \subseteq {"servidor", "fecha", "interrupcion", "muerte"}
  /\ MAX_AVERIAS \in Nat
  /\ Nadie \notin Nombres \cup Direcciones \cup Clientes \cup Hilos \cup {Cortada}
  /\ Cortada \notin Clientes

VARIABLES
  cliente,       \* each process: class attributes, locals, where it is
  hilo,          \* each server thread
  abandonadas,   \* requests whose client has gone and may still be served
  averias        \* how many things have gone wrong

vars == <<disco, cliente, hilo, abandonadas, averias>>

SinOrden == [op |-> "", user |-> Nadie]

\* pet is the request under way for `orden`, rc its return_code (-1: none yet),
\* lista what the server sent after it, par the connection to another client and
\* talla whether the size of its file has come.
Proceso ==
  [pc |-> "shell", active_user |-> Nadie, database_listusers |-> {},
   stop_event |-> FALSE, server_thread |-> Nadie, server_thread_port |-> Nadie,
   orden |-> SinOrden, pet |-> "", rc |-> -1, lista |-> {},
   par |-> "nada", talla |-> FALSE, fichero |-> "nada", hechas |-> 0]

\* `puerto` is the address it is bound to, or was when it ended; `con` is the
\* client being served, `cola` those that wait to be accepted.
HiloLibre == [pc |-> "no", de |-> Nadie, para |-> Nadie, puerto |-> Nadie,
              con |-> Nadie, cola |-> <<>>]

Init ==
  /\ InitPlatform
  /\ \A u \in Nombres : active_users[u] = NoFile
  /\ \A u \in Antiguos : registered_users[u] # NoFile
  /\ cliente = [p \in Clientes |-> Proceso]
  /\ hilo = [h \in Hilos |-> HiloLibre]
  /\ abandonadas = {}
  /\ averias = 0

Pon(p, c) == cliente' = [cliente EXCEPT ![p] = c]

-------------------------------------------------------------------------------
(* Ends of threads and processes, and what their peers see. *)

Sirve(h, p) == hilo[h].con = p \/ Contains(hilo[h].cola, p)

\* The threads H end ("muerto": told to, or with their process; "roto": killed by
\* a connection that its client cut), and client p closes its own, if any.
Cierran(H, pc, p) ==
  LET Otro(q) == IF q = p THEN Cortada ELSE q
  IN  [h \in Hilos |->
         IF h \in H
         THEN [hilo[h] EXCEPT !.pc = pc, !.con = Nadie, !.cola = <<>>]
         ELSE [hilo[h] EXCEPT !.con = Otro(@),
                              !.cola = [i \in DOMAIN @ |-> Otro(@[i])]]]

\* Clients that wait to be accepted by a thread that ends are reset; the one
\* being served may see the end of the stream instead.
Desatendidos(H) ==
  [q \in Clientes |->
     CASE \E h \in H : hilo[h].con = q -> [cliente[q] EXCEPT !.par = "cortado"]
       [] \E h \in H : Contains(hilo[h].cola, q) ->
            [cliente[q] EXCEPT !.par = "reset"]
       [] OTHER -> cliente[q]]

\* Daemon threads end with their process.
FinProceso(p) ==
  LET H == {h \in Hilos : hilo[h].de = p}
  IN  /\ cliente' = [Desatendidos(H) EXCEPT
                       ![p] = [Proceso EXCEPT !.pc = "fuera",
                                              !.hechas = cliente[p].hechas]]
      /\ hilo' = Cierran(H, "muerto", p)

AcabaHilo(h, pc) ==
  /\ cliente' = Desatendidos({h})
  /\ hilo' = Cierran({h}, pc, Cortada)

-------------------------------------------------------------------------------
(* The command interpreter. *)

\* publish, delete and the listings need a user; getfile does through
\* listusers, and refuses the user itself.
Permitida(c, o) ==
  /\ o.op \in {"PUBLISH", "DELETE", "LIST_USERS", "LIST_CONTENT", "GET_FILE", "QUIT"}
       => c.active_user # Nadie
  /\ o.op = "GET_FILE" => c.active_user # o.user

\* The first request of a command: unregister disconnects first if it has to,
\* getfile asks for the users, QUIT disconnects.
Primera(c, o) ==
  CASE o.op = "UNREGISTER" /\ c.active_user = o.user -> "DISCONNECT"
    [] o.op = "GET_FILE" -> "LIST_USERS"
    [] o.op = "QUIT" -> "DISCONNECT"
    [] OTHER -> o.op

Teclea(p, o) ==
  LET c == cliente[p]
  IN  /\ c.pc = "shell" /\ c.hechas < MAX_ORDENES[p]
      /\ o.op # "CONNECT" /\ Permitida(c, o)
      /\ Pon(p, [c EXCEPT !.pc = "conecta", !.orden = o, !.pet = Primera(c, o),
                          !.hechas = @ + 1, !.par = "nada", !.fichero = "nada"])
      /\ UNCHANGED <<disco, hilo, abandonadas>>

\* connect starts the thread before it asks the server for anything.
LanzaHilo(p, o, evento) ==
  LET c == cliente[p]
  IN  /\ c.pc = "shell" /\ c.hechas < MAX_ORDENES[p]
      /\ o.op = "CONNECT" /\ c.active_user = Nadie
      /\ \E h \in Hilos :
           /\ hilo[h].pc = "no"
           /\ h = CHOOSE x \in Hilos : hilo[x].pc = "no"
           /\ hilo' = [hilo EXCEPT ![h] = [HiloLibre EXCEPT
                         !.pc = "creado", !.de = p, !.para = o.user]]
           /\ Pon(p, [c EXCEPT !.pc = "espera", !.orden = o, !.pet = "CONNECT",
                               !.hechas = @ + 1, !.par = "nada",
                               !.fichero = "nada", !.server_thread = h,
                               !.stop_event = evento,
                               !.server_thread_port = Nadie])
      /\ UNCHANGED <<disco, abandonadas>>

\* Mutant of TecleaConnect: the event that stopped the last thread is not cleared.
TecleaConnectConEvento(p, o) == LanzaHilo(p, o, cliente[p].stop_event)

TecleaConnect(p, o) == LanzaHilo(p, o, FALSE)

\* Mutant of EsperaPuerto: it does not wait.
EsperaPuertoSinEsperar(p) ==
  /\ cliente[p].pc = "espera"
  /\ Pon(p, [cliente[p] EXCEPT !.pc = "conecta"])
  /\ UNCHANGED <<disco, hilo, abandonadas>>

\* The busy wait for the thread's port.
EsperaPuerto(p) ==
  /\ cliente[p].pc = "espera"
  /\ cliente[p].server_thread_port # Nadie
  /\ Pon(p, [cliente[p] EXCEPT !.pc = "conecta"])
  /\ UNCHANGED <<disco, hilo, abandonadas>>

\* QUIT with no active user.
Sale(p) ==
  /\ cliente[p].pc = "shell"
  /\ cliente[p].active_user = Nadie
  /\ \E o \in Ordenes[p] : o.op = "QUIT"
  /\ FinProceso(p)
  /\ UNCHANGED <<disco, abandonadas>>

\* The program is run again.
Arranca(p) ==
  /\ cliente[p].pc = "fuera"
  /\ cliente[p].hechas < MAX_ORDENES[p]
  /\ Pon(p, [cliente[p] EXCEPT !.pc = "shell"])
  /\ UNCHANGED <<disco, hilo, abandonadas>>

-------------------------------------------------------------------------------
(* A request to the server. *)

\* sock.connect and the fields of the request.
Conecta(p) ==
  /\ cliente[p].pc = "conecta"
  /\ Pon(p, [cliente[p] EXCEPT !.pc = "peticion"])
  /\ UNCHANGED <<disco, hilo, abandonadas>>

\* The fields: the typed name, or the active user where none is typed.
Peticion(p) ==
  LET c == cliente[p]
      propio == \/ c.pet \in {"REGISTER", "UNREGISTER", "CONNECT"}
                \/ c.pet = "DISCONNECT" /\ c.orden.op # "QUIT"
  IN  [command_str |-> c.pet,
       client_user_name |-> IF propio THEN c.orden.user ELSE c.active_user,
       user_addr |-> c.server_thread_port,
       file_name |-> CHOOSE f \in Ficheros : TRUE,
       description |-> CHOOSE d \in Descripciones : TRUE,
       user_name |-> c.orden.user]

\* The entries of LIST_CONTENT are printed and not kept.
ServidorAtiende(p) ==
  LET Responde(s, l) ==
        Pon(p, [cliente[p] EXCEPT !.pc = "respuesta", !.rc = s,
                  !.lista = IF cliente[p].pet = "LIST_USERS" THEN l ELSE {}])
  IN  /\ cliente[p].pc = "peticion"
      /\ \/ \E s \in 0 .. 4 : Modifica(Peticion(p), s) /\ Responde(s, {})
         \/ \E r \in Lista(Peticion(p)) : Responde(r[1], r[2]) /\ UNCHANGED disco
      /\ UNCHANGED <<hilo, abandonadas>>

\* A request whose client did not wait is served all the same.
AtiendeAbandonada(r) ==
  /\ r \in abandonadas
  /\ abandonadas' = abandonadas \ {r}
  /\ \E s \in 0 .. 4 : Modifica(r, s)
  /\ UNCHANGED <<cliente, hilo>>

\* Mutant of AlFinally: disconnect forgets the user only if it succeeded.
AlFinallySiBien(c, rc, activo, usuarios) ==
  [c EXCEPT !.pc = "finally", !.rc = rc, !.lista = {},
            !.database_listusers = usuarios,
            !.active_user = IF c.pet = "DISCONNECT" /\ rc = 0 THEN Nadie
                            ELSE activo]

\* The `finally` of every request; disconnect's first forgets the user.
AlFinally(c, rc, activo, usuarios) ==
  [c EXCEPT !.pc = "finally", !.rc = rc, !.lista = {},
            !.database_listusers = usuarios,
            !.active_user = IF c.pet = "DISCONNECT" THEN Nadie ELSE activo]

\* What a request cut at any point has left in _database_listusers: the list
\* of another day, or a part of the one that was coming.
ListaLeida(c) ==
  {c.database_listusers} \cup
    (IF c.pc = "respuesta" /\ c.pet = "LIST_USERS" /\ c.rc = 0 THEN SUBSET c.lista
     ELSE {})

LeeRespuesta(p) ==
  LET c == cliente[p]
      bien(op) == c.pet = op /\ c.rc = 0
  IN  /\ c.pc = "respuesta"
      /\ Pon(p, AlFinally(c, c.rc,
                          IF bien("CONNECT") THEN c.orden.user ELSE c.active_user,
                          IF bien("LIST_USERS") THEN c.lista
                          ELSE c.database_listusers))
      /\ UNCHANGED <<disco, hilo, abandonadas>>

\* The connection ends without an answer, with the request served or not:
\* read_string never leaves its loop at the end of the stream; after a reset
\* the command fails, and so will the date that `finally` sends on it.
ServidorCorta(p) ==
  LET c == cliente[p]
  IN  /\ "servidor" \in Averias
      /\ c.pc \in {"peticion", "respuesta"}
      /\ \/ Pon(p, [c EXCEPT !.pc = "gira"])
         \/ \E l \in ListaLeida(c) :
              Pon(p, [AlFinally(c, 3, c.active_user, l) EXCEPT !.pc = "roto"])
      /\ UNCHANGED <<disco, hilo, abandonadas>>

\* Mutant of Buscado: the search stops one entry beyond the user's.
BuscadoUnoMas(c) ==
  {a \in Direcciones : \E e \in c.database_listusers :
                         e[1] # c.orden.user /\ e[2] = a}

\* The address that getfile finds in its list for the user asked for.
Buscado(c) == {a \in Direcciones : <<c.orden.user, a>> \in c.database_listusers}

\* At the prompt, where the locals of the command are gone.
EnShell(c) == [c EXCEPT !.pc = "shell", !.orden = SinOrden, !.pet = "", !.rc = -1,
                        !.talla = FALSE]

\* Control goes back to whoever made the request, now with state c.
Vuelve(p, c) ==
  LET pc == CASE c.orden.op = "UNREGISTER" /\ c.pet = "DISCONNECT" /\ c.rc \in {0, 2} -> "conecta"
              [] c.orden.op = "GET_FILE" /\ c.rc = 0 /\ Buscado(c) # {} -> "busca"
              [] OTHER -> "shell"
  IN  IF c.orden.op = "QUIT" THEN FinProceso(p)
      ELSE /\ Pon(p, CASE pc = "conecta" -> [c EXCEPT !.pc = pc, !.pet = "UNREGISTER"]
                       [] pc = "busca" -> [c EXCEPT !.pc = pc]
                       [] pc = "shell" -> EnShell(c))
           /\ UNCHANGED hilo

\* sock.connect fails: no `finally`.
ConectaFalla(p) ==
  /\ Averias \cap {"servidor", "interrupcion"} # {}
  /\ cliente[p].pc = "conecta"
  /\ Vuelve(p, [cliente[p] EXCEPT !.rc = 3])
  /\ UNCHANGED <<disco, abandonadas>>

\* The date is sent; disconnect asks the thread to stop.
EnviaFecha(p) ==
  LET c == cliente[p]
      para == c.pet = "DISCONNECT" /\ c.server_thread # Nadie
  IN  /\ c.pc = "finally"
      /\ Vuelve(p, IF para THEN [c EXCEPT !.stop_event = TRUE,
                                          !.server_thread = Nadie,
                                          !.server_thread_port = Nadie]
                   ELSE c)
      /\ UNCHANGED <<disco, abandonadas>>

\* get_date_hour raises inside `finally`, or the connection was reset: the
\* exception goes up to the shell, which reads the next command; disconnect does
\* not stop the thread.
SinFecha(p) ==
  /\ Pon(p, EnShell(cliente[p]))
  /\ UNCHANGED <<disco, hilo, abandonadas>>

FechaFalla(p) == "fecha" \in Averias /\ cliente[p].pc = "finally" /\ SinFecha(p)
FechaRota(p) == cliente[p].pc = "roto" /\ SinFecha(p)

-------------------------------------------------------------------------------
(* GET_FILE, at the client that asks. *)

Escuchan == {"bucle", "acepta", "lee", "envia", "datos", "gira"}

\* Who listens at address a.
Oyentes(a) == {h \in Hilos : hilo[h].puerto = a /\ hilo[h].pc \in Escuchan}

\* sock.connect to the listed address: whoever listens there takes it.
ConectaPar(p) ==
  LET c == cliente[p]
  IN  /\ c.pc = "busca"
      /\ \E a \in Buscado(c) :
           \/ \E h \in Oyentes(a) :
                /\ Pon(p, [c EXCEPT !.pc = "par", !.par = "abierto", !.rc = -1])
                /\ hilo' = [hilo EXCEPT ![h].cola = Append(@, p)]
           \/ Oyentes(a) = {} /\ Pon(p, EnShell(c)) /\ UNCHANGED hilo
      /\ UNCHANGED <<disco, abandonadas>>

\* Back to the shell, with the connection closed.
Deja(p) ==
  /\ Pon(p, [EnShell(cliente[p]) EXCEPT !.par = "nada"])
  /\ hilo' = Cierran({}, "muerto", p)

\* The status of the peer.  If the local file cannot be opened the handler
\* closes a `file` that does not exist, and the exception goes to the shell.
LeeEstado(p) ==
  LET c == cliente[p]
  IN  /\ c.pc = "par" /\ c.rc # -1
      /\ \/ /\ c.rc = 0
            /\ UNCHANGED hilo
            /\ Pon(p, [c EXCEPT !.pc = "talla"])
         \/ Deja(p)
      /\ UNCHANGED <<disco, abandonadas>>

\* The size, and the local file is opened.
LeeTalla(p) ==
  LET c == cliente[p]
  IN  /\ c.pc = "talla" /\ c.talla
      /\ \/ /\ UNCHANGED hilo
            /\ Pon(p, [c EXCEPT !.pc = "recibe", !.fichero = "parcial"])
         \/ Deja(p)
      /\ UNCHANGED <<disco, abandonadas>>

\* The peer is gone: a reset is an exception; the end of the stream before the
\* status or the size keeps read_string in its loop.
PierdePar(p) ==
  LET c == cliente[p]
  IN  /\ c.pc \in {"par", "talla", "recibe"} /\ c.par \in {"cortado", "reset"}
      /\ \/ Deja(p)
         \/ /\ c.par = "cortado"
            /\ \/ c.pc = "par" /\ c.rc = -1
               \/ c.pc = "talla" /\ ~c.talla
            /\ Pon(p, [c EXCEPT !.pc = "gira"])
            /\ UNCHANGED hilo
      /\ UNCHANGED <<disco, abandonadas>>

\* recv until the end of the stream, whoever caused it: the size that came
\* before the data is not compared with what was received.
Recibe(p) ==
  LET c == cliente[p]
  IN  /\ c.pc = "recibe" /\ c.par \in {"entero", "cortado"}
      /\ Pon(p, [c EXCEPT !.pc = "shell", !.par = "nada", !.talla = FALSE,
                          !.fichero = IF c.par = "entero" THEN "entero" ELSE @])
      /\ UNCHANGED <<disco, hilo, abandonadas>>

-------------------------------------------------------------------------------
(* socket_server(). *)

Pasa(h, pc) == hilo' = [hilo EXCEPT ![h].pc = pc]
Local == UNCHANGED <<disco, abandonadas>>

\* The ports that are taken.
Ocupados == {hilo[h].puerto : h \in {g \in Hilos : hilo[g].pc \in {"atado"} \cup Escuchan}}

\* bind to any free port, which is published before listen().
Ata(h) ==
  /\ hilo[h].pc = "creado"
  /\ \E a \in Direcciones \ Ocupados :
       /\ Pon(hilo[h].de, [cliente[hilo[h].de] EXCEPT !.server_thread_port = a])
       /\ hilo' = [hilo EXCEPT ![h].pc = "atado", ![h].puerto = a]
  /\ Local

Escucha(h) ==
  /\ hilo[h].pc = "atado"
  /\ Pasa(h, "bucle")
  /\ UNCHANGED cliente /\ Local

\* Mutant of MiraEvento: the loop does not look at the event.
MiraEventoNunca(h) ==
  /\ hilo[h].pc = "bucle"
  /\ Pasa(h, "acepta")
  /\ UNCHANGED cliente /\ Local

\* The event is looked at once per connection, before blocking in accept().
MiraEvento(h) ==
  /\ hilo[h].pc = "bucle"
  /\ IF cliente[hilo[h].de].stop_event THEN AcabaHilo(h, "muerto")
     ELSE Pasa(h, "acepta") /\ UNCHANGED cliente
  /\ Local

Acepta(h) ==
  /\ hilo[h].pc = "acepta"
  /\ hilo[h].cola # <<>>
  /\ hilo' = [hilo EXCEPT ![h].pc = "lee", ![h].con = Head(hilo[h].cola),
                          ![h].cola = Tail(@)]
  /\ UNCHANGED cliente /\ Local

\* The name of the file is read and its status sent: 0 it can be opened, 1 it
\* does not exist, 2 other error.  The connection is closed unless it is 0.
Contesta(h, s) ==
  LET p == hilo[h].con
  IN  /\ hilo' = [hilo EXCEPT ![h].pc = IF s = 0 THEN "envia" ELSE "bucle",
                              ![h].con = IF s = 0 THEN @ ELSE Nadie]
      /\ IF p = Cortada THEN UNCHANGED cliente
         ELSE Pon(p, [cliente[p] EXCEPT !.rc = s,
                                        !.par = IF s = 0 THEN @ ELSE "entero"])

\* With a client that left: its request may be whole and the answer be lost;
\* or end half way, which keeps the thread in read_string; or be reset, or the
\* answer be, which kills the thread: write_number in a handler is not covered.
LeePeticion(h) ==
  /\ hilo[h].pc = "lee"
  /\ \/ \E s \in 0 .. 2 : Contesta(h, s)
     \/ hilo[h].con = Cortada /\ Pasa(h, "gira") /\ UNCHANGED cliente
     \/ hilo[h].con = Cortada /\ AcabaHilo(h, "roto")
  /\ Local

\* The size of the file; a client that left kills the thread.
EnviaTalla(h) ==
  LET p == hilo[h].con
  IN  /\ hilo[h].pc = "envia"
      /\ \/ /\ Pasa(h, "datos")
            /\ IF p = Cortada THEN UNCHANGED cliente
               ELSE Pon(p, [cliente[p] EXCEPT !.talla = TRUE])
         \/ p = Cortada /\ AcabaHilo(h, "roto")
      /\ Local

\* Mutant of EnviaDatos: the connection is not closed.
EnviaDatosSinCerrar(h) ==
  /\ hilo[h].pc = "datos"
  /\ hilo' = [hilo EXCEPT ![h].pc = "bucle", ![h].con = Nadie]
  /\ UNCHANGED cliente /\ Local

\* The data and close; a client that left in the middle kills the thread.
EnviaDatos(h) ==
  LET p == hilo[h].con
  IN  /\ hilo[h].pc = "datos"
      /\ \/ /\ hilo' = [hilo EXCEPT ![h].pc = "bucle", ![h].con = Nadie]
            /\ IF p = Cortada THEN UNCHANGED cliente
               ELSE Pon(p, [cliente[p] EXCEPT !.par = "entero"])
         \/ p = Cortada /\ AcabaHilo(h, "roto")
      /\ Local

-------------------------------------------------------------------------------
(* Ctrl-C and death of a client. *)

\* The request under way is left at the server (a listing would do nothing).
Abandona(p) ==
  abandonadas' =
    IF /\ cliente[p].pc = "peticion"
       /\ cliente[p].pet \notin {"LIST_USERS", "LIST_CONTENT"}
    THEN abandonadas \cup {Peticion(p)} ELSE abandonadas

\* Ctrl-C where a bare `except` catches it: the status may have been read, and
\* listusers then returns 0 with whatever list it has.
Interrumpe(p) ==
  LET c == cliente[p]
  IN  /\ "interrupcion" \in Averias
      /\ \/ /\ c.pc \in {"peticion", "respuesta", "gira"} /\ c.par = "nada"
            /\ \E l \in ListaLeida(c), pc \in {"finally", "roto"},
                  rc \in {3} \cup (IF c.pc = "respuesta" THEN {c.rc} ELSE {}) :
                 /\ pc = "roto" => c.pc = "gira"
                 /\ Pon(p, [AlFinally(c, rc, c.active_user, l) EXCEPT !.pc = pc])
            /\ UNCHANGED hilo
         \/ c.par # "nada" /\ c.pc \in {"par", "talla", "recibe", "gira"} /\ Deja(p)
      /\ Abandona(p)
      /\ UNCHANGED disco

Muere(p) ==
  /\ "muerte" \in Averias
  /\ cliente[p].pc # "fuera"
  /\ FinProceso(p)
  /\ Abandona(p)
  /\ UNCHANGED disco

-------------------------------------------------------------------------------

\* What goes on by itself, with no failure: at most one of them at a time.
Avanza(p) ==
  \/ EsperaPuerto(p) \/ Conecta(p) \/ ServidorAtiende(p) \/ LeeRespuesta(p)
  \/ EnviaFecha(p) \/ FechaRota(p)
  \/ ConectaPar(p) \/ LeeEstado(p) \/ LeeTalla(p) \/ PierdePar(p) \/ Recibe(p)

ClientePaso(p) ==
  \/ \E o \in Ordenes[p] : Teclea(p, o) \/ TecleaConnect(p, o)
  \/ Sale(p) \/ Arranca(p) \/ Avanza(p)

HiloPaso(h) ==
  \/ Ata(h) \/ Escucha(h) \/ MiraEvento(h) \/ Acepta(h) \/ LeePeticion(h)
  \/ EnviaTalla(h) \/ EnviaDatos(h)

Averia(p) ==
  \/ ServidorCorta(p) \/ ConectaFalla(p) \/ FechaFalla(p) \/ Interrumpe(p)
  \/ Muere(p)

Next ==
  \/ /\ \/ \E p \in Clientes : ClientePaso(p)
        \/ \E h \in Hilos : HiloPaso(h)
        \/ \E r \in abandonadas : AtiendeAbandonada(r)
     /\ UNCHANGED averias
  \/ /\ averias < MAX_AVERIAS
     /\ averias' = averias + 1
     /\ \E p \in Clientes : Averia(p)

Spec == Init /\ [][Next]_vars

\* The interpreter and the threads run, and the server serves every request
\* (TodoClienteAtendido).  Nothing is assumed of the user, of failures or of
\* requests left behind.
Justicia ==
  /\ \A p \in Clientes : WF_vars(Avanza(p) /\ UNCHANGED averias)
  /\ \A h \in Hilos : WF_vars(HiloPaso(h) /\ UNCHANGED averias)

SpecJusta == Spec /\ Justicia

-------------------------------------------------------------------------------
(* Properties. *)

EstadoProceso ==
  [pc : {"shell", "espera", "conecta", "peticion", "respuesta", "finally", "roto",
         "busca", "par", "talla", "recibe", "gira", "fuera"},
   active_user : Nombres \cup {Nadie},
   database_listusers : SUBSET (Nombres \X Direcciones),
   stop_event : BOOLEAN,
   server_thread : Hilos \cup {Nadie},
   server_thread_port : Direcciones \cup {Nadie},
   orden : [op : Mandatos, user : Nombres] \cup {SinOrden},
   pet : Mandatos \cup {""}, rc : -1 .. 4,
   lista : SUBSET (Nombres \X Direcciones),
   par : {"nada", "abierto", "entero", "cortado", "reset"},
   talla : BOOLEAN,
   fichero : {"nada", "parcial", "entero"}, hechas : Nat]

EstadoHilo ==
  [pc : {"no", "creado", "atado", "muerto", "roto"} \cup Escuchan,
   de : Clientes \cup {Nadie}, para : Nombres \cup {Nadie},
   puerto : Direcciones \cup {Nadie},
   con : Clientes \cup {Nadie, Cortada}, cola : Seq(Clientes \cup {Cortada})]

\* Every variable keeps its type.
TypeOK ==
  /\ cliente \in [Clientes -> EstadoProceso]
  /\ \A p \in Clientes : cliente[p].hechas <= MAX_ORDENES[p]
  /\ hilo \in [Hilos -> EstadoHilo]
  /\ active_users \in [Nombres -> Direcciones \cup {Vacio, NoFile}]
  /\ averias \in 0 .. MAX_AVERIAS

\* p believes that u is connected: it is the active user, or the server has
\* just said so; from the moment it asks to disconnect u it no longer does.
Cree(p, u) ==
  LET c == cliente[p]
  IN  \/ c.active_user = u
        /\ ~(c.pet = "DISCONNECT" /\ c.pc \in {"respuesta", "finally", "roto", "gira"})
      \/ c.pc = "respuesta" /\ c.pet = "CONNECT" /\ c.rc = 0 /\ c.orden.user = u

Acierta(p) ==
  \A u \in Nombres :
    Cree(p, u) => active_users[u] = cliente[p].server_thread_port

\* Nothing a client does, its commands and their failures included, makes it
\* believe that it is connected when the server does not have its user at its
\* port.  (Somebody else's DISCONNECT of that user does, and so does a request
\* that was interrupted and is served later.)
CreenciaCierta ==
  [][\A p \in Clientes :
       Acierta(p) /\ cliente'[p] # cliente[p] => Acierta(p)']_vars

\* While a client has an active user and is not disconnecting, the thread that
\* its CONNECT started for that user has not been told to stop and is bound to the
\* port that was announced, unless a GET_FILE cut by its client has killed it.
\* (Bound, and perhaps still on its way to listen().)
ActivoSirve ==
  \A p \in Clientes :
    LET c == cliente[p]
        h == c.server_thread
    IN  c.active_user # Nadie =>
          /\ h # Nadie /\ ~c.stop_event
          /\ c.server_thread_port \in Direcciones
          /\ c.server_thread_port = hilo[h].puerto
          /\ hilo[h].de = p /\ hilo[h].para = c.active_user
          /\ hilo[h].pc \in {"atado", "roto"} \cup Escuchan

\* Address a was given to a thread that a CONNECT of u started.
Fue(u, a) == \E h \in Hilos : hilo[h].para = u /\ hilo[h].puerto = a

\* The address of a user, at the server and in any client's list however old, is
\* one that a CONNECT of that user announced; and a GET_FILE is served by a thread
\* of the user asked for, unless that user's thread at the address has ended and
\* its port is another's now.
DireccionPropia ==
  /\ \A u \in Nombres : active_users[u] \in Direcciones => Fue(u, active_users[u])
  /\ \A p \in Clientes : \A e \in cliente[p].database_listusers : Fue(e[1], e[2])
  /\ \A h \in Hilos : \A p \in Clientes : Sirve(h, p) =>
       \E g \in Hilos :
         /\ hilo[g].para = cliente[p].orden.user /\ hilo[g].puerto = hilo[h].puerto
         /\ g = h \/ hilo[g].pc \in {"muerto", "roto"}

\* Every command gives the prompt back, except in two cases: the client is in
\* read_string on a stream that ended, or it waits for a peer whose thread is.
TodoComandoVuelve ==
  \A p \in Clientes :
    cliente[p].pc \notin {"shell", "fuera"} ~>
      \/ cliente[p].pc \in {"shell", "fuera", "gira"}
      \/ \E h \in Hilos : Sirve(h, p) /\ hilo[h].pc = "gira"

Parado(h) == hilo[h].de # Nadie /\ cliente[hilo[h].de].stop_event

\* A thread that was told to stop ends after one more connection at most, unless
\* a CONNECT clears the event before it looks at it again.  (It may also be kept
\* by a peer that left half way.)
HiloParaTrasUnaConexion ==
  \A h \in Hilos :
    hilo[h].pc = "lee" /\ Parado(h) ~> hilo[h].pc \in {"muerto", "roto", "gira"} \/ ~Parado(h)

\* What client.py says of GET_FILE (704): after GET_FILE OK the content of the
\* remote file is in the local one.
GetFileOkEntero ==
  \A p \in Clientes :
    LET c == cliente[p]
    IN  c.pc = "shell" /\ c.orden.op = "GET_FILE" /\ c.rc = 0 => c.fichero = "entero"
===============================================================================
