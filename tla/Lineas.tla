-------------------------------- MODULE Lineas --------------------------------
(***************************************************************************)
(* One connection, byte by byte: how the fields of a request, the answer   *)
(* and the date cross a TCP stream that delivers any number of bytes at a  *)
(* time.  servidor/lines.c (readLine, sendMessage) and read_to_pet of      *)
(* servidor/protocol.c on one side; write_string, read_string and          *)
(* read_number of cliente/client.py on the other.                          *)
(*                                                                         *)
(* A field is a sequence of bytes that ends in NUL on the wire.  A "byte"  *)
(* may stand for several that are never told apart (half a command's name, *)
(* an address).  EINTR only repeats a read, and is not a step.             *)
(***************************************************************************)
EXTENDS Integers, Sequences, SequencesExt

CONSTANTS
  Letras,       \* bytes of a string, other than NUL
  Peticiones,   \* what clients send: sequences of fields, the command first
  Listas,       \* what a listing may hold: sequences of names
  MAX_STR,      \* bytes of each field of struct peticion
  MAX_FECHA,    \* bytes of date_hour
  MAX_MSG,      \* size that readLine is given, for both
  Sueltos,      \* bytes of characters of several bytes (UTF-8)
  Cortes,       \* may the client die?
  Viejo,        \* content of a field before this request: one that fitted
  SinFecha      \* date_hour before it is read

NUL == "NUL"
Cadena(s) == Append(s, NUL)

CONNECT == <<"CONN", "ECT">>
PUBLISH == <<"PUB", "LISH">>
DELETE == <<"DEL", "ETE">>
LIST_USERS == <<"LIST_", "USERS">>
LIST_CONTENT == <<"LIST_", "CONTENT">>
FECHA == <<"dia", " ", "hora">>

\* Mutant of CamposDe: the description of PUBLISH is not read.
CamposDeSinTexto(command) ==
  <<"command_str", "client_user_name">> \o
    (CASE command = CONNECT -> <<"user_ip", "user_port">>
       [] command \in {PUBLISH, DELETE} -> <<"file_name">>
       [] command = LIST_CONTENT -> <<"user_name">>
       [] OTHER -> <<>>)

\* The fields that read_to_pet reads, in order.
CamposDe(command) ==
  <<"command_str", "client_user_name">> \o
    (CASE command = CONNECT -> <<"user_ip", "user_port">>
       [] command = PUBLISH -> <<"file_name", "description">>
       [] command = DELETE -> <<"file_name">>
       [] command = LIST_CONTENT -> <<"user_name">>
       [] OTHER -> <<>>)

\* struct peticion: the fields are one behind the other, MAX_STR bytes each.
Lugar == [command_str |-> 0, client_user_name |-> 1, user_ip |-> 2, user_port |-> 3,
          description |-> 4, file_name |-> 5, user_name |-> 6]
Campos == DOMAIN Lugar
FinDePeticion == 7

\* The strings of the numbers.
Digito == <<<<"0">>, <<"1">>, <<"2">>, <<"3">>, <<"4">>>>

\* How many strings a client sends for each command.
Cuantas(command) ==
  CASE command \in {CONNECT, PUBLISH} -> 4
    [] command \in {DELETE, LIST_CONTENT} -> 3
    [] OTHER -> 2

\* They have no NUL in them, and the date and the commands fit.
ASSUME LineasAssumption ==
  /\ NUL \notin Letras /\ NUL \notin Sueltos
  /\ MAX_STR \in Nat /\ MAX_FECHA \in Nat /\ MAX_MSG \in Nat
  /\ MAX_STR <= MAX_MSG /\ MAX_FECHA <= MAX_MSG
  /\ Len(FECHA) < MAX_FECHA
  /\ Viejo \in Seq(Letras) /\ Len(Viejo) < MAX_STR
  /\ Peticiones \subseteq Seq(Seq(Letras))
  /\ \A p \in Peticiones : Len(p) = Cuantas(p[1]) /\ Len(p[1]) < MAX_STR
  /\ \A l \in Listas : l \in Seq(Seq(Letras)) /\ Len(l) < Len(Digito)
  /\ Cortes \in BOOLEAN

VARIABLES
  cliente,    \* where it is, what it has written (j bytes of string k) and read
  red,        \* bytes on their way to the server
  fin,        \* its end of the connection: "abierto", "fin", "reset"
  servidor,   \* where it is, the line k being read, what it has sent (j bytes of
              \* string m of the answer)
  pet,        \* the fields of struct peticion
  fecha,      \* date_hour
  vuelta      \* bytes on their way to the client

vars == <<cliente, red, fin, servidor, pet, fecha, vuelta>>

Listados == {LIST_USERS, LIST_CONTENT}

\* An entry of a listing, of Ancho strings; the strings of all the entries of l.
Entrada(command, nombre) ==
  IF command = LIST_USERS THEN <<nombre, <<"ip">>, <<"puerto">>>>
  ELSE <<nombre, <<"texto">>>>
Ancho(command) == IF command = LIST_USERS THEN 3 ELSE 2
Entradas(command, l) ==
  LET w == Ancho(command)
  IN  [x \in 1 .. w * Len(l) |->
         Entrada(command, l[((x - 1) \div w) + 1])[((x - 1) % w) + 1]]

\* What tratar_peticion sends: a status, and after 0 a listing with its length.
Respuestas(command) ==
  {<<Digito[s]>> : s \in 2 .. 5}
    \cup (IF command \in Listados
          THEN {<<Digito[1], Digito[Len(l) + 1]>> \o Entradas(command, l) : l \in Listas}
          ELSE {<<Digito[1]>>})

\* How many strings the client reads, once it has read l: the status, and after
\* a 0 of a listing its length and the entries.
PorLeer(command, l) ==
  CASE l[1] # Digito[1] \/ command \notin Listados -> 1
    [] Len(l) = 1 -> 2
    [] OTHER -> 2 + Ancho(command) * ((CHOOSE i \in DOMAIN Digito : Digito[i] = l[2]) - 1)

Init ==
  /\ \E s \in Peticiones :
       cliente = [pc |-> "pide", sol |-> s, k |-> 1, j |-> 0, entera |-> FALSE,
                  bien |-> TRUE, a |-> <<>>, leido |-> <<>>]
  /\ red = <<>>
  /\ fin = "abierto"
  /\ servidor = [pc |-> "peticion", k |-> 1, buf |-> <<>>, respuesta |-> <<>>,
                 m |-> 1, j |-> 0]
  /\ pet = [c \in Campos |-> Viejo]
  /\ fecha = SinFecha
  /\ vuelta = <<>>

-------------------------------------------------------------------------------
(* The client. *)

\* The strings that it writes: the fields, and the date in `finally`.
Mensajes == Append(cliente.sol, FECHA)
Acabada == cliente.k > Len(cliente.sol) + (IF cliente.pc = "fecha" THEN 1 ELSE 0)

\* sendall of a string and its NUL: bytes leave one by one.
write_string ==
  /\ cliente.pc \in {"pide", "fecha"} /\ ~Acabada
  /\ LET m == Cadena(Mensajes[cliente.k])
     IN  /\ red' = Append(red, m[cliente.j + 1])
         /\ cliente' = IF cliente.j + 1 = Len(m)
                       THEN [cliente EXCEPT !.k = @ + 1, !.j = 0]
                       ELSE [cliente EXCEPT !.j = @ + 1]
  /\ UNCHANGED <<fin, servidor, pet, fecha, vuelta>>

EsperaRespuesta ==
  /\ cliente.pc = "pide" /\ Acabada
  /\ cliente' = [cliente EXCEPT !.pc = "lee", !.entera = TRUE]
  /\ UNCHANGED <<red, fin, servidor, pet, fecha, vuelta>>

\* The `finally` of every request.
AlFinally(c, bien) == [c EXCEPT !.pc = "fecha", !.bien = bien]

\* One byte: the end of the string, a byte that decode() does not take alone, or
\* one more character.
read_string ==
  LET ch == Head(vuelta)
      leido == Append(cliente.leido, cliente.a)
      c == [cliente EXCEPT !.leido = leido, !.a = <<>>]
  IN  /\ cliente.pc = "lee" /\ vuelta # <<>>
      /\ vuelta' = Tail(vuelta)
      /\ cliente' =
           CASE ch = NUL -> IF Len(leido) = PorLeer(cliente.sol[1], leido)
                            THEN AlFinally(c, TRUE) ELSE c
             [] ch \in Sueltos -> AlFinally(cliente, FALSE)
             [] OTHER -> [cliente EXCEPT !.a = Append(@, ch)]
      /\ UNCHANGED <<red, fin, servidor, pet, fecha>>

\* A close with bytes unread resets the connection.
Cierre == IF vuelta = <<>> THEN "fin" ELSE "reset"

Cierra ==
  /\ cliente.pc = "fecha" /\ Acabada
  /\ cliente' = [cliente EXCEPT !.pc = "fin"]
  /\ fin' = Cierre
  /\ UNCHANGED <<red, servidor, pet, fecha, vuelta>>

Muere ==
  /\ Cortes
  /\ cliente.pc \in {"pide", "lee", "fecha"}
  /\ cliente' = [cliente EXCEPT !.pc = "muerto"]
  /\ fin' \in {Cierre, "reset"}
  /\ UNCHANGED <<red, servidor, pet, fecha, vuelta>>

-------------------------------------------------------------------------------
(* The server. *)

Leyendo == servidor.pc \in {"peticion", "fecha"}

\* p once a line is written where field c begins.  readLine is told MAX_MSG, so
\* a line longer than the field runs over those behind it; and a field is what a
\* reader finds from its beginning to the first '\0', in whichever field that is.
Escribe(p, c, linea) ==
  [x \in Campos |->
     LET d == MAX_STR * (Lugar[c] - Lugar[x])   \* from the beginning of x to that of c
     IN  IF d >= 0
         THEN IF Len(p[x]) >= d THEN SubSeq(p[x], 1, d) \o linea ELSE p[x]
         ELSE IF Len(linea) + d >= 0 THEN SubSeq(linea, 1 - d, Len(linea)) ELSE p[x]]

\* It runs over what main keeps behind the struct, too.
Rebasa(c, linea) == Len(linea) >= MAX_STR * (FinDePeticion - Lugar[c])

\* The line goes to its field, or to date_hour; with nothing read it stays as it
\* was.  Past the end of the struct the process may not survive.  `buf` is what
\* the next line begins with.
Anota(linea, hayAlgo, buf) ==
  IF servidor.pc = "fecha"
  THEN /\ fecha' = IF hayAlgo THEN linea ELSE fecha
       /\ servidor' = [servidor EXCEPT !.pc = "log", !.buf = buf]
       /\ UNCHANGED pet
  ELSE LET campo == CamposDe(pet["command_str"])[servidor.k]
       IN  /\ pet' = IF hayAlgo THEN Escribe(pet, campo, linea) ELSE pet
           /\ \E pc \in {IF servidor.k = Len(CamposDe(pet'["command_str"]))
                         THEN "trata" ELSE "peticion"}
                        \cup IF Rebasa(campo, linea) THEN {"roto"} ELSE {} :
                servidor' = [servidor EXCEPT !.buf = buf, !.k = @ + 1, !.pc = pc]
           /\ UNCHANGED fecha

\* Mutant of Guarda: totRead is not set to 0 for the next line.
GuardaSinReset(linea, hayAlgo) == Anota(linea, hayAlgo, linea)

Guarda(linea, hayAlgo) == Anota(linea, hayAlgo, <<>>)

\* Mutant of readLine: no room is kept for the final '\0'.
readLineUnoMas ==
  /\ Leyendo /\ red # <<>>
  /\ red' = Tail(red)
  /\ IF Head(red) = NUL THEN Guarda(servidor.buf, TRUE)
     ELSE /\ servidor' = IF Len(servidor.buf) < MAX_MSG
                         THEN [servidor EXCEPT !.buf = Append(@, Head(red))]
                         ELSE servidor
          /\ UNCHANGED <<pet, fecha>>
  /\ UNCHANGED <<cliente, fin, vuelta>>

\* read of one byte; those that do not fit in MAX_MSG are dropped.
readLine ==
  /\ Leyendo /\ red # <<>>
  /\ red' = Tail(red)
  /\ IF Head(red) = NUL THEN Guarda(servidor.buf, TRUE)
     ELSE /\ servidor' = IF Len(servidor.buf) < MAX_MSG - 1
                         THEN [servidor EXCEPT !.buf = Append(@, Head(red))]
                         ELSE servidor
          /\ UNCHANGED <<pet, fecha>>
  /\ UNCHANGED <<cliente, fin, vuelta>>

\* Mutants of FinDeFichero: an empty line is stored too; a line that was begun
\* waits for its end.
FinDeFicheroVacia ==
  /\ Leyendo /\ red = <<>> /\ fin = "fin"
  /\ Guarda(servidor.buf, TRUE)
  /\ UNCHANGED <<cliente, red, fin, vuelta>>
FinDeFicheroEspera ==
  /\ Leyendo /\ red = <<>> /\ fin = "fin" /\ servidor.buf = <<>>
  /\ Guarda(servidor.buf, FALSE)
  /\ UNCHANGED <<cliente, red, fin, vuelta>>

\* read returns 0: what was read of the line is taken for the whole of it.
FinDeFichero ==
  /\ Leyendo /\ red = <<>> /\ fin = "fin"
  /\ Guarda(servidor.buf, servidor.buf # <<>>)
  /\ UNCHANGED <<cliente, red, fin, vuelta>>

\* read returns -1: main leaves its loop, or the worker drops the request.
ErrorLectura ==
  /\ Leyendo /\ fin = "reset"
  /\ servidor' = [servidor EXCEPT !.pc = IF @ = "fecha" THEN "fin" ELSE "roto"]
  /\ UNCHANGED <<cliente, red, fin, pet, fecha, vuelta>>

\* tratar_peticion has a status, and perhaps a listing, for the request.
Responde ==
  /\ servidor.pc = "trata"
  /\ \E r \in Respuestas(pet["command_str"]) :
       servidor' = [servidor EXCEPT !.pc = "envia", !.respuesta = r]
  /\ UNCHANGED <<cliente, red, fin, pet, fecha, vuelta>>

Enviada == servidor.m > Len(servidor.respuesta)

\* r bytes of the message have been written: buffer + r, l - r.
Avanza(r, l) == IF r = l THEN [servidor EXCEPT !.m = @ + 1, !.j = 0]
                ELSE [servidor EXCEPT !.j = @ + r]

\* Mutant of sendMessage: the pointer is not advanced after a partial write.
sendMessageSinAvanzar ==
  /\ servidor.pc = "envia" /\ ~Enviada
  /\ LET c == Cadena(servidor.respuesta[servidor.m])
         l == Len(c) - servidor.j
     IN  \E r \in 1 .. l : /\ vuelta' = vuelta \o SubSeq(c, 1, r)
                          /\ servidor' = Avanza(r, l)
  /\ UNCHANGED <<cliente, red, fin, pet, fecha>>

\* One write of the message being sent, of any part of what is left.
sendMessage ==
  /\ servidor.pc = "envia" /\ ~Enviada
  /\ LET c == Cadena(servidor.respuesta[servidor.m])
         l == Len(c) - servidor.j
     IN  \E r \in 1 .. l :
           /\ vuelta' = vuelta \o SubSeq(c, servidor.j + 1, servidor.j + r)
           /\ servidor' = Avanza(r, l)
  /\ UNCHANGED <<cliente, red, fin, pet, fecha>>

\* write returns -1 (or raises SIGPIPE, which is Servidor's ProcesoMuere).
ErrorEscritura ==
  /\ servidor.pc = "envia" /\ ~Enviada
  /\ fin # "abierto"
  /\ servidor' = [servidor EXCEPT !.pc = "fin"]
  /\ UNCHANGED <<cliente, red, fin, pet, fecha, vuelta>>

EsperaFecha ==
  /\ servidor.pc = "envia" /\ Enviada
  /\ servidor' = [servidor EXCEPT !.pc = "fecha"]
  /\ UNCHANGED <<cliente, red, fin, pet, fecha, vuelta>>

\* send_log and close.
Registra ==
  /\ servidor.pc = "log"
  /\ servidor' = [servidor EXCEPT !.pc = "registrada"]
  /\ UNCHANGED <<cliente, red, fin, pet, fecha, vuelta>>

-------------------------------------------------------------------------------

ClientePaso == write_string \/ EsperaRespuesta \/ read_string \/ Cierra

ServidorPaso ==
  \/ readLine \/ FinDeFichero \/ ErrorLectura \/ Responde \/ sendMessage
  \/ ErrorEscritura \/ EsperaFecha \/ Registra

Next == ClientePaso \/ Muere \/ ServidorPaso

Spec == Init /\ [][Next]_vars

\* Both programs run.
SpecJusta == Spec /\ WF_vars(ClientePaso) /\ WF_vars(ServidorPaso)

-------------------------------------------------------------------------------
(* Properties. *)

Acabado == {"fin", "roto", "registrada"}

\* Every variable keeps its type; no line is longer than the size readLine is told.
TypeOK ==
  /\ cliente.pc \in {"pide", "lee", "fecha", "fin", "muerto"}
  /\ fin \in {"abierto", "fin", "reset"}
  /\ servidor.pc \in {"peticion", "trata", "envia", "fecha", "log"} \cup Acabado
  /\ Len(servidor.buf) < MAX_MSG
  /\ DOMAIN pet = Campos

\* Every field of the request is shorter than the array it is read to.  The client
\* sees to it for some of them, and counts characters, not bytes.
Caben == \A i \in DOMAIN cliente.sol : Len(cliente.sol[i]) < MAX_STR

\* The fields of the client's request.
Orden == CamposDe(cliente.sol[1])

\* However the stream is cut into pieces, a request that was written whole is
\* treated with no byte of what follows it (the date) read with it and, if its
\* fields fit, with what its client wrote, each field in its place and the others
\* as they were.
PeticionExacta ==
  servidor.pc \notin {"peticion", "roto"} /\ cliente.entera =>
    /\ Len(Orden) = Len(cliente.sol)
    /\ servidor.pc \in {"trata", "envia"} => IsPrefix(red, Cadena(FECHA))
    /\ Caben => /\ \A i \in DOMAIN Orden : pet[Orden[i]] = cliente.sol[i]
                /\ \A c \in Campos \ ToSet(Orden) : pet[c] = Viejo

\* A request cut by the death of its client is treated all the same: up to some
\* field it is the client's, that field may be shortened, and from there on it
\* is what the struct held before, if its fields fit.  (A shortened command has
\* two fields.)
CorteLimpio ==
  servidor.pc \notin {"peticion", "roto"} /\ ~cliente.entera /\ Caben =>
    \E j \in 1 .. Len(cliente.sol) :
      /\ \A i \in 1 .. j - 1 : pet[Orden[i]] = cliente.sol[i]
      /\ pet[Orden[j]] = Viejo \/ IsPrefix(pet[Orden[j]], cliente.sol[j])
      /\ \A c \in Campos \ {Orden[i] : i \in 1 .. j} : pet[c] = Viejo

\* What lines.c says of n, the size of the buffer, for every request: no field
\* reaches past its array.  The code tells readLine MAX_MSG.
CamposEnteros == \A c \in Campos : Len(pet[c]) < MAX_STR

\* The client's view of the answer: what it has read is what was sent, in order;
\* when it takes it for good it has all of it; and it only fails on an answer
\* with a character of several bytes.
RespuestaEntera ==
  /\ IsPrefix(cliente.leido, servidor.respuesta)
  /\ cliente.pc \in {"fecha", "fin"} =>
       IF cliente.bien THEN cliente.leido = servidor.respuesta
       ELSE \E i \in DOMAIN servidor.respuesta :
              ToSet(servidor.respuesta[i]) \cap Sueltos # {}

\* The date that is logged is the client's, or the beginning of it if the client
\* died while writing it, or was never written.
FechaFiel ==
  servidor.pc \in {"log", "registrada"} =>
    /\ cliente.pc = "fin" => fecha = FECHA
    /\ fecha = SinFecha \/ IsPrefix(fecha, FECHA)

\* Every conversation ends at the server, whether the client lives or dies, and
\* with no deaths, fields that fit and readable names it ends with the request
\* logged.
ConversacionAcaba ==
  /\ servidor.pc = "peticion" ~> servidor.pc \in Acabado
  /\ servidor.pc = "peticion" ~>
       servidor.pc = "registrada" \/ cliente.pc = "muerto" \/ ~cliente.bien \/ ~Caben
===============================================================================
