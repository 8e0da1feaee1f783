# Verification of SSDD_trabajo_final

A peer-to-peer file-sharing service: a C server keeps which users exist, which
are connected and what they publish; Python clients talk to it over TCP, one
connection per request; files travel directly between clients; every request is
logged by an RPC service and stamped with a date that a web service gives.

This directory holds TLA+ models of that code, their TLC runs and TLAPS proofs.
The names of the definitions are the names in the source where there is one.

## 1. The system

| Component | State it keeps | Operations | Talks to |
|---|---|---|---|
| Request pool, `servidor/servidor.c` `main`, `servicio` | `buffer_peticiones`, `n_elementos`, `pos`, `pos_servicio`, `mutex`, `no_lleno`, `no_vacio`, `mutex_tuples`, `fin` | accept and queue, take out, treat, shut down | clients (sockets), the treatment (call under `mutex_tuples`) |
| Treatment, `tratar_peticion` | locals: `status`, the listing | dispatch, send status and listing, read date, log, close | platform (calls), client (socket), log stub (call) |
| Platform, `servidor/manage_platform.c` | directories `registered_users/` and `active_users/`, one file per user; `temp_copy` while deleting | register, unregister, connect, disconnect, publish, delete, three list calls | the file system only |
| Wire format, `protocol.c`, `lines.c` | main's `pet`, reused for every request | `read_to_pet`, `readLine`, `sendMessage` | sockets |
| Log stub and service, `rpc_logger_client.c`, `rpc/` | what has been printed | `send_log` (25 s timeout) | RPC over TCP |
| Client, requests, `cliente/client.py` | `_active_user`, `_registered`, `_database_listusers` | the nine shell commands | server, web service |
| Client, peer side, `cliente/client.py` | server thread, its port, stop event; connections waiting at the thread | `socket_server`, `getfile` | other clients |
| Web service, `servicio-web/` | none | `send_date_hour` | client |
| rpcgen output, build | none | | |

What is hard in it:

* **Concurrency.** Ten threads and `main` share a circular buffer under one mutex
  and two condition variables. Requests leave the buffer in order but may be
  treated in any order, since a thread releases `mutex` before it asks for
  `mutex_tuples` (72-74). The platform's check-then-act sequences on files are
  correct only because `mutex_tuples` covers the whole of `tratar_peticion`,
  which in turn means that the lock is held while a client or the log service is
  waited for.
* **Shutdown.** A single failed read makes main leave its loop (375); the
  threads must empty the buffer, see `fin`, and be joined.
* **Crashes.** SIGPIPE, an error of `accept`, a double free in LIST_USERS (136,
  142): the process dies and starts again over the directories it left.
* **Clients that die** at any point, and a `pet` that keeps the fields of the
  previous request.
* **Parsing.** A user's file is searched with `fscanf("%s ")` and loops of
  `fgetc`, and an entry is removed with a temporary file and `ftruncate`.
* **Log calls** that fail, or time out and arrive later.
* **Streams.** Both sides read byte by byte from a stream that arrives in pieces,
  with the date behind the request on the same connection.
* **Client threads.** A CONNECT starts a daemon thread that shares class
  attributes with the shell and looks at its stop event only between two
  connections. What the client believes (`_active_user`), what the server holds
  and what the thread does are three things that commands, failures, Ctrl-C and
  another client's DISCONNECT move separately.

What makes each part correct: the pool is a FIFO queue that loses no request
and no wakeup and ends empty; the treatment gives every client the answer of its
own request, executed once, and that answer is still true when it arrives; the
platform behaves as one catalogue on which requests act one at a time, with no
path published twice; the file is the list of its entries whenever no operation
is half way through it; the log names only what was executed, in order; a
conversation gives each side the fields the other wrote; a client never
persuades itself of a connection that is not there, and asks for a file the
thread of the user it named. Each of these holds of the code under conditions,
which sections 3 and 4 give and section 5 lists from the other side: calls that
fail unnoticed, a death in the middle of a DELETE, fields of 256 bytes or more,
paths and descriptions that do not read back, ports that are given again.

## 2. Modules

| Module | Models | Relation to the others |
|---|---|---|
| `ColaPeticiones` | abstract: bounded FIFO, each request queued, served and finished once | implemented by `ThreadPool` |
| `ThreadPool` | `servidor.c` 33-80 and 353-416: one action per lock, per shared write under it, per unlock | `Cola == INSTANCE ColaPeticiones` |
| `ThreadPoolProofs` | types, exclusion, indices, no lost wakeup, the refinement of `ColaPeticiones` | EXTENDS `ThreadPool` |
| `Platform` | `manage_platform.c`: one action per operation, status as last parameter | |
| `Catalogo` | abstract: catalogue of users, addresses and publications with a history of answers | implemented by `Servidor` |
| `Servidor` | clients, `main` with `accept` and the blocking `read_to_pet`, workers through `tratar_peticion`, log service, death and restart | EXTENDS `Platform`; uses the abstract queue that `ThreadPool` implements; `Cat == INSTANCE Catalogo` |
| `ServidorProofs` | types, exclusion, the directories, the answers, the refinement of `Catalogo` | EXTENDS `Servidor` |
| `ServidorHistoria` | one connection from `accept` to the log | EXTENDS `ServidorProofs` |
| `UserFile` | the bytes of `registered_users/<user>` and of `temp_copy` under publish, delete and listing | justifies `Platform` taking the file for a sequence of entries, while they read back |
| `Lineas` | one connection byte by byte: `lines.c`, `read_to_pet`, the client's `read_string` and `write_string` | justifies the whole fields of `Servidor`, for fields that fit their arrays, and the whole answers of `Cliente` |
| `Cliente` | `client.py`: several processes with their shells, requests, server threads and transfers | EXTENDS `Platform`, served one request at a time, as `Servidor` was shown to do |
| `LineasProofs` | types of `Lineas`; what a stream carries | EXTENDS it |
| `LineasConversa` | the request, the fields it writes, the date and the answer of `Lineas` | EXTENDS `LineasProofs` |
| `ClienteProofs` | theorems about `Cliente` | EXTENDS it |
| `UserFileLineas` | lemmas: the bytes of the lines of a list of entries, what `fscanf` and the loops of `fgetc` do on them | EXTENDS `UserFile` |
| `UserFileProofs` | theorems about `UserFile` | EXTENDS `UserFileLineas` |
| `MCServidor`, `MCUserFile`, `MCLineas`, `MCCliente` | instances for TLC | |

### ThreadPool
`pc[t]` is the next statement of thread `t`; a wait set is the set of threads at
`"espera"`. `pthread_cond_wait` releases the mutex and sleeps in one step and
takes the mutex again by the same action as the first lock; it may also return
with no signal (`DespertarEspurio`). A copy of a request and the advance of the
index are separate steps under the lock, so exclusion is what keeps them apart.
`mfin` is not a variable: only main takes it. `tratar_peticion` is a step
between the two operations on `mutex_tuples`.

### Platform and Servidor
`registered_users[u]` is the sequence of entries of the user's file and
`active_users[u]` the address in it; `NoFile` is a file that does not exist and
`Vacio` one that was created and not written. A file whose entries `fscanf` does
not give back whole is `Ilegible`: after half a line, an empty description, or a
path that is empty, has a tab or one letter (the entries in `Ilegibles`). What it
holds is then not followed until the user unregisters: the bytes are the subject of
`UserFile`, and of such a file `Platform` says only which statuses an operation may
return and that it may never end.

A call that may fail returns any of a set of values. With `Fallos` every system call
whose result the code looks at may fail, at its own place. With `Ignorados` so may
those it does not look at: reads that fail (taken for the end of the file), the
writes of a DELETE to `temp_copy` and back, its `ftruncate`. DELETE then answers 0
with the entry still there or others lost (`SinTruncar`, `Truncados`), and a listing is
short. `access` failing for another reason than absence passes for absence, as in
the code. `list_users_check` is not there: it changes nothing and its only caller
drops its result.

Three kinds of loop of the platform may never end, and `Cuelga` says when: the
search for a line break that `fscanf` has swallowed, in PUBLISH, DELETE and
LIST_CONTENT (301, 370, 391, 670); the same in a DELETE on an empty file whose
uninitialised `path_read` (367) holds the path; and a LIST_USERS that finds an empty
file in `active_users` (546). `Aborta` is the double free after a failed
LIST_USERS. `AMedias` is what a death leaves half made: a directory without its file,
a file not yet written, half a line, and a user's file truncated by a DELETE whose
later lines are in `temp_copy`, wholly, in part, or cut in the middle of one.

In `Servidor` a connection begins with `ClienteConecta`; from then until
`ClienteEnvia` its client is there and has not sent everything, for as long as it
likes. `main` accepts it (`Acepta`) in any of these states and waits: `Encola`, or
`ErrorLectura`, needs the whole request or the end of the client. A worker's `pc` is
its place in `tratar_peticion`. The operation on the directories is one step (the
thread holds `mutex_tuples`, and nothing else reads them), the status, the listing,
the date, the log call and the close are one step each, between which clients, main,
other workers and deaths act. `read_to_pet(viejo, sol, k)` is main's struct after
reading a stream of `k` fields over the old content; `Basura` is the content of a
field never written, taken as one arbitrary name so that it reaches the operations
as a name does.

Abstractions: the ip and the port of a peer are one value; a stream is cut
between fields (inside one is in `Lineas`, and so are fields of 256 bytes or more,
which run over others); the listing is one message; a `sendMessage` does not
block, as answers fit in the socket's buffer; what is published in a file that is
`Ilegible` is not followed.

### UserFile
Letters are values, blanks are the space, the tab and the line break; a line is
`path description\n`. The shell splits at single spaces (`client.py:736`), so a path
may be empty or have a tab and a description may be anything but a line break.
`fscanf` skips blanks, reads
a word and skips blanks again, line breaks included, which is what makes the
format delicate. A loop of `fgetc` with no line break ahead is the stuttering
step `Gira`: the infinite loop the code runs, `fgetc` giving `EOF` for ever. Each loop pass
and each call that changes a file is a step, so each state is a possible crash
point; `stdio` buffers are taken to reach the file at the `fflush` or `fclose`
that follows the writes. On an empty file the first comparison reads an
uninitialised `path_read` (298, 367): `Sobras` gives it the two contents that
matter, the path sought and another one.

### Lineas
The client's bytes leave one at a time; the server takes one per `readLine` pass
and a `sendMessage` writes any part of what is left, so each interleaving is a
way in which TCP may cut the two streams. Long strings that nothing tells apart
are one or two values. `readLine` keeps `MAX_MSG - 1` bytes of a line and drops the
rest (`protocol.h:6`: 2048); the fields of `struct peticion` have `MAX_STR` (256)
and are one behind the other in the order of `comm_sock.h` (`Lugar`), the date has
`MAX_FECHA` (22). `Escribe` is the struct after a line is written where its field
begins: a longer one goes on over the next fields, and a field is what a reader
finds from its beginning to the first NUL. A line that passes the end of the struct
runs over main's other locals, and the process may not survive it (`Rebasa`). The
clients' date and commands always fit; the other fields need not, which `Caben`
tells. A client may die at any byte, which the server sees as an end of the stream
(the line begun is taken for whole) or as a reset. A character of several bytes is
two values of `Sueltos`, which `read_string` cannot decode one by one: the request
fails at the client, the rest of the answer stays unread, and the close resets the
connection.

### Cliente
`cliente[p]` is a process: its class attributes, the command and the request
under way, its connection to a peer. `pc` is where it is: at the shell, in the
wait for the port, at `sock.connect`, with its request at the server, with an
answer, in `finally`, in a transfer (status, size and data are three steps), or
for ever in `read_string`. `hilo[h]` is a thread of `socket_server`, with the address
it is bound to (or was, when it ended), the connection it serves and those that
wait. `Ata` binds it to any address that no living thread has, those of threads that
ended included; `ConectaPar` reaches whoever listens at the listed address. A command
is the sequence of requests that the code makes (`Primera`, `Vuelve`): UNREGISTER
and QUIT disconnect first, GET_FILE asks for the users and then talks to the peer.
`ServidorAtiende` executes one operation of `Platform`; a request whose client gave
up stays in `abandonadas` and may be served later. What may go wrong is a constant,
`Averias`, bounded by `MAX_AVERIAS`: a server that goes away, a web service that
fails inside `finally`, Ctrl-C (the bare `except` catches it), a killed process. A
web service that does not answer at all is not among them.

Abstractions: a command refused before anything is sent changes nothing and is not
a step; a death of the server falls between operations here, and its endless loops
are left out (both are in `Servidor`). Users are registered and nobody is connected
at the start. One file is enough: its content is "entero" or a part of it.

## 3. Runs

| Run | Bounds | Shows |
|---|---|---|
| `ThreadPool_cola` | 3 workers, 2 slots, 3 requests | exclusion, coherent indices, no lost wakeup; the pool implements `ColaPeticiones`; every request read is treated if treatments return, the shutdown ends |
| `Servidor_cortes` | 2 workers, 2 connections, clients that stop or die, a publication without text | one execution per request, its own answer, its own fields; if no client that is waited for stops for ever, every request is carried through, but for the endless loops |
| `Servidor_fallos` | 2 workers, 2 connections, all operations of one user, 2 lives, failing calls, also those ignored | the log tells the truth; an answer of success is not false, DELETE and listings excepted; only the lock's owner writes |
| `Servidor_refina` | 2 users, 2 connections, 2 lives of the process, no failing calls | no duplicated path; answers stay true; the server implements `Catalogo`, which says what a death may cost |
| `UserFile_fiel` | 3 entries, 3 paths, 2 descriptions | bytes and entries agree, a delete has every other entry somewhere on disk at each step, listings are exact, no loop hangs but one |
| `UserFile_ruta_corta` | a path of one letter | **violated**: delete reads beyond the entry |
| `UserFile_sin_texto` | an empty description | **violated**: the search for the line break never ends |
| `Lineas` | 9 requests of every shape, lists of up to 2, fields of 4 bytes and lines of 6, a death at any byte | no byte of the date goes to the request; fields that fit are read exactly; a cut shortens one of them; the conversation ends |
| `Lineas_desborda` | the same, no deaths | **violated**: a field runs over its array |
| `Cliente_creencia` | 2 processes, 3 and 2 commands, 3 threads, 3 addresses given again, 1 failure | beliefs, threads and addresses agree, as far as a port keeps its thread |
| `Cliente_vivo` | 2 processes, 2 commands each, 2 threads, 2 addresses, 1 failure | commands come back; a stopped thread serves one connection more at most |
| `Cliente_getfile` | the same, no failures | **violated**: GET_FILE OK with a part of the file |

Why these bounds are enough to meet the cases. *Pool*: 3 requests over 2 slots
make both indices wrap around, main wait, and a worker sleep while others work;
3 workers let a signal go to one thread and the request to another. *Server*: two
workers are enough for one to wait for `mutex_tuples` while the other is at each
stage; `MAX_PETICIONES = 1` makes main wait; two connections are a request and
one that overtakes, follows or interrupts it, over directories that start absent
or as any earlier run may have left them: user registered or not, connected or
not, with publications, with a file that is not legible, with the empty file of a
CONNECT that was cut. Two publications are enough for a DELETE to have a line behind
it. `Servidor_cortes` starts with the directories made and its user registered
(`SpecRegistrada`): without them its requests are refused, which the other runs cover.
`Servidor_refina` gives each user an address of its own (`SpecPropias`).
`MAX_ARRANQUES` bounds the lives of the process: a death is possible while one is
left. *File*:
three entries are a first, a middle and a last one; a path is a prefix of another
one, and one description has a word that is a path, another both blanks. *Stream*:
with `MAX_STR = 4` and `MAX_MSG = 6` there are fields that fit, that just fit, that
run over the next one, over two, over the end of the struct, that are cut at
`MAX_MSG`, and an empty one. *Clients*: three commands are a CONNECT, a DISCONNECT and a CONNECT again, the shortest
way to two live threads, to an old listing and to a port given a second time; the
second process is the one
that is asked for a file, is disconnected by the first, and quits. A single
failure is already placed before or after any step, and every sequence of
commands is tried with it.

Deadlock is not an error in the runs that say so: clients make finitely many
requests or type finitely many commands, and the process may end or die.
`UserFile_fiel` does check it. Symmetry is used only in the two server runs
without liveness, whose properties (the refinement too) treat workers and
connections alike, and in `Cliente_creencia`, which treats addresses alike.

### Fairness
`ThreadPool.Justicia`: weak fairness of each thread (the kernel schedules it),
strong fairness of taking `mutex`. Weak fairness is not enough for a mutex:
it is free again and again but not continuously, and a thread woken over and
over for no reason could keep it from main for ever. The futex-based mutex of
the platform does not starve a waiter that way in practice; POSIX does not promise
it, so it is an assumption. Fairness of a worker between the two operations on
`mutex_tuples` says that `tratar_peticion` returns: these two properties are about
the pool alone, and what may keep a treatment from returning is in `Servidor`.
Nothing is assumed of arrivals, failures, deaths or spurious wakeups.

`Servidor.Justicia`: weak fairness of workers and of `Encola`, strong fairness of
taking `mutex_tuples` and of accepting each connection (the listen queue is FIFO).
Clients, late log calls, restarts and deaths get no fairness: a client may stop for
ever in the middle of its request, where main waits for it, or with its answer,
where a worker waits for its date with the lock held; the code has no timeout for
either, and one such client stops everybody. `TodoClienteAtendido` therefore has a
hypothesis, `NadieSeParaParaSiempre`: the server is not left waiting for the same
client for ever. Under it every complete request is read and every request read is
carried to its end, unless the process dies, main stops listening, or a worker is in
one of the endless loops, which holds the lock and stops all the others.

`UserFile` and `Lineas`: weak fairness of the programs, nothing else.

`Cliente.Justicia`: weak fairness of each process once a command has been typed
(the server's part of it is what `TodoClienteAtendido` gives) and of each
server thread. Nothing is assumed of the user, of failures, or of requests left
behind.

### What the violated runs show
* `CamposEnteros`: `read_to_pet` gives `readLine` the size 2048 for fields of 256
  bytes; `lines.c:47` says that this parameter is the maximum size of the buffer. A
  field of 256 bytes has its NUL in the next one, a longer one goes on over it: a
  description over the `file_name` already read, a `user_name` over main's other
  locals. The client refuses 256 characters or more (`client.py:126`), but sends
  UTF-8, where 255 characters may be more than 256 bytes.
* `AlPrincipioDeLaSiguiente`: `delete` goes back by the length of the path but
  not over the blank that `fscanf` skipped, so it stands on the second letter
  of the entry. With two letters or more there is still a word to skip; with
  one the description is skipped instead, and the comment of line 395 is false.
* `SiempreHaySalto`: `PUBLISH f ` in the shell sends an empty description, the
  line is `f \n`, and `"%s "` swallows its line break. The loop of 301 then
  never ends, with `mutex_tuples` held. The same happens with a description of
  blanks only, and with an empty path (`PUBLISH  x`, with two blanks). A description
  that begins with a blank loses it when listed.
* `GetFileOkEntero`: `client.py:702` prints GET_FILE OK before the data, and the
  loop of 708 takes any end of the stream for the end of the file. The size that
  came before them (703) is not compared with what was written, so a peer that
  quits half way leaves a part of the file, against what line 704 says.

## 4. Proofs

What the runs check on small instances these theorems state for every value of
the constants: any number of workers, clients, users, addresses, slots, commands,
lives of the process and failures. Some have a hypothesis on the constants, given
in the table: what it leaves out is what the code does not do.

| Theorem | States |
|---|---|
| `ThreadPoolProofs`: `TipoCorrecto`, `Exclusion`, `Coherencia` | `TypeOK`, `ExclusionMutua`, `BufferCoherente` |
| `ThreadPoolProofs`: `NingunDespertarSePierde` | `SinDespertarPerdido` |
| `ThreadPoolProofs`: `Refinamiento` | `ImplementaCola`: the pool is a bounded FIFO queue that ends empty |
| `ServidorProofs`: `ServidorTipos`, `Exclusion` | `TypeOK`; one worker at a time inside `tratar_peticion` |
| `ServidorProofs`: `NadieRepite` | `SinDuplicados`, of files that read back, if `Ignorados = FALSE` |
| `ServidorProofs`: `LaRespuestaSigueVigente` | `RespuestaVigente`: of DELETE and listings only if `Ignorados = FALSE` |
| `ServidorProofs`: `SoloCambiaElDuenio` | `SoloElDuenio` |
| `ServidorHistoria`: `CadaUnoLoSuyo`, `SinRestosDeOtra`, `ElLogEsFiel` | `RespuestaFiel`, `CamposPropios`, `LogEnOrden` |
| `ServidorProofs`: `ElServidorEsUnCatalogo` | `ImplementaCatalogo`, if no system call fails (`Fallos = Ignorados = FALSE`); the catalogue says what a death costs |
| `ClienteProofs`: `ClienteTipos` | `TypeOK` |
| `ClienteProofs`: `ElActivoSirve`, `LaDireccionEsPropia`, `LaCreenciaEsCierta` | `ActivoSirve`, `DireccionPropia`, `CreenciaCierta` |
| `LineasProofs`: `LineasTipos` | `TypeOK`: no line is longer than the size `readLine` is told |
| `LineasConversa`: `NingunCampoDesborda` | fields shorter than their arrays never run over them, nor does the date |
| `LineasConversa`: `LaPeticionEsExacta`, `ElCorteEsLimpio`, `LaFechaEsFiel` | `PeticionExacta`, `CorteLimpio` (fields in their places if they fit), `FechaFiel` |
| `LineasConversa`: `LaRespuestaEsEntera` | `RespuestaEntera` |
| `UserFileProofs`: `FicheroFielSiempre`, `NadaSePierdeNunca`, `ListadoFielSiempre` | `FicheroFiel`, `NadaSePierde`, `ListadoFiel`, for `Legibles` |
| `UserFileProofs`: `SiempreHaySaltoLegible`, `AlPrincipioLegible` | the two comments that the violated runs refute are true of `Legibles` |

### Assumptions
They say what the code's constants are and what makes a value of the model a
value of its own; the runs evaluate them.

* `PoolAssumption`: the workers are finitely many and at least one (`MAX_THREADS`
  is 10, `servidor.c:33`), the buffer has at least one slot, and the threads, main
  and "nobody" are different. Finiteness is used only to count the threads that
  are awake.
* `PlatformAssumption`: a missing file, an empty one and one with content are
  different, none of them is `Ilegible`, and what earlier runs of the server left and
  still reads back has no path twice.
* `ServidorAssumption`: the requests have the fields of `struct peticion`, and the
  content of a field never written reads as some name that is no command.
* `ClienteAssumption`: commands are those of the shell, "nobody" and a cut
  connection are not a user, an address or a process.
* `LineasAssumption`: no string has a NUL in it; the arrays are not longer than what
  `readLine` is told (256 and 22 against 2048); the date and the commands that these
  clients send fit in theirs, and so does what the struct held before; a request has the number of strings that
  `client.py` sends for its command; the listings are of names without NUL and
  have fewer entries than there are numbers in `Digito`. The requests, their
  fields and the names are otherwise any, of any length.
* `UserFileAssumption`: what the shell can send. Neither paths nor descriptions hold
  a line break, a path holds no space but may hold tabs or be empty, and a missing
  file is not a content.

The theorems about `UserFile` have one hypothesis more, `Legibles`: every path has
at least two bytes and no blank, and every description is not empty and does not
begin with a blank. The code does not enforce it, and `UserFile_ruta_corta` and
`UserFile_sin_texto` show that without it the comments of lines 299 and 395 are
false; that is why it is a hypothesis of the theorems and not an assumption of
the model. The constants of `UserFile_fiel` satisfy it.

### The pool
`IInv` adds two facts to the three properties of `ThreadPoolProofs`. `DuenoInv`: a
thread past a lock owns the mutex (exclusion as such says nothing of who holds it,
so a free mutex with a thread inside would satisfy it). `PeticionInv`: each slot
in use and each copy in a thread's hand is a request. An action that changes the
buffer happens under the mutex, so no other thread is at `"avanza"`, and the facts
about other threads hold vacuously; the facts about indices come from two lemmas
on remainders, `AvanzaPos` (filling a slot) and `AvanzaPosServicio` (emptying one
renumbers the rest).

No wakeup is lost: `SinDespertarPerdido` counts, for the requests queued, the
threads awake that will look at the buffer. It is not inductive without `FinInv`
(`fin` is set when main has left its loop, and never before): otherwise a thread
could go to sleep, or main could broadcast, at a moment when the count says
nothing. A signal moves one thread from the wait set to the awake ones, a thread
that takes a request leaves them by one and the queue shorter by one, and the
lemmas on cardinality turn that into `MasDespiertos` and its companions.

The refinement needs where each request is. `UnicaInv`: not accepted, in main's
hand, in one slot, in one worker's hand, or treated, one of them only; and
`EstadoInv`: a worker leaves only when the buffer is empty and `fin` set, and main
ends after all of them. The queue of `ColaPeticiones` is the circular buffer read
from `pos_servicio`; filling and emptying a slot are its two operations, each at
one step under the lock, and every other step stutters.

### The server
`SrvInv` is `TypeOK` split in two (`MemoriaOK`, and `DiscoInv`: `DiscoOK`, with what
an absent directory means, and `SinDuplicados` when `Ignorados` is false) with
`MutexInv` (a worker inside the treatment owns `mutex_tuples`), `MuertoInv` (a dead
process has no threads) and `RespuestaVigente`. `MutexInv` is what makes an answer
stay true: between the operation and the unlock no other worker is at its own
operation. `SinDuplicados` is kept by a PUBLISH because the status it needs to write
was computed on the same file, under the same lock, and by a DELETE, whole or cut by
a death, because what it leaves is the file without one line and perhaps without the
last ones (`HastaSinRepetir`, `LoQueQueda`). A DELETE whose `ftruncate` fails does leave
lines twice, which is why the theorem needs `Ignorados = FALSE`.

`HistInv` follows one connection through the server. `LugarInv`: it is in the
queue, with one worker, or only in the history, once in each; the worker that has
executed it owns the lock, so its execution is the last of the history. That is
the whole reason why log lines that arrive in time are in order. `FaseInv` says what the client has done
meanwhile, `CamposInv` that queue, workers and history hold the fields its client
sent, `LogInv` that an executed connection is logged once. `CamposPropios` rests on
`read_to_petPropio`: after a whole request main's struct has every field of that
command rewritten, whatever the earlier request left in it.

`ElServidorEsUnCatalogo` maps the directories to the catalogue and the history to
its history. Each operation with its status is shown to be an operation of the
catalogue with the same answer (`ModificaAtiende` and the lemmas of the listings),
all else stutters but a death half way (`MuereAtiende`). That one is not invisible,
and the catalogue has actions of its own for it: the change without an answer, a user
connected nowhere, a file that is not legible any more (`PublicaAMedias`), or a
publication withdrawn with some of those published after it (`RetiraAMedias`).
The theorem assumes `Fallos = Ignorados = FALSE`, and means to: a system call that
fails makes the code answer with an error whatever the directories hold, or leave a
change half made and answer all the same, and the catalogue has neither. Failing log
calls, deaths, restarts and cut clients are allowed. With failures `RespuestaFiel`,
`LogEnOrden` and the rest still hold, by theorems without that assumption;
`RespuestaVigente` too, but it then says nothing of DELETE and of the listings.

### The clients
`CliInv` joins three things. `ProcOK`: for each process, `Coherente` (which command
goes with which request and place, and that a client that has just asked for a
CONNECT or a DISCONNECT has no active user), `Conexion` (from the moment the port
is known, the thread is `Enlazado`: the client's own, started for the user that is
being connected, bound to that port, not told to stop, and alive or ended by a cut) and
`Listas` (an address in a list, however old, was given to a thread of the user beside
it, `FueEn`). `HiloOK`, `PuertosOK` (no two living threads have one port) and
`ParInv`: a connection is at one thread, once, and while it is there its client is
in a GET_FILE, and the thread it is at is its `Destino`: one of the user asked for, or
one that got the port of such a thread after it ended. `DirInv`: `FueEn` for the
server's addresses and for the CONNECTs that were abandoned and may be served later.
Without that last part `DireccionPropia` is not inductive: a request left behind can
still write an address. A thread keeps `de`, `para` and its port for ever, and once
ended stays ended (`Persiste`): what refers to it therefore survives every step of the
others, a new thread at its port included, and each action needs an argument only
about its own process.

`CreenciaCierta` is an action property: no step of a client may make its belief
false. The step that could is the answer to CONNECT; it is shown from `ServidorAtiende`
that a 0 is given exactly when the server has written the port of the request.

### The lines
`LinInv` is `TypeOK` with the length of the line that `readLine` is reading. What is
stored from it is bounded by the length of what the client wrote, so the rest needs to
know where each program is. A stream between a writer and a reader of the same strings
is a `Tubo`: the reader has taken `b` bytes of string `k`, the writer has put `j` of
string `i`, and the bytes in between are on their way. Stated position by position
(`Camino`), so that no induction is needed: each byte of the stream is the byte of
some string, or the NUL behind it, and the next one is the one that follows.
`TuboEscribe` (one write, of any size) and `TuboLee` (one byte) say that a `Tubo`
stays one; `TuboLee` also says which byte comes: a NUL exactly at the end of the
string. Both directions use the same lemmas.

`ConversaInv` puts the server at such a place of the strings of the request and its
date (`Por`), with its fields `Exactas` and in its buffer what `readLine` keeps of the
bytes read (`Leido`). `Exactas` is: the command as the client wrote it, and if the
client's fields fit (`Caben`) the fields before the place too and the others
untouched. The command needs no hypothesis: it fits and is at the beginning of the
struct, and a field that overruns goes on towards the end (`EscribeComando`).
`ClienteInv` says what the client has written in each of its states; that a client which has
not written the whole request is dead when the server reaches the end of the
stream is what makes the other alternative, `Cortada`, a cut and not an error:
a field shortened (`PetCortada`, and `HastaCampo` for fields that fit), no bytes left,
and so nothing that could be stored afterwards. A shortened command matters here: it selects no further
fields, since every command that has them is longer. The server chooses its fields
by the command it has stored and the client by the one it typed; they agree because
a command fits its buffer, which is why the assumption asks for it. `SinDesbordar`
comes from the same invariant: what is stored is the beginning of what was written,
shorter than its array if that was, and the date fits its own 22 bytes.

`RespInv` is the same for the answer, from the server to the client, with the
listing's length in the second string: `PorLeer` decodes it, and `RespuestaForma`
shows that when it tells the client that it has all, nothing that was sent is left.
A NUL inside a string, or a byte of `Sueltos` that
was NUL, would break it; the assumption excludes both.

### The file
The properties relate the bytes of the file with any number of entries through
concatenation, a fold. `UserFileLineas` does that induction by the least
counterexample (`MinimoNat`, from the fact that `<` on the naturals is well
founded), so that a fold is reasoned about by its two equations: `FlattenSeqVacia`
and `FlattenSeqAppend`. From them, a list of lines splits at any entry into
`Prefijo`, one `Linea` and `Resto`. `LeeLinea` is then what `fscanf` does at the
beginning of a line: it reads the path whole, stops on the first letter of the
description, and the next line break is the one of that line. The last two need
a description that `fscanf` does not swallow. The lemma holds from any letter of
the path, because `delete` reads the entry again from its second letter: there
must be one. At the end of the file nothing is read (`FinDeLineas`). `CuentaSaltos` says that the line breaks, which
`list_content_get_num` counts, are as many as the entries.

`FileInv` says what each step knows. While searching, that the position is the
beginning of a line and no line before it has the path (`BuscaInv`): that is why
a PUBLISH appends no path twice. From there to the end of a delete, which entry is
being removed and how far it has gone: `key_pos` is one byte into the entry
(`Localizada`), `temp_copy` holds exactly what follows it, or does not exist if
nothing follows (`Guardado`), the file is what precedes it, and then both
together. `NadaSePierde` by itself is far from inductive: it says where the
other entries are and not where the positions point. `RutasUnicas` is in the
invariant because the reference removes the entry with that path and the code the
first one it finds. While listing, `contents` are the entries passed.

### What stays with TLC
* Liveness: `TodaPeticionSeTrata`, `ElApagadoTermina`, `TodoClienteAtendido`,
  `ConversacionAcaba`, `TodoComandoVuelve`, `TodaOperacionTermina` and the like.
  Reasoning under fairness is out of the prover's reach. Of `UserFile`,
  `SiempreHaySaltoLegible` proves that no loop of the search runs past the file.
* What is left of `Catalogo` when system calls fail, those the code ignores included,
  is stated neither by a run nor by a theorem.

## 5. Known behaviour that the models execute and no document forbids

* UNREGISTER of a connected user leaves its file in `active_users`; it stays
  listed, and after a new REGISTER its CONNECT is answered 2. `Catalogo` states
  it: registration and connection are independent.
* A client that closes before sending a field has the request of a previous one
  completed for it. `CamposPropios` speaks of requests sent whole.
* `connect_user` failing, or the process dying, after its `fopen` leaves an empty
  file: the user counts as connected, and LIST_USERS looks for `/` in it for ever.
* LIST_USERS checks neither that its user is registered nor that it is connected:
  `tratar_peticion` drops the result of `list_users_check` (`servidor.c:114`), against
  the comment of `manage_platform.c:456-459`.
* When `list_users_get_info` fails, the list is freed twice (`servidor.c:136`, 142) and
  the process aborts.
* A client that stops with its connection open in the middle of its request, or before
  its date, stops every other one: `main` and the workers wait with no time limit.
* An empty or blank description, or an empty path, makes the next search of its file
  loop for ever with the lock held (301, 370, 391, 670); a path of one letter is
  deleted with the entry that follows it. A path that is empty or has a tab is not
  read back as it was written: it may be published twice, and not deleted.
* A DELETE answers 0 with the entry still there when `ftruncate` fails (427), and loses
  the entries behind it when the writes to `temp_copy` do (411-419): nothing looks at
  them. A listing cut short by a read error passes for whole.
* A field of 256 bytes or more runs over the next ones (section 3).
* The port of a thread that ended may be given to another one: a GET_FILE by an old
  listing, or by an entry of `active_users` whose client died, then reaches another
  user's thread and gets that user's file. The protocol between clients names nobody.
* On an empty list of publications a PUBLISH may be refused with 3 and a DELETE
  may never end, according to what an uninitialised array holds.
* A field cut by the death of its client is taken for whole: the request is
  executed with a shorter name. The comment of `readLine` (`lines.c:45-46`) says a
  line ends at `\0` or `\n`; only `\0` ends it, which is why descriptions may
  hold anything but that.
* After a death in the middle of a delete the entries behind the deleted one are lost
  for their user: they are only in `temp_copy`, in part if the death was earlier, and
  nothing reads it.
* A request may be executed and answered and not logged, when the log call fails.
* The client's `_registered` decides nothing: every read of it compares `None`, so
  "USER NOT CONNECTED" is never printed for lack of an active user, and an
  UNREGISTER of a user that another process registered succeeds and prints FAIL
  (`remove` raises). It is not a variable of `Cliente`.
* DISCONNECT of another user forgets the own one and stops its thread; the server
  keeps it connected.
* A failed CONNECT leaves its thread listening. A thread told to stop serves one
  more connection, and a CONNECT in between clears the event for both.
* The port is announced before `listen`: a client that is quick is refused.
* The date service failing in `finally` leaves DISCONNECT with its thread alive,
  UNREGISTER half way, and QUIT does not quit.
* `read_string` does not look for the end of the stream: it loops for ever if the
  server or the peer closes first.
* A peer that leaves in the middle of a transfer ends the server thread (`sendall`
  is outside any `try`), and its user stays announced where nobody listens.
* `getfile`'s handlers close a `file` that is unbound when the peer refuses or the
  local file cannot be opened: the exception goes to the shell, which goes on.
* A request abandoned with Ctrl-C may be served after the next ones.
* Users and paths with characters of several bytes are accepted, and make every
  listing that holds them fail at the client.

## 6. Not modelled

`rpcgen` output (no logic of this program); the inside of the web service, which
formats the time (its failure is `FechaFalla`, and a client that dies before the
date); the Makefile; argument parsing and socket set-up, before which there is no
state; lengths of the buffers of `manage_platform.c` (those of the request are in
`Lineas`) and `recvMessage`, which nobody calls; a `sendMessage` that blocks because
its client does not read; a web service that does not answer, at the client (at the
server it is a client that stops before its date); memory of `send_log`; descriptors, of which `list_content` leaks one
per call (684): it takes about a thousand requests, and what follows, `accept`
failing and main returning, is `ProcesoMuere`.

No property separates the answer that a failing second check gives (269, modelled
with `DosLlamadas`) from a legitimate one.

## 7. Plan

Done: every component of section 1 but generated code, web service and build;
proofs of every safety and action property that a passing run checks.

Next: `Servidor`: what remains of the catalogue when system calls fail, as an
abstract specification of its own. Its proof would join `ServidorProofs`.
