------------------------------ MODULE ThreadPool ------------------------------
(***************************************************************************)
(* The concurrency core of servidor/servidor.c: the main thread accepts    *)
(* connections and puts each request in a circular buffer, a fixed pool of *)
(* threads running servicio() takes them out and treats them.  The threads *)
(* synchronise with the mutex `mutex`, the condition variables `no_lleno`  *)
(* and `no_vacio`, the mutex `mutex_tuples` around tratar_peticion() and   *)
(* the flag `fin` that ends the pool.                                      *)
(*                                                                         *)
(* One action is one step of one thread between two points where another   *)
(* thread can be seen: taking a mutex, the code under it up to the next    *)
(* shared write, releasing it.  tratar_peticion() is one step here; module *)
(* Servidor opens it.                                                      *)
(***************************************************************************)
EXTENDS Integers, Sequences, FiniteSets

CONSTANTS
  Workers,          \* the MAX_THREADS threads of the pool
  Main,             \* the thread that runs main()
  MAX_PETICIONES,   \* slots of buffer_peticiones
  Peticiones,       \* requests clients will send, one per connection
  Nadie,            \* "no thread": a free mutex
  SinPeticion       \* a slot or a local that holds no request yet

ASSUME PoolAssumption ==
  /\ IsFiniteSet(Workers) /\ Workers # {}   \* MAX_THREADS is 10
  /\ Main \notin Workers
  /\ Nadie \notin Workers \cup {Main}
  /\ SinPeticion \notin Peticiones
  /\ MAX_PETICIONES \in Nat \ {0}

VARIABLES
  buffer_peticiones,
  n_elementos,
  pos,              \* main's local: next slot to fill
  pos_servicio,     \* next slot to read
  mutex,            \* its owner
  mutex_tuples,     \* its owner
  fin,
  pc,               \* where each thread is
  pet,              \* each thread's local copy of a request
  llegadas,         \* connections not yet accepted
  tratadas          \* requests whose tratar_peticion() has returned

vars == <<buffer_peticiones, n_elementos, pos, pos_servicio, mutex,
          mutex_tuples, fin, pc, pet, llegadas, tratadas>>

buffer == <<buffer_peticiones, n_elementos, pos, pos_servicio>>

Threads == Workers \cup {Main}
Slots == 0 .. MAX_PETICIONES - 1

Init ==
  /\ buffer_peticiones = [s \in Slots |-> SinPeticion]
  /\ n_elementos = 0
  /\ pos = 0
  /\ pos_servicio = 0
  /\ mutex = Nadie
  /\ mutex_tuples = Nadie
  /\ fin = FALSE
  /\ pc = [t \in Threads |-> IF t = Main THEN "accept" ELSE "lock"]
  /\ pet = [t \in Threads |-> SinPeticion]
  /\ llegadas = Peticiones
  /\ tratadas = {}

Goto(t, from, to) ==
  /\ pc[t] = from
  /\ pc' = [pc EXCEPT ![t] = to]

-------------------------------------------------------------------------------
(* pthread primitives. *)

\* pthread_mutex_lock(&mutex): from `from`, once the mutex is free.
TomaMutex(t, from, to) ==
  /\ mutex = Nadie
  /\ mutex' = t
  /\ Goto(t, from, to)
  /\ UNCHANGED <<buffer, mutex_tuples, fin, pet, llegadas, tratadas>>

\* pthread_mutex_unlock(&mutex), also the release inside pthread_cond_wait.
SueltaMutex(t, from, to) ==
  /\ mutex' = Nadie
  /\ Goto(t, from, to)
  /\ UNCHANGED <<buffer, mutex_tuples, fin, pet, llegadas, tratadas>>

\* The threads blocked in pthread_cond_wait on each condition variable: only
\* main waits on no_lleno, only the pool waits on no_vacio.
EsperanNoVacio == {w \in Workers : pc[w] = "espera"}
EsperanNoLleno == {t \in {Main} : pc[t] = "espera"}

\* t goes to `to` and pthread_cond_signal wakes one of `dormidos`, if any.  A
\* woken thread has to take the mutex again before it re-reads its condition.
SignalAndGoto(t, to, dormidos) ==
  \/ /\ dormidos = {}
     /\ pc' = [pc EXCEPT ![t] = to]
  \/ \E d \in dormidos : pc' = [pc EXCEPT ![t] = to, ![d] = "lock"]

\* POSIX lets pthread_cond_wait return with no signal.
DespertarEspurio(t) ==
  /\ Goto(t, "espera", "lock")
  /\ UNCHANGED <<buffer, mutex, mutex_tuples, fin, pet, llegadas, tratadas>>

-------------------------------------------------------------------------------
(* main(): accept loop and shutdown. *)

\* accept() and read_to_pet() deliver a request into main's local pet.
AceptaPeticion(p) ==
  /\ p \in llegadas
  /\ Goto(Main, "accept", "lock")
  /\ pet' = [pet EXCEPT ![Main] = p]
  /\ llegadas' = llegadas \ {p}
  /\ UNCHANGED <<buffer, mutex, mutex_tuples, fin, tratadas>>

\* read_to_pet() returns -1: close the socket and leave the loop.
ErrorLectura(p) ==
  /\ p \in llegadas
  /\ Goto(Main, "accept", "fin")
  /\ llegadas' = llegadas \ {p}
  /\ UNCHANGED <<buffer, mutex, mutex_tuples, fin, pet, tratadas>>

MainLock == TomaMutex(Main, "lock", "comprueba")

\* while (n_elementos == MAX_PETICIONES) pthread_cond_wait(&no_lleno, &mutex)
MainEspera ==
  /\ n_elementos = MAX_PETICIONES
  /\ SueltaMutex(Main, "comprueba", "espera")

\* Mutant of MainCopia: the wait for a free slot is missing.
MainCopiaSinEsperar ==
  /\ Goto(Main, "comprueba", "avanza")
  /\ buffer_peticiones' = [buffer_peticiones EXCEPT ![pos] = pet[Main]]
  /\ UNCHANGED <<n_elementos, pos, pos_servicio, mutex, mutex_tuples, fin, pet,
                 llegadas, tratadas>>

\* buffer_peticiones[pos] = pet
MainCopia ==
  /\ n_elementos # MAX_PETICIONES
  /\ Goto(Main, "comprueba", "avanza")
  /\ buffer_peticiones' = [buffer_peticiones EXCEPT ![pos] = pet[Main]]
  /\ UNCHANGED <<n_elementos, pos, pos_servicio, mutex, mutex_tuples, fin, pet,
                 llegadas, tratadas>>

\* Mutants of MainAvanza: pos does not wrap around; no worker is signalled.
MainAvanzaSinModulo ==
  /\ pc[Main] = "avanza"
  /\ pos' = pos + 1
  /\ n_elementos' = n_elementos + 1
  /\ SignalAndGoto(Main, "unlock", EsperanNoVacio)
  /\ UNCHANGED <<buffer_peticiones, pos_servicio, mutex, mutex_tuples, fin, pet,
                 llegadas, tratadas>>

MainAvanzaSinSignal ==
  /\ Goto(Main, "avanza", "unlock")
  /\ pos' = (pos + 1) % MAX_PETICIONES
  /\ n_elementos' = n_elementos + 1
  /\ UNCHANGED <<buffer_peticiones, pos_servicio, mutex, mutex_tuples, fin, pet,
                 llegadas, tratadas>>

\* pos = (pos+1) % MAX_PETICIONES; n_elementos++; signal(&no_vacio)
MainAvanza ==
  /\ pc[Main] = "avanza"
  /\ pos' = (pos + 1) % MAX_PETICIONES
  /\ n_elementos' = n_elementos + 1
  /\ SignalAndGoto(Main, "unlock", EsperanNoVacio)
  /\ UNCHANGED <<buffer_peticiones, pos_servicio, mutex, mutex_tuples, fin, pet,
                 llegadas, tratadas>>

MainUnlock == SueltaMutex(Main, "unlock", "accept")

\* fin = true, under mfin, which no other thread takes.
MainFin ==
  /\ Goto(Main, "fin", "lockFin")
  /\ fin' = TRUE
  /\ UNCHANGED <<buffer, mutex, mutex_tuples, pet, llegadas, tratadas>>

MainLockFin == TomaMutex(Main, "lockFin", "broadcast")

\* Mutant of MainBroadcast: pthread_cond_signal, which wakes one worker.
MainBroadcastUno ==
  /\ pc[Main] = "broadcast"
  /\ SignalAndGoto(Main, "unlockFin", EsperanNoVacio)
  /\ UNCHANGED <<buffer, mutex, mutex_tuples, fin, pet, llegadas, tratadas>>

\* pthread_cond_broadcast(&no_vacio)
MainBroadcast ==
  /\ pc[Main] = "broadcast"
  /\ pc' = [t \in Threads |->
              IF t = Main THEN "unlockFin"
              ELSE IF t \in EsperanNoVacio THEN "lock" ELSE pc[t]]
  /\ UNCHANGED <<buffer, mutex, mutex_tuples, fin, pet, llegadas, tratadas>>

MainUnlockFin == SueltaMutex(Main, "unlockFin", "join")

\* pthread_join of every thread, then the destroys, the closes and return 0.
MainJoin ==
  /\ \A w \in Workers : pc[w] = "salido"
  /\ Goto(Main, "join", "terminado")
  /\ UNCHANGED <<buffer, mutex, mutex_tuples, fin, pet, llegadas, tratadas>>

-------------------------------------------------------------------------------
(* servicio(): the loop of a thread of the pool. *)

WorkerLock(w) == TomaMutex(w, "lock", "comprueba")

\* Mutant of WorkerSale: fin is looked at before the buffer.
WorkerSaleConFin(w) ==
  /\ fin
  /\ SueltaMutex(w, "comprueba", "salido")

\* Empty buffer and fin: unlock and pthread_exit.
WorkerSale(w) ==
  /\ n_elementos = 0
  /\ fin
  /\ SueltaMutex(w, "comprueba", "salido")

\* Empty buffer: pthread_cond_wait(&no_vacio, &mutex).
WorkerEspera(w) ==
  /\ n_elementos = 0
  /\ ~fin
  /\ SueltaMutex(w, "comprueba", "espera")

\* pet = buffer_peticiones[pos_servicio]
WorkerCopia(w) ==
  /\ n_elementos # 0
  /\ Goto(w, "comprueba", "avanza")
  /\ pet' = [pet EXCEPT ![w] = buffer_peticiones[pos_servicio]]
  /\ UNCHANGED <<buffer, mutex, mutex_tuples, fin, llegadas, tratadas>>

\* Mutant of WorkerAvanza: pos_servicio stays.
WorkerAvanzaMismoHueco(w) ==
  /\ pc[w] = "avanza"
  /\ n_elementos' = n_elementos - 1
  /\ SignalAndGoto(w, "unlock", EsperanNoLleno)
  /\ UNCHANGED <<buffer_peticiones, pos, pos_servicio, mutex, mutex_tuples, fin,
                 pet, llegadas, tratadas>>

\* pos_servicio = (pos_servicio+1) % MAX; n_elementos--; signal(&no_lleno)
WorkerAvanza(w) ==
  /\ pc[w] = "avanza"
  /\ pos_servicio' = (pos_servicio + 1) % MAX_PETICIONES
  /\ n_elementos' = n_elementos - 1
  /\ SignalAndGoto(w, "unlock", EsperanNoLleno)
  /\ UNCHANGED <<buffer_peticiones, pos, mutex, mutex_tuples, fin, pet,
                 llegadas, tratadas>>

WorkerUnlock(w) == SueltaMutex(w, "unlock", "lockTuples")

\* Mutant of WorkerLockTuples: mutex_tuples is not waited for.
WorkerLockTuplesSinEsperar(w) ==
  /\ mutex_tuples' = w
  /\ Goto(w, "lockTuples", "trata")
  /\ UNCHANGED <<buffer, mutex, fin, pet, llegadas, tratadas>>

WorkerLockTuples(w) ==
  /\ mutex_tuples = Nadie
  /\ mutex_tuples' = w
  /\ Goto(w, "lockTuples", "trata")
  /\ UNCHANGED <<buffer, mutex, fin, pet, llegadas, tratadas>>

\* tratar_peticion(&pet) returns.
WorkerTrata(w) ==
  /\ Goto(w, "trata", "unlockTuples")
  /\ tratadas' = tratadas \cup {pet[w]}
  /\ UNCHANGED <<buffer, mutex, mutex_tuples, fin, pet, llegadas>>

WorkerUnlockTuples(w) ==
  /\ mutex_tuples' = Nadie
  /\ Goto(w, "unlockTuples", "lock")
  /\ UNCHANGED <<buffer, mutex, fin, pet, llegadas, tratadas>>

-------------------------------------------------------------------------------
\* The process ends with its threads wherever they are: accept() fails and main
\* returns -1, or a signal arrives while a request is treated (sendMessage to a
\* socket the client has closed raises SIGPIPE, which nothing handles).
ProcesoMuere ==
  /\ \/ pc[Main] = "accept"
     \/ \E w \in Workers : pc[w] = "trata"
  /\ pc' = [t \in Threads |-> "muerto"]
  /\ UNCHANGED <<buffer, mutex, mutex_tuples, fin, pet, llegadas, tratadas>>

MainPaso ==
  \/ MainLock \/ MainEspera \/ MainCopia \/ MainAvanza \/ MainUnlock
  \/ MainFin \/ MainLockFin \/ MainBroadcast \/ MainUnlockFin \/ MainJoin

WorkerPaso(w) ==
  \/ WorkerLock(w) \/ WorkerSale(w) \/ WorkerEspera(w) \/ WorkerCopia(w)
  \/ WorkerAvanza(w) \/ WorkerUnlock(w)
  \/ WorkerLockTuples(w) \/ WorkerTrata(w) \/ WorkerUnlockTuples(w)

Next ==
  \/ \E p \in Peticiones : AceptaPeticion(p) \/ ErrorLectura(p)
  \/ MainPaso
  \/ \E w \in Workers : WorkerPaso(w)
  \/ \E t \in Threads : DespertarEspurio(t)
  \/ ProcesoMuere

Spec == Init /\ [][Next]_vars

\* The kernel runs every runnable thread, tratar_peticion() returns, and a
\* thread that asks for `mutex` again and again gets it in the end.  Nothing is
\* assumed of the clients, of failures or of spurious wakeups.
Justicia ==
  /\ WF_vars(MainPaso)
  /\ SF_vars(MainLock) /\ SF_vars(MainLockFin)
  /\ \A w \in Workers : WF_vars(WorkerPaso(w)) /\ SF_vars(WorkerLock(w))

SpecJusta == Spec /\ Justicia

-------------------------------------------------------------------------------
(* Derived state. *)

Muerto == pc[Main] = "muerto"

\* The requests in the circular buffer, oldest first.
EnBuffer == [i \in 1 .. n_elementos |->
               buffer_peticiones[(pos_servicio + i - 1) % MAX_PETICIONES]]

\* The request a worker has taken out of the buffer and not yet treated.
EnManoDe(w) ==
  IF pc[w] \in {"unlock", "lockTuples", "trata"} THEN pet[w] ELSE SinPeticion

\* Main holds a request between read_to_pet() and n_elementos++.
MainTiene(p) ==
  pet[Main] = p /\ pc[Main] \in {"lock", "comprueba", "espera", "avanza"}

EnCirculacion(p) ==
  \/ MainTiene(p)
  \/ \E i \in 1 .. n_elementos : EnBuffer[i] = p
  \/ \E w \in Workers : EnManoDe(w) = p

BajoMutex(t) ==
  pc[t] \in {"comprueba", "avanza", "unlock", "broadcast", "unlockFin"}
BajoMutexTuples(w) == pc[w] \in {"trata", "unlockTuples"}

Cola == INSTANCE ColaPeticiones WITH
  cola <- IF Muerto THEN <<>> ELSE EnBuffer,
  servicio <- [w \in Workers |-> EnManoDe(w)],
  estado <- IF Muerto THEN "muerta"
            ELSE IF pc[Main] = "terminado" THEN "terminada"
            ELSE IF fin THEN "cerrada" ELSE "abierta"

-------------------------------------------------------------------------------
(* Properties. *)

MainPC == {"accept", "lock", "comprueba", "espera", "avanza", "unlock", "fin",
           "lockFin", "broadcast", "unlockFin", "join", "terminado", "muerto"}
WorkerPC == {"lock", "comprueba", "espera", "avanza", "unlock", "lockTuples",
             "trata", "unlockTuples", "salido", "muerto"}

\* Every variable keeps its type; the two indices stay inside the buffer.
TypeOK ==
  /\ buffer_peticiones \in [Slots -> Peticiones \cup {SinPeticion}]
  /\ n_elementos \in 0 .. MAX_PETICIONES
  /\ pos \in Slots
  /\ pos_servicio \in Slots
  /\ mutex \in Threads \cup {Nadie}
  /\ mutex_tuples \in Workers \cup {Nadie}
  /\ fin \in BOOLEAN
  /\ pc \in [Threads -> MainPC \cup WorkerPC]
  /\ pc[Main] \in MainPC
  /\ \A w \in Workers : pc[w] \in WorkerPC
  /\ pet \in [Threads -> Peticiones \cup {SinPeticion}]
  /\ llegadas \subseteq Peticiones
  /\ tratadas \subseteq Peticiones

\* One thread at a time works on the buffer, and one request at a time is
\* treated: the whole of tratar_peticion() excludes every other one.
ExclusionMutua ==
  /\ \A t, u \in Threads : BajoMutex(t) /\ BajoMutex(u) => t = u
  /\ \A v, w \in Workers : BajoMutexTuples(v) /\ BajoMutexTuples(w) => v = w

\* The counter and the two indices of the circular buffer agree, main never
\* overwrites a slot that still holds a request, and what a worker copied out
\* is still the oldest request when it advances pos_servicio.
BufferCoherente ==
  /\ pos = (pos_servicio + n_elementos) % MAX_PETICIONES
  /\ pc[Main] = "avanza" =>
       n_elementos < MAX_PETICIONES /\ buffer_peticiones[pos] = pet[Main]
  /\ \A w \in Workers : pc[w] = "avanza" =>
       n_elementos > 0 /\ pet[w] = buffer_peticiones[pos_servicio]

\* No wakeup is lost.  While some worker sleeps, at least as many workers as
\* there are queued requests are on their way to the buffer; main sleeps only
\* while the buffer is full; once the final broadcast is done nobody sleeps.
SinDespertarPerdido ==
  /\ EsperanNoVacio # {} =>
       n_elementos <= Cardinality({w \in Workers :
                                     pc[w] \in {"lock", "comprueba", "avanza"}})
  /\ EsperanNoLleno # {} => n_elementos = MAX_PETICIONES
  /\ pc[Main] \in {"unlockFin", "join"} => EsperanNoVacio = {}

\* The pool implements a FIFO queue where each request is queued, served and
\* finished once, and which ends only when it is empty and all workers are idle.
ImplementaCola == Cola!Spec

\* Every request that main has read is treated in the end, unless the process
\* dies: none stays in main's hand, in the buffer or in a worker's hand.
TodaPeticionSeTrata ==
  \A p \in Peticiones : EnCirculacion(p) ~> (p \in tratadas \/ Muerto)

\* After fin the shutdown completes: all workers exit and main joins them.
ElApagadoTermina == fin ~> (pc[Main] = "terminado" \/ Muerto)
===============================================================================
