--------------------------- MODULE ThreadPoolProofs ---------------------------
(***************************************************************************)
(* The request pool for any number of workers, any capacity and any set of *)
(* requests: its safety; then, from how far the shutdown is and that each  *)
(* request is in one place at a time, that no wakeup is lost and that it   *)
(* implements the queue of ColaPeticiones.                                 *)
(***************************************************************************)
EXTENDS ThreadPool, FiniteSetTheorems, SequenceTheorems, TLAPS

\* A thread that is past pthread_mutex_lock owns the mutex.  Mutual exclusion
\* alone is not inductive: it says nothing of the owner.
DuenoInv ==
  /\ \A t \in Threads : BajoMutex(t) => mutex = t
  /\ \A w \in Workers : BajoMutexTuples(w) => mutex_tuples = w

\* Every slot in use and every copy in a thread's hand is a request.  Without
\* it `tratadas` could gain the content of a slot that was never filled.
PeticionInv ==
  /\ \A i \in 0 .. n_elementos - 1 :
       buffer_peticiones[(pos_servicio + i) % MAX_PETICIONES] \in Peticiones
  /\ pc[Main] \in {"lock", "comprueba", "espera", "avanza"} =>
       pet[Main] \in Peticiones
  /\ \A w \in Workers : pc[w] \in {"avanza", "unlock", "lockTuples", "trata"} =>
       pet[w] \in Peticiones

IInv == TypeOK /\ DuenoInv /\ BufferCoherente /\ PeticionInv

-------------------------------------------------------------------------------
(* Index arithmetic of the circular buffer. *)

\* Filling the slot after the last one keeps main's index ahead by n_elementos.
LEMMA AvanzaPos ==
  ASSUME NEW M \in Nat \ {0}, NEW a \in 0 .. M - 1, NEW n \in 0 .. M - 1
  PROVE  /\ ((a + n) % M) \in 0 .. M - 1
         /\ ((((a + n) % M) + 1) % M) = ((a + (n + 1)) % M)
         /\ ((((a + n) % M) + 1) % M) \in 0 .. M - 1
  BY SMTT(60)

\* Emptying the oldest slot shifts the position of every other one by one.
LEMMA AvanzaPosServicio ==
  ASSUME NEW M \in Nat \ {0}, NEW a \in 0 .. M - 1, NEW n \in 0 .. M - 1
  PROVE  /\ ((a + 1) % M) \in 0 .. M - 1
         /\ ((((a + 1) % M) + n) % M) = ((a + (n + 1)) % M)
  BY SMTT(60)

\* The oldest request is the one at pos_servicio.
LEMMA PrimerHueco ==
  ASSUME NEW M \in Nat \ {0}, NEW a \in 0 .. M - 1
  PROVE  ((a + 0) % M) = a
  BY SMTT(60)

-------------------------------------------------------------------------------
(* The inductive invariant. *)

LEMMA InitIInv == Init => IInv
  <1> SUFFICES ASSUME Init PROVE IInv
    OBVIOUS
  <1> USE PoolAssumption
  <1>1. TypeOK
    <2>1. 0 \in Slots /\ 0 \in 0 .. MAX_PETICIONES
      BY DEF Slots
    <2>2. pc \in [Threads -> MainPC \cup WorkerPC]
      BY DEF Init, MainPC, WorkerPC
    <2>3. pc[Main] \in MainPC /\ \A w \in Workers : pc[w] \in WorkerPC
      BY DEF Init, Threads, MainPC, WorkerPC
    <2>4. /\ buffer_peticiones \in [Slots -> Peticiones \cup {SinPeticion}]
          /\ pet \in [Threads -> Peticiones \cup {SinPeticion}]
      BY DEF Init
    <2>5. QED
      BY <2>1, <2>2, <2>3, <2>4 DEF Init, TypeOK
  <1>2. DuenoInv
    BY DEF Init, DuenoInv, BajoMutex, BajoMutexTuples, Threads
  <1>3. BufferCoherente
    BY DEF Init, BufferCoherente, Threads, Slots
  <1>4. PeticionInv
    BY DEF Init, PeticionInv, Threads
  <1>5. QED
    BY <1>1, <1>2, <1>3, <1>4 DEF IInv

LEMMA StepIInv == IInv /\ [Next]_vars => IInv'
  <1> SUFFICES ASSUME IInv, [Next]_vars PROVE IInv'
    OBVIOUS
  <1> USE PoolAssumption DEF IInv
  <1>1. ASSUME NEW p \in Peticiones, AceptaPeticion(p) PROVE IInv'
    <2> USE <1>1 DEF AceptaPeticion, Goto, buffer
    <2>1. TypeOK'
      BY DEF TypeOK, Threads, MainPC, WorkerPC
    <2>2. DuenoInv'
      BY DEF TypeOK, DuenoInv, BajoMutex, BajoMutexTuples, Threads
    <2>3. BufferCoherente'
      BY DEF TypeOK, BufferCoherente, Threads
    <2>4. PeticionInv'
      BY DEF TypeOK, PeticionInv, Threads
    <2> QED BY <2>1, <2>2, <2>3, <2>4
  <1>2. ASSUME NEW p \in Peticiones, ErrorLectura(p) PROVE IInv'
    <2> USE <1>2 DEF ErrorLectura, Goto, buffer
    <2>1. TypeOK'
      BY DEF TypeOK, Threads, MainPC, WorkerPC
    <2>2. DuenoInv'
      BY DEF TypeOK, DuenoInv, BajoMutex, BajoMutexTuples, Threads
    <2>3. BufferCoherente'
      BY DEF TypeOK, BufferCoherente, Threads
    <2>4. PeticionInv'
      BY DEF TypeOK, PeticionInv, Threads
    <2> QED BY <2>1, <2>2, <2>3, <2>4
  \* The two primitives: taking a free mutex and releasing one's own.
  <1>3. ASSUME NEW t \in Threads, NEW from, NEW to,
               TomaMutex(t, from, to),
               \/ from = "lock" /\ to = "comprueba"
               \/ t = Main /\ from = "lockFin" /\ to = "broadcast"
        PROVE  IInv'
    <2> USE <1>3 DEF TomaMutex, Goto, buffer
    <2>1. TypeOK'
      BY DEF TypeOK, Threads, MainPC, WorkerPC
    <2>2. DuenoInv'
      BY DEF TypeOK, DuenoInv, BajoMutex, BajoMutexTuples, Threads
    <2>3. BufferCoherente'
      BY DEF TypeOK, BufferCoherente, Threads
    <2>4. PeticionInv'
      BY DEF TypeOK, PeticionInv, Threads
    <2> QED BY <2>1, <2>2, <2>3, <2>4
  <1>4. ASSUME NEW t \in Threads, NEW from, NEW to,
               SueltaMutex(t, from, to),
               \/ from = "comprueba" /\ to = "espera"
               \/ t = Main /\ from = "unlock" /\ to = "accept"
               \/ t = Main /\ from = "unlockFin" /\ to = "join"
               \/ t # Main /\ from = "comprueba" /\ to = "salido"
               \/ t # Main /\ from = "unlock" /\ to = "lockTuples"
        PROVE  IInv'
    <2> USE <1>4 DEF SueltaMutex, Goto, buffer
    <2>1. TypeOK'
      BY DEF TypeOK, Threads, MainPC, WorkerPC
    <2>2. DuenoInv'
      BY DEF TypeOK, DuenoInv, BajoMutex, BajoMutexTuples, Threads
    <2>3. BufferCoherente'
      BY DEF TypeOK, BufferCoherente, Threads
    <2>4. PeticionInv'
      BY DEF TypeOK, PeticionInv, Threads
    <2> QED BY <2>1, <2>2, <2>3, <2>4
  <1>5. ASSUME MainCopia PROVE IInv'
    <2> USE <1>5 DEF MainCopia, Goto
    <2>1. TypeOK'
      BY DEF TypeOK, Threads, MainPC, WorkerPC
    <2>2. DuenoInv'
      BY DEF TypeOK, DuenoInv, BajoMutex, BajoMutexTuples, Threads
    <2>3. BufferCoherente'
      BY DEF TypeOK, BufferCoherente, DuenoInv, BajoMutex, Threads, Slots
    <2>4. PeticionInv'
      BY DEF TypeOK, PeticionInv, Threads
    <2> QED BY <2>1, <2>2, <2>3, <2>4
  <1>6. ASSUME MainAvanza PROVE IInv'
    <2> USE <1>6 DEF MainAvanza
    <2>1. n_elementos \in 0 .. MAX_PETICIONES - 1
      BY DEF TypeOK, BufferCoherente
    <2>2. /\ pos' = (pos_servicio + n_elementos') % MAX_PETICIONES
          /\ pos' \in Slots
          /\ n_elementos' \in 0 .. MAX_PETICIONES
      <3>1. pos_servicio \in 0 .. MAX_PETICIONES - 1
        BY DEF TypeOK, Slots
      <3>2. /\ ((((pos_servicio + n_elementos) % MAX_PETICIONES) + 1)
                   % MAX_PETICIONES)
                 = ((pos_servicio + (n_elementos + 1)) % MAX_PETICIONES)
            /\ ((((pos_servicio + n_elementos) % MAX_PETICIONES) + 1)
                   % MAX_PETICIONES) \in 0 .. MAX_PETICIONES - 1
        BY <2>1, <3>1, AvanzaPos, Zenon
      <3>3. QED
        BY <2>1, <3>2 DEF BufferCoherente, Slots
    <2>3. \A w \in Workers : pc'[w] = pc[w] \/ pc'[w] = "lock"
      BY DEF TypeOK, SignalAndGoto, EsperanNoVacio, Threads
    <2>4. pc' \in [Threads -> MainPC \cup WorkerPC] /\ pc'[Main] = "unlock"
      BY DEF TypeOK, SignalAndGoto, EsperanNoVacio, Threads, MainPC, WorkerPC
    <2>5. TypeOK'
      BY <2>2, <2>3, <2>4 DEF TypeOK, MainPC, WorkerPC
    <2>6. DuenoInv'
      BY <2>3, <2>4 DEF TypeOK, DuenoInv, BajoMutex, BajoMutexTuples, Threads
    <2>7. BufferCoherente'
      BY <2>2, <2>3, <2>4
      DEF TypeOK, BufferCoherente, DuenoInv, BajoMutex, Threads
    <2>8. PeticionInv'
      <3>1. ASSUME NEW i \in 0 .. n_elementos' - 1
            PROVE  buffer_peticiones[(pos_servicio + i) % MAX_PETICIONES]
                     \in Peticiones
        <4>1. CASE i \in 0 .. n_elementos - 1
          BY <4>1 DEF PeticionInv
        <4>2. CASE i = n_elementos
          BY <4>2 DEF BufferCoherente, PeticionInv
        <4>3. QED
          BY <2>1, <4>1, <4>2
      <3>2. QED
        BY <2>3, <2>4, <3>1 DEF PeticionInv
    <2> QED BY <2>5, <2>6, <2>7, <2>8
  <1>7. ASSUME MainFin \/ MainJoin PROVE IInv'
    <2> USE <1>7 DEF MainFin, MainJoin, Goto, buffer
    <2>1. TypeOK'
      BY DEF TypeOK, Threads, MainPC, WorkerPC
    <2>2. DuenoInv'
      BY DEF TypeOK, DuenoInv, BajoMutex, BajoMutexTuples, Threads
    <2>3. BufferCoherente'
      BY DEF TypeOK, BufferCoherente, Threads
    <2>4. PeticionInv'
      BY DEF TypeOK, PeticionInv, Threads
    <2> QED BY <2>1, <2>2, <2>3, <2>4
  <1>8. ASSUME MainBroadcast PROVE IInv'
    <2> USE <1>8 DEF MainBroadcast, buffer
    <2>1. TypeOK'
      BY DEF TypeOK, Threads, MainPC, WorkerPC
    <2>2. DuenoInv'
      BY DEF TypeOK, DuenoInv, BajoMutex, BajoMutexTuples, Threads
    <2>3. BufferCoherente'
      BY DEF TypeOK, BufferCoherente, Threads
    <2>4. PeticionInv'
      BY DEF TypeOK, PeticionInv, Threads
    <2> QED BY <2>1, <2>2, <2>3, <2>4
  <1>9. ASSUME NEW w \in Workers, WorkerCopia(w) PROVE IInv'
    <2> USE <1>9 DEF WorkerCopia, Goto, buffer
    <2>1. TypeOK'
      BY DEF TypeOK, Threads, MainPC, WorkerPC, Slots
    <2>2. DuenoInv'
      BY DEF TypeOK, DuenoInv, BajoMutex, BajoMutexTuples, Threads
    <2>3. BufferCoherente'
      BY DEF TypeOK, BufferCoherente, DuenoInv, BajoMutex, Threads
    <2>4. PeticionInv'
      <3>1. 0 \in 0 .. n_elementos - 1
        BY DEF TypeOK
      <3>2. (pos_servicio + 0) % MAX_PETICIONES = pos_servicio
        <4>1. pos_servicio \in 0 .. MAX_PETICIONES - 1
          BY DEF TypeOK, Slots
        <4>2. QED
          BY <4>1, PrimerHueco, Zenon
      <3>3. buffer_peticiones[pos_servicio] \in Peticiones
        BY <3>1, <3>2 DEF PeticionInv
      <3>4. QED
        BY <3>3 DEF TypeOK, PeticionInv, Threads
    <2> QED BY <2>1, <2>2, <2>3, <2>4
  <1>10. ASSUME NEW w \in Workers, WorkerAvanza(w) PROVE IInv'
    <2> USE <1>10 DEF WorkerAvanza
    <2>1. n_elementos \in 1 .. MAX_PETICIONES
      BY DEF TypeOK, BufferCoherente
    <2>2. /\ pos = (pos_servicio' + n_elementos') % MAX_PETICIONES
          /\ pos_servicio' \in Slots
          /\ n_elementos' \in 0 .. MAX_PETICIONES
      <3>1. /\ pos_servicio \in 0 .. MAX_PETICIONES - 1
            /\ n_elementos - 1 \in 0 .. MAX_PETICIONES - 1
        BY <2>1 DEF TypeOK, Slots
      <3>2. /\ ((pos_servicio + 1) % MAX_PETICIONES) \in 0 .. MAX_PETICIONES - 1
            /\ ((((pos_servicio + 1) % MAX_PETICIONES) + (n_elementos - 1))
                  % MAX_PETICIONES)
                 = ((pos_servicio + ((n_elementos - 1) + 1)) % MAX_PETICIONES)
        BY <3>1, AvanzaPosServicio, Zenon
      <3>3. QED
        BY <2>1, <3>2 DEF BufferCoherente, Slots
    <2>3. /\ pc'[Main] = pc[Main] \/ pc'[Main] = "lock"
          /\ \A v \in Workers \ {w} : pc'[v] = pc[v]
          /\ pc'[w] = "unlock"
          /\ pc' \in [Threads -> MainPC \cup WorkerPC]
      BY DEF TypeOK, SignalAndGoto, EsperanNoLleno, Threads, MainPC, WorkerPC
    <2>4. TypeOK'
      BY <2>2, <2>3 DEF TypeOK, MainPC, WorkerPC
    <2>5. DuenoInv'
      BY <2>3 DEF TypeOK, DuenoInv, BajoMutex, BajoMutexTuples, Threads
    <2>6. BufferCoherente'
      BY <2>2, <2>3 DEF TypeOK, BufferCoherente, DuenoInv, BajoMutex, Threads
    <2>7. PeticionInv'
      <3>1. ASSUME NEW i \in 0 .. n_elementos' - 1
            PROVE  buffer_peticiones[(pos_servicio' + i) % MAX_PETICIONES]
                     \in Peticiones
        <4>1. /\ pos_servicio \in 0 .. MAX_PETICIONES - 1
              /\ i \in 0 .. MAX_PETICIONES - 1
              /\ i + 1 \in 0 .. n_elementos - 1
          BY <2>1 DEF TypeOK, Slots
        <4>2. ((((pos_servicio + 1) % MAX_PETICIONES) + i) % MAX_PETICIONES)
                = ((pos_servicio + (i + 1)) % MAX_PETICIONES)
          BY <4>1, AvanzaPosServicio, Zenon
        <4>3. QED
          BY <4>1, <4>2 DEF PeticionInv
      <3>2. pet'[w] \in Peticiones /\ pet' = pet
        BY DEF PeticionInv
      <3>3. pc'[Main] # pc[Main] => pc[Main] = "espera"
        BY DEF TypeOK, SignalAndGoto, EsperanNoLleno, Threads
      <3>4. pc'[Main] \in {"lock", "comprueba", "espera", "avanza"} =>
              pet'[Main] \in Peticiones
        BY <2>3, <3>2, <3>3 DEF PeticionInv
      <3>5. \A v \in Workers :
              pc'[v] \in {"avanza", "unlock", "lockTuples", "trata"} =>
                pet'[v] \in Peticiones
        BY <2>3, <3>2 DEF PeticionInv
      <3>6. QED
        BY <3>1, <3>4, <3>5 DEF PeticionInv
    <2> QED BY <2>4, <2>5, <2>6, <2>7
  <1>11. ASSUME NEW w \in Workers,
                WorkerLockTuples(w) \/ WorkerTrata(w) \/ WorkerUnlockTuples(w)
         PROVE  IInv'
    <2> USE <1>11 DEF WorkerLockTuples, WorkerTrata, WorkerUnlockTuples, Goto,
                      buffer
    <2>1. TypeOK'
      BY DEF TypeOK, PeticionInv, Threads, MainPC, WorkerPC
    <2>2. DuenoInv'
      BY DEF TypeOK, DuenoInv, BajoMutex, BajoMutexTuples, Threads
    <2>3. BufferCoherente'
      BY DEF TypeOK, BufferCoherente, Threads
    <2>4. PeticionInv'
      BY DEF TypeOK, PeticionInv, Threads
    <2> QED BY <2>1, <2>2, <2>3, <2>4
  <1>12. ASSUME NEW t \in Threads, DespertarEspurio(t) PROVE IInv'
    <2> USE <1>12 DEF DespertarEspurio, Goto, buffer
    <2>1. TypeOK'
      BY DEF TypeOK, Threads, MainPC, WorkerPC
    <2>2. DuenoInv'
      BY DEF TypeOK, DuenoInv, BajoMutex, BajoMutexTuples, Threads
    <2>3. BufferCoherente'
      BY DEF TypeOK, BufferCoherente, Threads
    <2>4. PeticionInv'
      BY DEF TypeOK, PeticionInv, Threads
    <2> QED BY <2>1, <2>2, <2>3, <2>4
  <1>13. ASSUME ProcesoMuere PROVE IInv'
    <2> USE <1>13 DEF ProcesoMuere, buffer
    <2>1. TypeOK'
      BY DEF TypeOK, Threads, MainPC, WorkerPC
    <2>2. DuenoInv'
      BY DEF TypeOK, DuenoInv, BajoMutex, BajoMutexTuples, Threads
    <2>3. BufferCoherente'
      BY DEF TypeOK, BufferCoherente, Threads
    <2>4. PeticionInv'
      BY DEF TypeOK, PeticionInv, Threads
    <2> QED BY <2>1, <2>2, <2>3, <2>4
  <1>14. CASE UNCHANGED vars
    BY <1>14 DEF vars, TypeOK, DuenoInv, BufferCoherente, PeticionInv,
                 BajoMutex, BajoMutexTuples
  <1>15. ASSUME MainPaso PROVE IInv'
    <2>1. CASE MainLock \/ MainLockFin
      BY <2>1, <1>3 DEF MainLock, MainLockFin, Threads
    <2>2. CASE MainEspera \/ MainUnlock \/ MainUnlockFin
      BY <2>2, <1>4 DEF MainEspera, MainUnlock, MainUnlockFin, Threads
    <2> QED BY <1>15, <2>1, <2>2, <1>5, <1>6, <1>7, <1>8 DEF MainPaso
  <1>16. ASSUME NEW w \in Workers, WorkerPaso(w) PROVE IInv'
    <2>1. w # Main /\ w \in Threads
      BY DEF Threads
    <2>2. CASE WorkerLock(w)
      BY <2>1, <2>2, <1>3 DEF WorkerLock
    <2>3. CASE WorkerSale(w) \/ WorkerEspera(w) \/ WorkerUnlock(w)
      BY <2>1, <2>3, <1>4 DEF WorkerSale, WorkerEspera, WorkerUnlock
    <2> QED BY <1>16, <2>2, <2>3, <1>9, <1>10, <1>11 DEF WorkerPaso
  <1>17. QED
    BY <1>1, <1>2, <1>12, <1>13, <1>14, <1>15, <1>16 DEF Next

LEMMA Invariante == Spec => []IInv
  BY InitIInv, StepIInv, PTL DEF Spec

-------------------------------------------------------------------------------
(* The theorems. *)

\* Type correctness: in particular n_elementos never leaves 0..MAX_PETICIONES
\* and both indices stay inside buffer_peticiones (servidor.c, 67-69, 387-389).
THEOREM TipoCorrecto == Spec => []TypeOK
  <1>1. IInv => TypeOK
    BY DEF IInv
  <1>2. QED
    BY <1>1, Invariante, PTL

\* At most one thread is inside a region guarded by `mutex`, and at most one
\* worker is inside tratar_peticion().
THEOREM Exclusion == Spec => []ExclusionMutua
  <1>1. IInv => ExclusionMutua
    BY DEF IInv, DuenoInv, ExclusionMutua
  <1>2. QED
    BY <1>1, Invariante, PTL

\* The circular buffer stays coherent: no request is overwritten before a
\* worker has taken it, and a worker takes the oldest one.
THEOREM Coherencia == Spec => []BufferCoherente
  <1>1. IInv => BufferCoherente
    BY DEF IInv
  <1>2. QED
    BY <1>1, Invariante, PTL

-------------------------------------------------------------------------------
(* No wakeup is lost, and the pool implements ColaPeticiones. *)

TrasFin == {"lockFin", "broadcast", "unlockFin", "join", "terminado"}

\* `fin` is set when main has left its loop and never before.
FinInv ==
  /\ pc[Main] \in TrasFin => fin
  /\ fin => pc[Main] \in TrasFin \cup {"muerto"}

\* The threads end in order: all of them with the process, or each worker with
\* the buffer empty for good, and main after them.
EstadoInv ==
  /\ \A w \in Workers : pc[w] = "muerto" <=> Muerto
  /\ \A w \in Workers : pc[w] = "salido" => n_elementos = 0 /\ fin
  /\ pc[Main] = "terminado" => \A w \in Workers : pc[w] = "salido"

\* A request is in one place: not yet accepted, in main's hand, in one slot, in
\* the hand of one worker, or treated.
Pasados == llegadas \cup tratadas

UnicaInv ==
  /\ llegadas \cap tratadas = {}
  /\ \A i \in 1 .. n_elementos :
       /\ EnBuffer[i] \notin Pasados
       /\ ~MainTiene(EnBuffer[i])
       /\ \A j \in 1 .. n_elementos : EnBuffer[i] = EnBuffer[j] => i = j
       /\ \A w \in Workers : EnManoDe(w) # EnBuffer[i]
  /\ \A w \in Workers : EnManoDe(w) # SinPeticion =>
       /\ EnManoDe(w) \notin Pasados
       /\ ~MainTiene(EnManoDe(w))
       /\ \A v \in Workers : EnManoDe(v) = EnManoDe(w) => v = w
  /\ \A p \in Pasados : ~MainTiene(p)

-------------------------------------------------------------------------------
(* No wakeup is lost. *)

Despiertos == {w \in Workers : pc[w] \in {"lock", "comprueba", "avanza"}}

SueInv == IInv /\ FinInv /\ SinDespertarPerdido

\* More threads on their way to the buffer, and no more requests in it.
LEMMA MasDespiertos ==
  ASSUME SinDespertarPerdido, TypeOK, TypeOK',
         n_elementos' <= n_elementos,
         \A w \in Workers : pc'[w] = "espera" => pc[w] = "espera",
         Despiertos \subseteq Despiertos'
  PROVE  EsperanNoVacio' # {} => n_elementos' <= Cardinality(Despiertos')
  <1> SUFFICES ASSUME EsperanNoVacio' # {}
               PROVE  n_elementos' <= Cardinality(Despiertos')
    OBVIOUS
  <1>1. EsperanNoVacio # {}
    BY DEF EsperanNoVacio
  <1>2. n_elementos <= Cardinality(Despiertos)
    BY <1>1 DEF SinDespertarPerdido, Despiertos
  <1>3. IsFiniteSet(Despiertos')
    BY FS_Subset, PoolAssumption DEF Despiertos
  <1>4. /\ IsFiniteSet(Despiertos)
        /\ Cardinality(Despiertos) <= Cardinality(Despiertos')
    BY <1>3, FS_Subset
  <1>5. /\ Cardinality(Despiertos) \in Nat
        /\ Cardinality(Despiertos') \in Nat
    BY <1>3, <1>4, FS_CardinalityType
  <1>6. QED
    BY <1>2, <1>4, <1>5 DEF TypeOK

LEMMA InitSueInv == Init => SueInv
  <1> SUFFICES ASSUME Init PROVE SueInv
    OBVIOUS
  <1>1. FinInv
    BY PoolAssumption DEF Init, FinInv, TrasFin, Threads
  <1>2. SinDespertarPerdido
    BY PoolAssumption
    DEF Init, SinDespertarPerdido, EsperanNoVacio, EsperanNoLleno, Threads
  <1>3. QED
    BY <1>1, <1>2, InitIInv DEF SueInv

LEMMA StepSueInv == SueInv /\ [Next]_vars => SueInv'
  <1> SUFFICES ASSUME SueInv, [Next]_vars PROVE SueInv'
    OBVIOUS
  <1> USE PoolAssumption DEF SueInv
  <1>1. IInv'
    BY StepIInv
  <1>2. TypeOK /\ TypeOK' /\ BufferCoherente
    BY <1>1 DEF IInv
  <1> HIDE DEF SueInv
  <1>3. /\ IInv /\ FinInv /\ SinDespertarPerdido
        /\ EsperanNoVacio # {} => n_elementos <= Cardinality(Despiertos)
    BY DEF SueInv, SinDespertarPerdido, Despiertos
  <1>4. ASSUME FinInv',
               EsperanNoVacio' # {} => n_elementos' <= Cardinality(Despiertos'),
               EsperanNoLleno' # {} => n_elementos' = MAX_PETICIONES,
               pc'[Main] \in {"unlockFin", "join"} => EsperanNoVacio' = {}
        PROVE  SueInv'
    BY <1>1, <1>4 DEF SueInv, SinDespertarPerdido, Despiertos
  \* Steps of main that neither move n_elementos nor wake or block a worker.
  <1>5. ASSUME NEW from, NEW to,
               Goto(Main, from, to), UNCHANGED <<n_elementos, fin>>,
               from \notin {"espera", "muerto"},
               to = "espera" => n_elementos = MAX_PETICIONES,
               from \in TrasFin <=> to \in TrasFin,
               to \in {"unlockFin", "join"} => from \in {"unlockFin", "join"}
        PROVE  SueInv'
    <2> USE <1>5 DEF Goto
    <2>1. FinInv'
      BY <1>2, <1>3 DEF TypeOK, FinInv, Threads, TrasFin
    <2>2. /\ \A w \in Workers : pc'[w] = pc[w]
          /\ pc[Main] = from /\ pc'[Main] = to
      BY <1>2 DEF TypeOK, Threads
    <2>3. EsperanNoVacio' = EsperanNoVacio /\ Despiertos' = Despiertos
      BY <2>2 DEF EsperanNoVacio, Despiertos
    <2>4. EsperanNoLleno' # {} => to = "espera"
      BY <2>2 DEF EsperanNoLleno
    <2>5. pc'[Main] \in {"unlockFin", "join"} => EsperanNoVacio' = {}
      BY <1>3, <2>2, <2>3 DEF SinDespertarPerdido
    <2> QED BY <1>3, <1>4, <2>1, <2>3, <2>4, <2>5
  \* Steps of a worker that keep it on its way, or put it there.
  <1>6. ASSUME NEW w \in Workers, NEW from, NEW to,
               Goto(w, from, to), UNCHANGED <<n_elementos, fin>>,
               to # "espera",
               from \in {"lock", "comprueba", "avanza"} =>
                 to \in {"lock", "comprueba", "avanza"} \/ n_elementos = 0
        PROVE  SueInv'
    <2> USE <1>6 DEF Goto
    <2>1. /\ pc'[Main] = pc[Main]
          /\ \A v \in Workers \ {w} : pc'[v] = pc[v]
          /\ pc[w] = from /\ pc'[w] = to
      BY <1>2 DEF TypeOK, Threads
    <2>2. FinInv' /\ EsperanNoLleno' = EsperanNoLleno
      BY <1>3, <2>1 DEF FinInv, EsperanNoLleno
    <2>3. \A v \in Workers : pc'[v] = "espera" => pc[v] = "espera"
      BY <2>1
    <2>4. EsperanNoVacio' # {} => n_elementos' <= Cardinality(Despiertos')
      <3>1. CASE Despiertos \subseteq Despiertos'
        BY <1>2, <1>3, <2>3, <3>1, MasDespiertos DEF TypeOK
      <3>2. CASE ~(Despiertos \subseteq Despiertos')
        <4>1. n_elementos' = 0
          BY <2>1, <3>2 DEF Despiertos
        <4>2. Cardinality(Despiertos') \in Nat
          BY FS_Subset, FS_CardinalityType DEF Despiertos
        <4>3. QED
          BY <4>1, <4>2
      <3>3. QED
        BY <3>1, <3>2
    <2>5. pc'[Main] \in {"unlockFin", "join"} => EsperanNoVacio' = {}
      BY <1>3, <2>1, <2>3 DEF SinDespertarPerdido, EsperanNoVacio
    <2> QED BY <1>3, <1>4, <2>2, <2>4, <2>5 DEF SinDespertarPerdido
  <1>7. ASSUME NEW p \in Peticiones, AceptaPeticion(p) \/ ErrorLectura(p)
        PROVE  SueInv'
    BY <1>5, <1>7 DEF AceptaPeticion, ErrorLectura, buffer, TrasFin
  <1>8. ASSUME MainPaso PROVE SueInv'
    <2>1. CASE \/ MainLock \/ MainEspera \/ MainCopia \/ MainUnlock
               \/ MainLockFin \/ MainUnlockFin \/ MainJoin
      BY <1>5, <2>1
      DEF MainLock, MainEspera, MainCopia, MainUnlock, MainLockFin,
          MainUnlockFin, MainJoin, TomaMutex, SueltaMutex, buffer, TrasFin
    <2>2. CASE MainFin
      <3>1. /\ \A w \in Workers : pc'[w] = pc[w]
            /\ pc'[Main] = "lockFin" /\ n_elementos' = n_elementos /\ fin'
        BY <1>2, <2>2 DEF MainFin, Goto, buffer, TypeOK, Threads
      <3>2. EsperanNoVacio' = EsperanNoVacio /\ Despiertos' = Despiertos
        BY <3>1 DEF EsperanNoVacio, Despiertos
      <3> QED BY <1>3, <1>4, <3>1, <3>2 DEF FinInv, TrasFin, EsperanNoLleno
    <2>3. CASE MainBroadcast
      <3>1. /\ \A w \in Workers : pc'[w] # "espera"
            /\ pc'[Main] = "unlockFin" /\ pc[Main] = "broadcast" /\ fin' = fin
        BY <1>2, <2>3 DEF MainBroadcast, EsperanNoVacio, TypeOK, Threads
      <3> QED BY <1>3, <1>4, <3>1
              DEF FinInv, TrasFin, EsperanNoLleno, EsperanNoVacio
    <2>4. CASE MainAvanza
      <3> USE <2>4 DEF MainAvanza
      <3>1. /\ \A w \in Workers : pc'[w] = "espera" => pc[w] = "espera"
            /\ pc'[Main] = "unlock" /\ fin' = fin
            /\ n_elementos' = n_elementos + 1
        BY <1>2 DEF SignalAndGoto, EsperanNoVacio, TypeOK, Threads
      <3>2. EsperanNoVacio' # {} => n_elementos' <= Cardinality(Despiertos')
        <4> SUFFICES ASSUME EsperanNoVacio' # {}
                     PROVE  n_elementos' <= Cardinality(Despiertos')
          OBVIOUS
        <4>1. EsperanNoVacio # {}
          BY <3>1 DEF EsperanNoVacio
        <4>2. PICK d \in EsperanNoVacio :
                pc' = [pc EXCEPT ![Main] = "unlock", ![d] = "lock"]
          BY <4>1 DEF SignalAndGoto
        <4>3. d \notin Despiertos /\ Despiertos' = Despiertos \cup {d}
          BY <1>2, <4>2 DEF Despiertos, EsperanNoVacio, TypeOK, Threads
        <4>4. IsFiniteSet(Despiertos)
          BY FS_Subset DEF Despiertos
        <4>5. Cardinality(Despiertos') = Cardinality(Despiertos) + 1
          BY <4>3, <4>4, FS_AddElement
        <4>6. Cardinality(Despiertos) \in Nat
          BY <4>4, FS_CardinalityType
        <4>7. QED
          BY <1>2, <1>3, <3>1, <4>1, <4>5, <4>6 DEF TypeOK
      <3> QED BY <1>3, <1>4, <3>1, <3>2 DEF FinInv, TrasFin, EsperanNoLleno
    <2>5. QED
      BY <1>8, <2>1, <2>2, <2>3, <2>4 DEF MainPaso
  <1>9. ASSUME NEW w \in Workers, WorkerPaso(w) PROVE SueInv'
    <2>1. CASE \/ WorkerLock(w) \/ WorkerSale(w) \/ WorkerCopia(w)
               \/ WorkerUnlock(w) \/ WorkerLockTuples(w) \/ WorkerTrata(w)
               \/ WorkerUnlockTuples(w)
      BY <1>6, <2>1
      DEF WorkerLock, WorkerSale, WorkerCopia, WorkerUnlock, WorkerLockTuples,
          WorkerTrata, WorkerUnlockTuples, TomaMutex, SueltaMutex, buffer
    <2>2. CASE WorkerEspera(w)
      <3>1. /\ n_elementos' = 0 /\ ~fin' /\ ~fin /\ pc'[Main] = pc[Main]
            /\ n_elementos = 0
        BY <1>2, <2>2 DEF WorkerEspera, SueltaMutex, Goto, buffer, TypeOK, Threads
      <3>2. Cardinality(Despiertos') \in Nat
        BY FS_Subset, FS_CardinalityType DEF Despiertos
      <3> QED BY <1>3, <1>4, <3>1, <3>2
              DEF FinInv, TrasFin, EsperanNoLleno, SinDespertarPerdido
    <2>3. CASE WorkerAvanza(w)
      <3> USE <2>3 DEF WorkerAvanza
      <3>1. /\ \A v \in Workers \ {w} : pc'[v] = pc[v]
            /\ pc[w] = "avanza" /\ pc'[w] = "unlock" /\ fin' = fin
            /\ n_elementos' = n_elementos - 1
            /\ pc'[Main] # "espera"
            /\ pc[Main] # "espera" => pc'[Main] = pc[Main]
            /\ pc[Main] = "espera" => pc'[Main] = "lock"
        BY <1>2 DEF SignalAndGoto, EsperanNoLleno, TypeOK, Threads
      <3>2. EsperanNoVacio' = EsperanNoVacio /\ EsperanNoLleno' = {}
        BY <3>1 DEF EsperanNoVacio, EsperanNoLleno
      <3>3. w \in Despiertos /\ Despiertos' = Despiertos \ {w}
        BY <3>1 DEF Despiertos
      <3>4. IsFiniteSet(Despiertos)
        BY FS_Subset DEF Despiertos
      <3>5. Cardinality(Despiertos') = Cardinality(Despiertos) - 1
        BY <3>3, <3>4, FS_RemoveElement
      <3>6. Cardinality(Despiertos) \in Nat
        BY <3>4, FS_CardinalityType
      <3>7. EsperanNoVacio' # {} => n_elementos' <= Cardinality(Despiertos')
        BY <1>2, <1>3, <3>1, <3>2, <3>5, <3>6 DEF TypeOK
      <3> QED BY <1>3, <1>4, <3>1, <3>2, <3>7
              DEF FinInv, TrasFin, SinDespertarPerdido
    <2>4. QED
      BY <1>9, <2>1, <2>2, <2>3 DEF WorkerPaso
  <1>10. ASSUME NEW t \in Threads, DespertarEspurio(t) PROVE SueInv'
    <2>1. CASE t = Main
      <3>1. /\ \A w \in Workers : pc'[w] = pc[w]
            /\ pc[Main] = "espera" /\ pc'[Main] = "lock"
            /\ UNCHANGED <<n_elementos, fin>>
        BY <1>2, <1>10, <2>1 DEF DespertarEspurio, Goto, buffer, TypeOK, Threads
      <3>2. EsperanNoVacio' = EsperanNoVacio /\ Despiertos' = Despiertos
        BY <3>1 DEF EsperanNoVacio, Despiertos
      <3> QED BY <1>3, <1>4, <3>1, <3>2 DEF FinInv, TrasFin, EsperanNoLleno
    <2>2. CASE t \in Workers
      BY <1>6, <1>10, <2>2 DEF DespertarEspurio, buffer
    <2>3. QED
      BY <2>1, <2>2 DEF Threads
  <1>11. ASSUME ProcesoMuere PROVE SueInv'
    <2>1. /\ \A t \in Threads : pc'[t] = "muerto"
          /\ Main \in Threads /\ Workers \subseteq Threads
      BY <1>11 DEF ProcesoMuere, Threads
    <2> QED BY <1>4, <2>1 DEF FinInv, TrasFin, EsperanNoVacio, EsperanNoLleno
  <1>12. CASE UNCHANGED vars
    BY <1>3, <1>4, <1>12
    DEF vars, FinInv, SinDespertarPerdido, EsperanNoVacio, EsperanNoLleno,
        Despiertos
  <1>13. QED
    BY <1>7, <1>8, <1>9, <1>10, <1>11, <1>12 DEF Next

\* No worker sleeps while there are requests that nobody is on the way to take,
\* main sleeps only before a full buffer, and the broadcast of the shutdown
\* leaves nobody asleep, spurious wakeups and deaths included (servidor.c,
\* 57-90 and 377-402).
THEOREM NingunDespertarSePierde == Spec => []SinDespertarPerdido
  <1>1. SueInv => SinDespertarPerdido
    BY DEF SueInv
  <1>2. QED
    BY <1>1, InitSueInv, StepSueInv, PTL DEF Spec

-------------------------------------------------------------------------------
(* Indices of the circular buffer and the sequence EnBuffer. *)

\* Different distances from pos_servicio, less than a lap, are different slots.
LEMMA HuecosDistintos ==
  ASSUME NEW M \in Nat \ {0}, NEW a \in 0 .. M - 1,
         NEW i \in 0 .. M - 1, NEW j \in 0 .. M - 1,
         ((a + i) % M) = ((a + j) % M)
  PROVE  i = j
  BY SMTT(60)

LEMMA EnBufferSec ==
  ASSUME IInv
  PROVE  /\ EnBuffer \in Seq(Peticiones)
         /\ Len(EnBuffer) = n_elementos
         /\ \A i \in 1 .. n_elementos :
              EnBuffer[i] =
                buffer_peticiones[(pos_servicio + (i - 1)) % MAX_PETICIONES]
  <1> USE DEF IInv
  <1>1. n_elementos \in Nat /\ pos_servicio \in Nat
    BY PoolAssumption DEF TypeOK, Slots
  <1>2. ASSUME NEW i \in 1 .. n_elementos
        PROVE  /\ EnBuffer[i] =
                    buffer_peticiones[(pos_servicio + (i - 1)) % MAX_PETICIONES]
               /\ EnBuffer[i] \in Peticiones
    <2>1. i - 1 \in 0 .. n_elementos - 1
      BY <1>1
    <2>2. pos_servicio + i - 1 = pos_servicio + (i - 1)
      BY <1>1
    <2>3. QED
      BY <2>1, <2>2 DEF EnBuffer, PeticionInv
  <1>3. DOMAIN EnBuffer = 1 .. n_elementos /\ EnBuffer \in [1 .. n_elementos -> Peticiones]
    BY <1>2 DEF EnBuffer
  <1>4. QED
    BY <1>1, <1>2, <1>3

EsSecuencia == EnBuffer \in Seq(Peticiones) /\ Len(EnBuffer) = n_elementos

LEMMA EnBufferSecPrima == IInv' => EsSecuencia'
  <1>1. IInv => EsSecuencia
    BY EnBufferSec DEF EsSecuencia
  <1>2. QED
    BY <1>1, PTL

\* The oldest request is the one at pos_servicio.
LEMMA PrimeroEnBuffer ==
  ASSUME IInv, n_elementos > 0
  PROVE  EnBuffer[1] = buffer_peticiones[pos_servicio]
  <1>1. pos_servicio \in 0 .. MAX_PETICIONES - 1 /\ 1 \in 1 .. n_elementos
    BY DEF IInv, TypeOK, Slots
  <1>2. ((pos_servicio + 0) % MAX_PETICIONES) = pos_servicio
    BY <1>1, PoolAssumption, PrimerHueco, Zenon
  <1>3. EnBuffer[1] = buffer_peticiones[(pos_servicio + (1 - 1)) % MAX_PETICIONES]
    BY <1>1, EnBufferSec
  <1>4. QED
    BY <1>2, <1>3

-------------------------------------------------------------------------------
(* What a step does to the requests: nothing, or it moves one of them on. *)

MismoEstado ==
  /\ fin' = fin
  /\ Muerto' <=> Muerto
  /\ pc'[Main] = "terminado" <=> pc[Main] = "terminado"

MismasManos == \A w \in Workers : EnManoDe(w)' = EnManoDe(w)

MismoBuffer == n_elementos' = n_elementos /\ EnBuffer' = EnBuffer

Quieto ==
  /\ MismoBuffer /\ MismasManos
  /\ llegadas' \subseteq llegadas /\ tratadas' = tratadas
  /\ \A p \in Peticiones : MainTiene(p)' => MainTiene(p)
  /\ MismoEstado \/ MainFin \/ MainJoin

Recibe(p) ==
  /\ MismoBuffer /\ MismasManos /\ MismoEstado
  /\ p \in llegadas /\ llegadas' = llegadas \ {p} /\ tratadas' = tratadas
  /\ \A q \in Peticiones : MainTiene(q)' <=> q = p

Pone(p) ==
  /\ MismasManos /\ MismoEstado /\ ~fin /\ ~Muerto /\ pc[Main] # "terminado"
  /\ UNCHANGED <<llegadas, tratadas>>
  /\ MainTiene(p) /\ \A q \in Peticiones : ~MainTiene(q)'
  /\ n_elementos < MAX_PETICIONES /\ n_elementos' = n_elementos + 1
  /\ EnBuffer'[n_elementos + 1] = p
  /\ \A i \in 1 .. n_elementos : EnBuffer'[i] = EnBuffer[i]

Quita(w) ==
  /\ MismoEstado /\ ~Muerto /\ pc[Main] # "terminado"
  /\ UNCHANGED <<llegadas, tratadas>>
  /\ \A q \in Peticiones : MainTiene(q)' <=> MainTiene(q)
  /\ n_elementos > 0 /\ n_elementos' = n_elementos - 1
  /\ EnManoDe(w) = SinPeticion /\ EnManoDe(w)' = EnBuffer[1]
  /\ \A v \in Workers \ {w} : EnManoDe(v)' = EnManoDe(v)
  /\ \A i \in 1 .. n_elementos - 1 : EnBuffer'[i] = EnBuffer[i + 1]

Acaba(w) ==
  /\ MismoBuffer /\ MismoEstado /\ ~Muerto /\ pc[Main] # "terminado"
  /\ llegadas' = llegadas
  /\ \A q \in Peticiones : MainTiene(q)' <=> MainTiene(q)
  /\ EnManoDe(w) \in Peticiones /\ EnManoDe(w)' = SinPeticion
  /\ \A v \in Workers \ {w} : EnManoDe(v)' = EnManoDe(v)
  /\ tratadas' = tratadas \cup {EnManoDe(w)}

Muere ==
  /\ MismoBuffer /\ ~Muerto /\ Muerto' /\ pc[Main] # "terminado"
  /\ UNCHANGED <<llegadas, tratadas>>
  /\ \A p \in Peticiones : ~MainTiene(p)'
  /\ \A w \in Workers : EnManoDe(w)' = SinPeticion

Efecto ==
  \/ Quieto \/ Muere
  \/ \E p \in Peticiones : Recibe(p) \/ Pone(p)
  \/ \E w \in Workers : Quita(w) \/ Acaba(w)

LEMMA InitEstadoUnica == Init => EstadoInv /\ UnicaInv
  <1> SUFFICES ASSUME Init PROVE EstadoInv /\ UnicaInv
    OBVIOUS
  <1>1. \A w \in Workers : pc[w] = "lock"
    BY PoolAssumption DEF Init, Threads
  <1>2. pc[Main] = "accept" /\ n_elementos = 0 /\ tratadas = {}
    BY DEF Init, Threads
  <1>3. EstadoInv
    BY <1>1, <1>2 DEF EstadoInv, Muerto
  <1>4. UnicaInv
    BY <1>1, <1>2 DEF UnicaInv, Pasados, MainTiene, EnManoDe
  <1>5. QED
    BY <1>3, <1>4

LEMMA StepEstado ==
  ASSUME IInv, FinInv, EstadoInv, [Next]_vars
  PROVE  EstadoInv'
  <1> USE PoolAssumption DEF Muerto
  <1>0. TypeOK /\ BufferCoherente
    BY DEF IInv
  \* A thread that is still running goes on, and leaves n_elementos as it was.
  <1>1. ASSUME NEW t \in Threads, NEW from, NEW to,
               Goto(t, from, to), fin => fin', n_elementos' = n_elementos,
               from \notin {"muerto", "salido", "terminado"}, to # "muerto",
               to = "salido" => n_elementos = 0 /\ fin,
               to = "terminado" => \A w \in Workers : pc[w] = "salido",
               t \in Workers \/ to # "salido",
               t = Main \/ to # "terminado"
        PROVE  EstadoInv'
    <2>1. /\ \A u \in Threads \ {t} : pc'[u] = pc[u]
          /\ pc[t] = from /\ pc'[t] = to
      BY <1>0, <1>1 DEF TypeOK, Goto, Threads
    <2> QED BY <1>0, <1>1, <2>1 DEF EstadoInv, Threads
  <1>2. ASSUME NEW p \in Peticiones, AceptaPeticion(p) \/ ErrorLectura(p)
        PROVE  EstadoInv'
    BY <1>1, <1>2 DEF AceptaPeticion, ErrorLectura, buffer, Threads
  <1>3. ASSUME MainPaso PROVE EstadoInv'
    <2>1. CASE \/ MainLock \/ MainEspera \/ MainCopia \/ MainUnlock \/ MainFin
               \/ MainLockFin \/ MainUnlockFin \/ MainJoin
      BY <1>1, <2>1
      DEF MainLock, MainEspera, MainCopia, MainUnlock, MainFin, MainLockFin,
          MainUnlockFin, MainJoin, TomaMutex, SueltaMutex, buffer, Threads
    <2>2. CASE MainAvanza
      <3>1. /\ \A w \in Workers : pc'[w] = pc[w] \/ (pc[w] = "espera" /\ pc'[w] = "lock")
            /\ pc[Main] = "avanza" /\ pc'[Main] = "unlock" /\ ~fin
        BY <1>0, <2>2
        DEF MainAvanza, SignalAndGoto, EsperanNoVacio, TypeOK, Threads, FinInv,
            TrasFin
      <3> QED BY <3>1 DEF EstadoInv
    <2>3. CASE MainBroadcast
      <3>1. /\ \A w \in Workers : pc'[w] = pc[w] \/ (pc[w] = "espera" /\ pc'[w] = "lock")
            /\ pc[Main] = "broadcast" /\ pc'[Main] = "unlockFin"
            /\ UNCHANGED <<fin, n_elementos>>
        BY <1>0, <2>3
        DEF MainBroadcast, EsperanNoVacio, TypeOK, Threads, buffer
      <3> QED BY <3>1 DEF EstadoInv
    <2>4. QED
      BY <1>3, <2>1, <2>2, <2>3 DEF MainPaso
  <1>4. ASSUME NEW w \in Workers, WorkerPaso(w) PROVE EstadoInv'
    <2>1. CASE \/ WorkerLock(w) \/ WorkerSale(w) \/ WorkerEspera(w)
               \/ WorkerCopia(w) \/ WorkerUnlock(w) \/ WorkerLockTuples(w)
               \/ WorkerTrata(w) \/ WorkerUnlockTuples(w)
      BY <1>1, <2>1
      DEF WorkerLock, WorkerSale, WorkerEspera, WorkerCopia, WorkerUnlock,
          WorkerLockTuples, WorkerTrata, WorkerUnlockTuples, TomaMutex,
          SueltaMutex, buffer, Threads
    <2>2. CASE WorkerAvanza(w)
      <3>1. /\ \A v \in Workers \ {w} : pc'[v] = pc[v]
            /\ pc[w] = "avanza" /\ pc'[w] = "unlock" /\ fin' = fin
            /\ pc'[Main] = pc[Main] \/ (pc[Main] = "espera" /\ pc'[Main] = "lock")
            /\ n_elementos > 0
        BY <1>0, <2>2
        DEF WorkerAvanza, SignalAndGoto, EsperanNoLleno, TypeOK, Threads,
            BufferCoherente
      <3>2. \A v \in Workers : pc[v] # "salido"
        BY <1>0, <3>1 DEF EstadoInv, TypeOK
      <3> QED BY <3>1, <3>2 DEF EstadoInv
    <2>3. QED
      BY <1>4, <2>1, <2>2 DEF WorkerPaso
  <1>5. ASSUME NEW t \in Threads, DespertarEspurio(t) PROVE EstadoInv'
    BY <1>1, <1>5 DEF DespertarEspurio, buffer
  <1>6. ASSUME ProcesoMuere PROVE EstadoInv'
    BY <1>6 DEF ProcesoMuere, EstadoInv, Threads
  <1>7. CASE UNCHANGED vars
    BY <1>7 DEF vars, EstadoInv
  <1>8. QED
    BY <1>2, <1>3, <1>4, <1>5, <1>6, <1>7 DEF Next

\* Every step has one of these effects.
LEMMA StepEfecto ==
  ASSUME IInv, FinInv, EstadoInv, IInv', [Next]_vars
  PROVE  Efecto
  <1> USE PoolAssumption DEF Muerto
  <1>0. TypeOK /\ BufferCoherente /\ TypeOK'
    BY DEF IInv
  <1>1. ASSUME UNCHANGED buffer PROVE MismoBuffer
    BY <1>1 DEF buffer, MismoBuffer, EnBuffer
  \* Steps of one thread that move no request.
  <1>2. ASSUME NEW t \in Threads, NEW from, NEW to,
               Goto(t, from, to), UNCHANGED <<fin, llegadas, tratadas>>,
               MismoBuffer,
               \/ pet' = pet
               \/ /\ t \in Workers /\ from = "comprueba"
                  /\ \E x : pet' = [pet EXCEPT ![t] = x],
               from \notin {"muerto", "terminado"},
               to \notin {"muerto", "terminado"},
               t = Main /\ to \in {"lock", "comprueba", "espera", "avanza"} =>
                 from \in {"lock", "comprueba", "espera", "avanza"},
               t \in Workers =>
                 (from \in {"unlock", "lockTuples", "trata"} <=>
                    to \in {"unlock", "lockTuples", "trata"})
        PROVE  Quieto
    <2>1. /\ \A u \in Threads \ {t} : pc'[u] = pc[u] /\ pet'[u] = pet[u]
          /\ pc[t] = from /\ pc'[t] = to
          /\ pet'[t] = pet[t] \/ (t \in Workers /\ from = "comprueba")
      BY <1>0, <1>2 DEF TypeOK, Goto
    <2>2. MismoEstado
      BY <1>2, <2>1 DEF MismoEstado, Threads
    <2>3. \A w \in Workers : EnManoDe(w)' = EnManoDe(w)
      <3> SUFFICES ASSUME NEW w \in Workers PROVE EnManoDe(w)' = EnManoDe(w)
        OBVIOUS
      <3>1. CASE w = t
        BY <1>2, <2>1, <3>1 DEF EnManoDe
      <3>2. CASE w # t
        BY <2>1, <3>2 DEF EnManoDe, Threads
      <3>3. QED
        BY <3>1, <3>2
    <2>4. \A p \in Peticiones : MainTiene(p)' => MainTiene(p)
      BY <1>2, <2>1 DEF MainTiene, Threads
    <2> QED BY <1>2, <2>2, <2>3, <2>4 DEF Quieto, MismasManos
  \* Steps that only wake threads that were asleep.
  <1>3. ASSUME \A t \in Threads : \/ pc'[t] = pc[t]
                                  \/ pc[t] = "espera" /\ pc'[t] = "lock",
               pet' = pet
        PROVE  /\ \A w \in Workers : EnManoDe(w)' = EnManoDe(w)
               /\ \A q \in Peticiones : MainTiene(q)' <=> MainTiene(q)
    BY <1>3 DEF EnManoDe, MainTiene, Threads
  <1>4. ASSUME NEW p \in Peticiones, AceptaPeticion(p) PROVE Recibe(p)
    <2>1. /\ \A w \in Workers : pc'[w] = pc[w] /\ pet'[w] = pet[w]
          /\ pc[Main] = "accept" /\ pc'[Main] = "lock" /\ pet'[Main] = p
      BY <1>0, <1>4 DEF AceptaPeticion, Goto, TypeOK, Threads
    <2>2. MismasManos /\ \A q \in Peticiones : MainTiene(q)' <=> q = p
      BY <2>1 DEF MismasManos, EnManoDe, MainTiene
    <2>3. MismoEstado
      BY <1>4, <2>1 DEF AceptaPeticion, MismoEstado
    <2> QED BY <1>1, <1>4, <2>2, <2>3 DEF AceptaPeticion, Recibe
  <1>5. ASSUME NEW p \in Peticiones, ErrorLectura(p) PROVE Quieto
    <2>1. /\ \A w \in Workers : pc'[w] = pc[w] /\ pet'[w] = pet[w]
          /\ pc[Main] = "accept" /\ pc'[Main] = "fin"
      BY <1>0, <1>5 DEF ErrorLectura, Goto, TypeOK, Threads
    <2>2. MismasManos /\ \A q \in Peticiones : ~MainTiene(q)'
      BY <2>1 DEF MismasManos, EnManoDe, MainTiene
    <2>3. MismoEstado
      BY <1>5, <2>1 DEF ErrorLectura, MismoEstado
    <2> QED BY <1>1, <1>5, <2>2, <2>3 DEF ErrorLectura, Quieto
  <1>6. ASSUME MainCopia PROVE Quieto
    <2>1. MismoBuffer
      <3>1. /\ n_elementos \in 0 .. MAX_PETICIONES - 1
            /\ pos_servicio \in 0 .. MAX_PETICIONES - 1
            /\ pos = ((pos_servicio + n_elementos) % MAX_PETICIONES)
        BY <1>0, <1>6 DEF MainCopia, TypeOK, BufferCoherente, Slots
      <3>2. ASSUME NEW i \in 1 .. n_elementos
            PROVE  buffer_peticiones'[(pos_servicio + i - 1) % MAX_PETICIONES]
                     = buffer_peticiones[(pos_servicio + i - 1) % MAX_PETICIONES]
        <4>1. i - 1 \in 0 .. MAX_PETICIONES - 1 /\ i - 1 # n_elementos
          BY <3>1
        <4>2. ((pos_servicio + (i - 1)) % MAX_PETICIONES) # pos
          BY <3>1, <4>1, HuecosDistintos, Zenon
        <4>3. pos_servicio + i - 1 = pos_servicio + (i - 1)
          BY <3>1
        <4>4. QED
          BY <1>0, <1>6, <4>2, <4>3 DEF MainCopia, TypeOK
      <3>3. QED
        BY <1>6, <3>2 DEF MainCopia, MismoBuffer, EnBuffer
    <2> QED BY <1>2, <1>6, <2>1 DEF MainCopia, Threads
  <1>7. ASSUME MainAvanza PROVE Pone(pet[Main]) /\ pet[Main] \in Peticiones
    <2> USE <1>7 DEF MainAvanza
    <2>1. /\ pc[Main] = "avanza" /\ pc'[Main] = "unlock" /\ ~fin
          /\ \A w \in Workers :
               pc'[w] = pc[w] \/ (pc[w] = "espera" /\ pc'[w] = "lock")
      BY <1>0 DEF SignalAndGoto, EsperanNoVacio, TypeOK, Threads, FinInv, TrasFin
    <2>2. MismasManos /\ MismoEstado
      BY <2>1 DEF MismasManos, EnManoDe, MismoEstado
    <2>3. /\ MainTiene(pet[Main]) /\ pet[Main] \in Peticiones
          /\ \A q \in Peticiones : ~MainTiene(q)'
      BY <2>1 DEF MainTiene, IInv, PeticionInv
    <2>4. /\ n_elementos \in 0 .. MAX_PETICIONES - 1
          /\ n_elementos' = n_elementos + 1
          /\ buffer_peticiones[(pos_servicio + n_elementos) % MAX_PETICIONES]
               = pet[Main]
      BY <1>0, <2>1 DEF TypeOK, BufferCoherente
    <2>5. \A i \in 1 .. n_elementos' :
            EnBuffer'[i] =
              buffer_peticiones[(pos_servicio + i - 1) % MAX_PETICIONES]
      BY DEF EnBuffer
    <2>6. /\ EnBuffer'[n_elementos + 1] = pet[Main]
          /\ \A i \in 1 .. n_elementos : EnBuffer'[i] = EnBuffer[i]
      <3>1. n_elementos + 1 \in 1 .. n_elementos'
        BY <2>4
      <3>2. pos_servicio + (n_elementos + 1) - 1 = pos_servicio + n_elementos
        BY <1>0, <2>4 DEF TypeOK, Slots
      <3>3. EnBuffer'[n_elementos + 1] = pet[Main]
        BY <2>4, <2>5, <3>1, <3>2
      <3>4. \A i \in 1 .. n_elementos : i \in 1 .. n_elementos'
        BY <2>4
      <3>5. QED
        BY <2>5, <3>3, <3>4 DEF EnBuffer
    <2> QED BY <2>1, <2>2, <2>3, <2>4, <2>6 DEF Pone
  <1>8. ASSUME MainFin \/ MainJoin PROVE Quieto
    <2>1. /\ \A w \in Workers : pc'[w] = pc[w]
          /\ pc'[Main] \in {"lockFin", "terminado"} /\ pet' = pet
          /\ UNCHANGED <<llegadas, tratadas>>
      BY <1>0, <1>8 DEF MainFin, MainJoin, Goto, TypeOK, Threads
    <2>2. MismasManos /\ \A q \in Peticiones : ~MainTiene(q)'
      BY <2>1 DEF MismasManos, EnManoDe, MainTiene
    <2>3. MismoBuffer
      BY <1>1, <1>8 DEF MainFin, MainJoin
    <2> QED BY <1>8, <2>1, <2>2, <2>3 DEF Quieto
  <1>9. ASSUME MainBroadcast PROVE Quieto
    <2>1. /\ \A w \in Workers :
               pc'[w] = pc[w] \/ (pc[w] = "espera" /\ pc'[w] = "lock")
          /\ pc[Main] = "broadcast" /\ pc'[Main] = "unlockFin"
          /\ UNCHANGED <<pet, fin, llegadas, tratadas>>
      BY <1>0, <1>9 DEF MainBroadcast, EsperanNoVacio, TypeOK, Threads
    <2>2. MismasManos /\ MismoEstado /\ \A q \in Peticiones : ~MainTiene(q)'
      BY <2>1 DEF MismasManos, MismoEstado, EnManoDe, MainTiene
    <2>3. MismoBuffer
      BY <1>1, <1>9 DEF MainBroadcast
    <2> QED BY <2>1, <2>2, <2>3 DEF Quieto
  <1>10. ASSUME NEW w \in Workers, WorkerAvanza(w) PROVE Quita(w)
    <2> USE <1>10 DEF WorkerAvanza
    <2>1. /\ pc[w] = "avanza" /\ pc'[w] = "unlock" /\ ~Muerto
          /\ \A v \in Workers \ {w} : pc'[v] = pc[v]
          /\ pc'[Main] = pc[Main] \/ (pc[Main] = "espera" /\ pc'[Main] = "lock")
          /\ pc[Main] # "terminado"
          /\ UNCHANGED <<pet, fin, llegadas, tratadas>>
      BY <1>0 DEF SignalAndGoto, EsperanNoLleno, TypeOK, Threads, EstadoInv
    <2>2. MismoEstado /\ \A q \in Peticiones : MainTiene(q)' <=> MainTiene(q)
      BY <2>1 DEF MismoEstado, MainTiene
    <2>3. n_elementos > 0 /\ pet[w] = EnBuffer[1]
      <3>1. n_elementos > 0 /\ pet[w] = buffer_peticiones[pos_servicio]
        BY <1>0, <2>1 DEF BufferCoherente
      <3>2. QED
        BY <3>1, PrimeroEnBuffer
    <2>4. /\ EnManoDe(w) = SinPeticion /\ EnManoDe(w)' = pet[w]
          /\ \A v \in Workers \ {w} : EnManoDe(v)' = EnManoDe(v)
      BY <2>1 DEF EnManoDe
    <2>5. \A i \in 1 .. n_elementos - 1 : EnBuffer'[i] = EnBuffer[i + 1]
      <3> SUFFICES ASSUME NEW i \in 1 .. n_elementos - 1
                   PROVE  EnBuffer'[i] = EnBuffer[i + 1]
        OBVIOUS
      <3>1. /\ pos_servicio \in 0 .. MAX_PETICIONES - 1
            /\ i - 1 \in 0 .. MAX_PETICIONES - 1
            /\ i + 1 \in 1 .. n_elementos /\ (i + 1) - 1 = (i - 1) + 1
            /\ i \in 1 .. n_elementos'
        BY <1>0 DEF TypeOK, Slots
      <3>2. ((((pos_servicio + 1) % MAX_PETICIONES) + (i - 1)) % MAX_PETICIONES)
              = ((pos_servicio + ((i - 1) + 1)) % MAX_PETICIONES)
        BY <3>1, PoolAssumption, AvanzaPosServicio, Zenon
      <3>3. EnBuffer[i + 1] =
              buffer_peticiones[(pos_servicio + ((i + 1) - 1)) % MAX_PETICIONES]
        BY <3>1, EnBufferSec
      <3>4. EnBuffer'[i] =
              buffer_peticiones'[(pos_servicio' + (i - 1)) % MAX_PETICIONES]
        <4>1. n_elementos' \in Nat /\ pos_servicio' \in Nat
          BY <1>0 DEF TypeOK, Slots
        <4>2. pos_servicio' + i - 1 = pos_servicio' + (i - 1)
          BY <3>1, <4>1
        <4>3. QED
          BY <3>1, <4>2 DEF EnBuffer
      <3>5. QED
        BY <3>1, <3>2, <3>3, <3>4
    <2> QED BY <2>1, <2>2, <2>3, <2>4, <2>5 DEF Quita
  <1>11. ASSUME NEW w \in Workers, WorkerTrata(w) PROVE Acaba(w)
    <2>1. /\ pc[w] = "trata" /\ pc'[w] = "unlockTuples" /\ ~Muerto
          /\ \A v \in Threads \ {w} : pc'[v] = pc[v]
          /\ pc[Main] # "terminado" /\ pc'[Main] = pc[Main]
          /\ UNCHANGED <<pet, fin, llegadas>>
          /\ tratadas' = tratadas \cup {pet[w]}
      BY <1>0, <1>11 DEF WorkerTrata, Goto, TypeOK, Threads, EstadoInv
    <2>2. MismoEstado /\ \A q \in Peticiones : MainTiene(q)' <=> MainTiene(q)
      BY <2>1 DEF MismoEstado, MainTiene
    <2>3. /\ EnManoDe(w) = pet[w] /\ EnManoDe(w)' = SinPeticion
          /\ pet[w] \in Peticiones
          /\ \A v \in Workers \ {w} : EnManoDe(v)' = EnManoDe(v)
      BY <2>1 DEF EnManoDe, Threads, IInv, PeticionInv
    <2>4. MismoBuffer
      BY <1>1, <1>11 DEF WorkerTrata
    <2> QED BY <2>1, <2>2, <2>3, <2>4 DEF Acaba
  <1>12. ASSUME ProcesoMuere PROVE Muere
    <2>1. /\ \A t \in Threads : pc'[t] = "muerto"
          /\ pc[Main] # "terminado" /\ pc[Main] # "muerto"
          /\ UNCHANGED <<llegadas, tratadas>>
      BY <1>12 DEF ProcesoMuere, EstadoInv, Threads
    <2>2. /\ \A w \in Workers : EnManoDe(w)' = SinPeticion
          /\ \A p \in Peticiones : ~MainTiene(p)'
      BY <2>1 DEF EnManoDe, MainTiene, Threads
    <2>3. MismoBuffer
      BY <1>1, <1>12 DEF ProcesoMuere
    <2> QED BY <2>1, <2>2, <2>3 DEF Muere, Threads
  <1>13. CASE UNCHANGED vars
    <2>1. MismasManos /\ MismoEstado /\ \A q \in Peticiones : MainTiene(q)' <=> MainTiene(q)
      BY <1>13 DEF vars, MismasManos, MismoEstado, EnManoDe, MainTiene
    <2>2. MismoBuffer
      BY <1>1, <1>13 DEF vars, buffer
    <2> QED BY <1>13, <2>1, <2>2 DEF vars, Efecto, Quieto
  <1>14. ASSUME MainPaso PROVE Efecto
    <2>1. CASE MainLock \/ MainEspera \/ MainUnlock \/ MainLockFin \/ MainUnlockFin
      <3>1. Quieto
        BY <1>1, <1>2, <2>1
        DEF MainLock, MainEspera, MainUnlock, MainLockFin, MainUnlockFin,
            TomaMutex, SueltaMutex, Threads
      <3> QED BY <3>1 DEF Efecto
    <2> QED BY <1>14, <2>1, <1>6, <1>7, <1>8, <1>9 DEF MainPaso, Efecto
  <1>15. ASSUME NEW w \in Workers, WorkerPaso(w) PROVE Efecto
    <2>1. CASE \/ WorkerLock(w) \/ WorkerSale(w) \/ WorkerEspera(w)
               \/ WorkerCopia(w) \/ WorkerUnlock(w) \/ WorkerLockTuples(w)
               \/ WorkerUnlockTuples(w)
      <3>1. Quieto
        BY <1>1, <1>2, <2>1
        DEF WorkerLock, WorkerSale, WorkerEspera, WorkerCopia, WorkerUnlock,
            WorkerLockTuples, WorkerUnlockTuples, TomaMutex, SueltaMutex, Threads
      <3> QED BY <3>1 DEF Efecto
    <2> QED BY <1>15, <2>1, <1>10, <1>11 DEF WorkerPaso, Efecto
  <1>16. ASSUME NEW t \in Threads, DespertarEspurio(t) PROVE Quieto
    BY <1>1, <1>2, <1>16 DEF DespertarEspurio, Threads
  <1>17. QED
    BY <1>4, <1>5, <1>12, <1>13, <1>14, <1>15, <1>16 DEF Next, Efecto

\* Each effect keeps every request in one place.
LEMMA StepUnica ==
  ASSUME IInv, IInv', UnicaInv, Efecto
  PROVE  UnicaInv'
  <1>0. /\ n_elementos \in Nat /\ n_elementos' \in Nat
        /\ llegadas \subseteq Peticiones /\ tratadas \subseteq Peticiones
        /\ llegadas' \subseteq Peticiones /\ tratadas' \subseteq Peticiones
        /\ SinPeticion \notin Peticiones
        /\ \A i \in 1 .. n_elementos : EnBuffer[i] \in Peticiones
        /\ \A w \in Workers : EnManoDe(w) \in Peticiones \cup {SinPeticion}
    <2>1. \A i \in 1 .. n_elementos : EnBuffer[i] \in Peticiones
      BY EnBufferSec DEF IInv, TypeOK
    <2>2. \A w \in Workers : EnManoDe(w) \in Peticiones \cup {SinPeticion}
      BY DEF IInv, TypeOK, EnManoDe, Threads
    <2> QED BY <2>1, <2>2, PoolAssumption DEF IInv, TypeOK
  <1>1. CASE Quieto
    BY <1>0, <1>1 DEF Quieto, MismoBuffer, MismasManos, UnicaInv, Pasados
  <1>2. CASE Muere
    BY <1>0, <1>2 DEF Muere, MismoBuffer, UnicaInv, Pasados
  <1>3. ASSUME NEW p \in Peticiones, Recibe(p) PROVE UnicaInv'
    BY <1>0, <1>3 DEF Recibe, MismoBuffer, MismasManos, UnicaInv, Pasados
  <1>4. ASSUME NEW p \in Peticiones, Pone(p) PROVE UnicaInv'
    <2> USE <1>4 DEF Pone, MismasManos
    <2>1. /\ p \notin Pasados
          /\ \A i \in 1 .. n_elementos : EnBuffer[i] # p
          /\ \A w \in Workers : EnManoDe(w) # p
      BY <1>0 DEF UnicaInv
    <2>2. \A i \in 1 .. n_elementos' : i \in 1 .. n_elementos \/ i = n_elementos + 1
      BY <1>0
    <2>3. \A i \in 1 .. n_elementos' :
            /\ EnBuffer'[i] \in Peticiones
            /\ EnBuffer'[i] \notin Pasados
            /\ \A j \in 1 .. n_elementos' : EnBuffer'[i] = EnBuffer'[j] => i = j
            /\ \A w \in Workers : EnManoDe(w) # EnBuffer'[i]
      BY <1>0, <2>1, <2>2 DEF UnicaInv
    <2> QED BY <1>0, <2>3 DEF UnicaInv, Pasados
  <1>5. ASSUME NEW w \in Workers, Quita(w) PROVE UnicaInv'
    <2> USE <1>5 DEF Quita
    <2>1. \A i \in 1 .. n_elementos' :
            i + 1 \in 1 .. n_elementos /\ i + 1 # 1 /\ EnBuffer'[i] = EnBuffer[i + 1]
      BY <1>0
    <2>2. 1 \in 1 .. n_elementos
      BY <1>0
    <2>3. \A i \in 1 .. n_elementos' :
            /\ EnBuffer'[i] \in Peticiones
            /\ EnBuffer'[i] \notin Pasados
            /\ ~MainTiene(EnBuffer'[i])
            /\ \A j \in 1 .. n_elementos' : EnBuffer'[i] = EnBuffer'[j] => i = j
            /\ \A v \in Workers : EnManoDe(v)' # EnBuffer'[i]
      <3> SUFFICES ASSUME NEW i \in 1 .. n_elementos'
                   PROVE  /\ EnBuffer'[i] \in Peticiones
                          /\ EnBuffer'[i] \notin Pasados
                          /\ ~MainTiene(EnBuffer'[i])
                          /\ \A j \in 1 .. n_elementos' :
                               EnBuffer'[i] = EnBuffer'[j] => i = j
                          /\ \A v \in Workers : EnManoDe(v)' # EnBuffer'[i]
        OBVIOUS
      <3>1. \A j \in 1 .. n_elementos' : EnBuffer'[i] = EnBuffer'[j] => i = j
        BY <1>0, <2>1 DEF UnicaInv
      <3>2. \A v \in Workers : EnManoDe(v)' # EnBuffer'[i]
        BY <1>0, <2>1, <2>2 DEF UnicaInv
      <3> QED BY <1>0, <2>1, <3>1, <3>2 DEF UnicaInv
    <2>4. \A v \in Workers : EnManoDe(v)' # SinPeticion =>
            /\ EnManoDe(v)' \in Peticiones
            /\ EnManoDe(v)' \notin Pasados
            /\ ~MainTiene(EnManoDe(v)')
            /\ \A u \in Workers : EnManoDe(u)' = EnManoDe(v)' => u = v
      BY <1>0, <2>2 DEF UnicaInv
    <2> QED BY <1>0, <2>3, <2>4 DEF UnicaInv, Pasados
  <1>6. ASSUME NEW w \in Workers, Acaba(w) PROVE UnicaInv'
    <2> USE <1>6 DEF Acaba, MismoBuffer
    <2>1. /\ EnManoDe(w) \notin llegadas
          /\ ~MainTiene(EnManoDe(w))
          /\ \A i \in 1 .. n_elementos : EnBuffer[i] # EnManoDe(w)
          /\ \A v \in Workers \ {w} : EnManoDe(v) # EnManoDe(w)
      BY <1>0 DEF UnicaInv, Pasados
    <2> QED BY <1>0, <2>1 DEF UnicaInv, Pasados
  <1>7. QED
    BY <1>1, <1>2, <1>3, <1>4, <1>5, <1>6 DEF Efecto

-------------------------------------------------------------------------------
(* The refinement. *)

RefInv == SueInv /\ EstadoInv /\ UnicaInv

LEMMA RefInvariante == Spec => []RefInv
  <1>1. Init => RefInv
    BY InitSueInv, InitEstadoUnica DEF RefInv
  <1>2. RefInv /\ [Next]_vars => RefInv'
    <2> SUFFICES ASSUME RefInv, [Next]_vars PROVE RefInv'
      OBVIOUS
    <2>1. SueInv' /\ IInv /\ IInv' /\ FinInv
      BY StepSueInv DEF RefInv, SueInv
    <2>2. EstadoInv'
      BY <2>1, StepEstado DEF RefInv
    <2>3. Efecto
      BY <2>1, StepEfecto DEF RefInv
    <2>4. UnicaInv'
      BY <2>1, <2>3, StepUnica DEF RefInv
    <2>5. QED
      BY <2>1, <2>2, <2>4 DEF RefInv
  <1>3. QED
    BY <1>1, <1>2, PTL DEF Spec

LEMMA InitCola == Init => Cola!Init
  <1> SUFFICES ASSUME Init PROVE Cola!Init
    OBVIOUS
  <1>1. /\ pc[Main] = "accept" /\ ~fin /\ n_elementos = 0 /\ tratadas = {}
        /\ \A w \in Workers : pc[w] = "lock"
    BY PoolAssumption DEF Init, Threads
  <1>2. EnBuffer = <<>>
    BY <1>1 DEF EnBuffer
  <1>3. \A w \in Workers : EnManoDe(w) = SinPeticion
    BY <1>1 DEF EnManoDe
  <1>4. QED
    BY <1>1, <1>2, <1>3 DEF Cola!Init, Muerto

\* The states of the pool are those of the abstract queue.
LEMMA StepCola ==
  ASSUME RefInv, RefInv', [Next]_vars
  PROVE  [Cola!Next]_(Cola!vars)
  <1>1. IInv /\ IInv' /\ FinInv /\ EstadoInv /\ UnicaInv /\ FinInv' /\ EstadoInv'
    BY DEF RefInv, SueInv
  <1>2. Efecto
    BY <1>1, StepEfecto
  <1>3. /\ EnBuffer \in Seq(Peticiones) /\ Len(EnBuffer) = n_elementos
        /\ EnBuffer' \in Seq(Peticiones) /\ Len(EnBuffer') = n_elementos'
        /\ n_elementos \in Nat /\ n_elementos' \in Nat
    BY <1>1, EnBufferSec, EnBufferSecPrima, PoolAssumption
    DEF EsSecuencia, IInv, TypeOK
  <1> DEFINE S == [w \in Workers |-> EnManoDe(w)]
             E == IF Muerto THEN "muerta"
                  ELSE IF pc[Main] = "terminado" THEN "terminada"
                  ELSE IF fin THEN "cerrada" ELSE "abierta"
             C == IF Muerto THEN <<>> ELSE EnBuffer
  <1>5. CASE Quieto /\ MismoEstado
    <2>1. C' = C /\ S' = S /\ E' = E /\ tratadas' = tratadas
      BY <1>5 DEF Quieto, MismoEstado, MismoBuffer, MismasManos, Muerto
    <2>2. QED
      BY <2>1 DEF Cola!vars
  <1>6. ASSUME NEW p \in Peticiones, Recibe(p) PROVE UNCHANGED Cola!vars
    <2>1. C' = C /\ S' = S /\ E' = E /\ tratadas' = tratadas
      BY <1>6 DEF Recibe, MismoEstado, MismoBuffer, MismasManos, Muerto
    <2>2. QED
      BY <2>1 DEF Cola!vars
  <1>7. CASE Quieto /\ MainFin
    <2>1. ~fin /\ fin' /\ ~Muerto /\ ~Muerto' /\ pc[Main] # "terminado"
          /\ pc'[Main] # "terminado"
      BY <1>1, <1>7 DEF MainFin, Goto, Muerto, FinInv, TrasFin, IInv, TypeOK, Threads
    <2>2. C' = C /\ S' = S /\ E = "abierta" /\ E' = "cerrada" /\ tratadas' = tratadas
      BY <1>7, <2>1 DEF Quieto, MismoBuffer, MismasManos, Muerto
    <2>3. QED
      BY <2>2 DEF Cola!Next, Cola!Cerrar
  <1>8. CASE Quieto /\ MainJoin
    <2>1. /\ fin /\ fin' /\ pc[Main] = "join" /\ pc'[Main] = "terminado"
          /\ \A w \in Workers : pc[w] = "salido"
          /\ n_elementos = 0
      BY <1>1, <1>8, PoolAssumption
      DEF MainJoin, Goto, FinInv, TrasFin, IInv, TypeOK, Threads, EstadoInv
    <2>2. /\ E = "cerrada" /\ E' = "terminada" /\ tratadas' = tratadas
          /\ C' = C /\ S' = S
      BY <1>8, <2>1 DEF Quieto, MismoBuffer, MismasManos, Muerto
    <2>3. C = <<>>
      BY <1>3, <2>1
    <2>4. {S[w] : w \in Workers} \subseteq {SinPeticion}
      BY <2>1 DEF EnManoDe
    <2>5. QED
      BY <2>2, <2>3, <2>4 DEF Cola!Next, Cola!Terminar, Cola!EnServicio
  <1>9. ASSUME NEW p \in Peticiones, Pone(p) PROVE Cola!Next
    <2> USE <1>9 DEF Pone
    <2>1. E = "abierta" /\ E' = E /\ S' = S /\ C = EnBuffer /\ C' = EnBuffer'
      BY DEF MismoEstado, MismasManos, Muerto
    <2>2. EnBuffer' = Append(EnBuffer, p)
      <3>1. /\ Append(EnBuffer, p) \in Seq(Peticiones)
            /\ Len(Append(EnBuffer, p)) = n_elementos + 1
            /\ \A i \in 1 .. n_elementos : Append(EnBuffer, p)[i] = EnBuffer[i]
            /\ Append(EnBuffer, p)[n_elementos + 1] = p
        BY <1>3
      <3>2. \A i \in 1 .. n_elementos + 1 : EnBuffer'[i] = Append(EnBuffer, p)[i]
        BY <1>3, <3>1
      <3>3. QED
        BY <1>3, <3>1, <3>2, SeqEqual
    <2>3. p \notin {C[i] : i \in 1 .. Len(C)} \cup {S[w] : w \in Workers} \cup tratadas
      <3>1. \A i \in 1 .. Len(C) : C[i] # p
        BY <1>1, <1>3, <2>1 DEF UnicaInv
      <3>2. \A w \in Workers : S[w] # p
        BY <1>1, PoolAssumption DEF UnicaInv
      <3>3. p \notin tratadas
        BY <1>1 DEF UnicaInv, Pasados
      <3>4. QED
        BY <3>1, <3>2, <3>3
    <2>4. Cola!Encolar(p)
      BY <1>3, <2>1, <2>2, <2>3 DEF Cola!Encolar, Cola!EnCola, Cola!EnServicio
    <2> QED BY <2>4 DEF Cola!Next
  <1>10. ASSUME NEW w \in Workers, Quita(w) PROVE Cola!Next
    <2> USE <1>10 DEF Quita
    <2>1. /\ E' = E /\ E \in {"abierta", "cerrada"}
          /\ C = EnBuffer /\ C' = EnBuffer' /\ tratadas' = tratadas
      BY DEF MismoEstado, Muerto
    <2>2. C # <<>> /\ Head(C) = EnBuffer[1]
      BY <1>3, <2>1
    <2>3. S[w] = SinPeticion /\ S' = [S EXCEPT ![w] = Head(C)]
      BY <2>2
    <2>4. EnBuffer' = Tail(EnBuffer)
      <3>1. /\ Tail(EnBuffer) \in Seq(Peticiones)
            /\ Len(Tail(EnBuffer)) = n_elementos - 1
            /\ \A i \in 1 .. n_elementos - 1 : Tail(EnBuffer)[i] = EnBuffer[i + 1]
        BY <1>3, <2>1, <2>2
      <3>2. \A i \in 1 .. n_elementos - 1 : EnBuffer'[i] = Tail(EnBuffer)[i]
        BY <1>3, <3>1
      <3>3. QED
        BY <1>3, <3>1, <3>2, SeqEqual
    <2>5. Cola!Sacar(w)
      BY <2>1, <2>2, <2>3, <2>4 DEF Cola!Sacar
    <2> QED BY <2>5 DEF Cola!Next
  <1>11. ASSUME NEW w \in Workers, Acaba(w) PROVE Cola!Next
    <2> USE <1>11 DEF Acaba
    <2>1. E' = E /\ E \in {"abierta", "cerrada"} /\ C' = C
      BY DEF MismoEstado, MismoBuffer, Muerto
    <2>2. S[w] # SinPeticion /\ tratadas' = tratadas \cup {S[w]}
      BY PoolAssumption
    <2>3. S' = [S EXCEPT ![w] = SinPeticion]
      <3>1. \A v \in Workers : S'[v] = IF v = w THEN SinPeticion ELSE S[v]
        OBVIOUS
      <3> QED BY <3>1
    <2>4. Cola!Tratar(w)
      BY <2>1, <2>2, <2>3 DEF Cola!Tratar
    <2> QED BY <2>4 DEF Cola!Next
  <1>12. CASE Muere
    <2>1. /\ E \in {"abierta", "cerrada"} /\ E' = "muerta" /\ C' = <<>>
          /\ S' = [w \in Workers |-> SinPeticion] /\ tratadas' = tratadas
      BY <1>12 DEF Muere, Muerto
    <2>2. QED
      BY <2>1 DEF Cola!Next, Cola!Morir
  <1>13. CASE Quieto
    BY <1>5, <1>7, <1>8, <1>13 DEF Quieto
  <1>14. QED
    BY <1>2, <1>6, <1>9, <1>10, <1>11, <1>12, <1>13 DEF Efecto

\* The pool implements the queue of ColaPeticiones: every step of a thread is a
\* stutter or one step of the queue, so a request is queued, taken in order and
\* treated once, and an orderly shutdown leaves none behind (servidor.c, 50-104
\* and 366-417).
THEOREM Refinamiento == Spec => ImplementaCola
  <1>1. RefInv /\ RefInv' /\ [Next]_vars => [Cola!Next]_(Cola!vars)
    BY StepCola
  <1>2. QED
    BY <1>1, InitCola, RefInvariante, PTL DEF Spec, ImplementaCola, Cola!Spec
===============================================================================
