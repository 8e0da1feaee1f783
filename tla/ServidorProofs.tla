---------------------------- MODULE ServidorProofs ----------------------------
(***************************************************************************)
(* The server and the directories it keeps, for any users, files, workers, *)
(* connections and requests, with clients that stop or die, system calls   *)
(* that fail and any number of restarts: types, exclusion, who changes a   *)
(* user's files, and how long an answer stays true.  Last, Servidor        *)
(* implements Catalogo when no system call fails: the clients, the workers *)
(* and the directories answer as one catalogue that serves one request at  *)
(* a time, and that says what a death of the process may cost.             *)
(***************************************************************************)
EXTENDS Servidor, SequenceTheorems, TLAPS

-------------------------------------------------------------------------------
(* The invariants. *)

\* The directories: their types and, while a directory is missing, no files.
DiscoOK ==
  /\ dir_registered \in BOOLEAN /\ dir_active \in BOOLEAN
  /\ registered_users \in
       [Nombres -> Seq(EntradasEnDisco) \cup {NoFile, Ilegible}]
  /\ active_users \in [Nombres -> Destinos \cup {NoFile}]
  /\ ~dir_registered => \A u \in Nombres : registered_users[u] = NoFile
  /\ ~dir_active => \A u \in Nombres : active_users[u] = NoFile

\* A read error in publish() passes for the end of the file, so that a path may
\* be there twice when the failures that the code ignores happen.
DiscoInv == DiscoOK /\ (~Ignorados => SinDuplicados)

Ejecutado(w) == hilo[w].pc \in {"envia", "lista", "fecha", "log", "cierra"}
Critica(w) == Ejecutado(w) \/ hilo[w].pc \in {"trata", "cuelga"}

\* A worker inside tratar_peticion() owns mutex_tuples.
MutexInv == \A w \in Workers : Critica(w) => mutex_tuples = w

\* TypeOK without the directories.
MemoriaOK ==
  /\ servidor \in {"abierto", "cerrado", "muerto"}
  /\ arranques \in 1 .. MAX_ARRANQUES
  /\ leyendo \in Conexiones \cup {Nadie}
  /\ pet \in Peticion
  /\ cola \in Seq([con : Conexiones, pet : Peticion])
  /\ Len(cola) <= MAX_PETICIONES
  /\ mutex_tuples \in Workers \cup {Nadie}
  /\ hilo \in [Workers -> EstadoHilo]
  /\ \A w \in Workers : hilo[w].pc # "libre" => hilo[w].con \in Conexiones
  /\ cliente \in [Conexiones -> EstadoCliente]
  /\ historia \in Seq(Ejecucion)
  /\ log \in Seq([con : Conexiones, aTiempo : BOOLEAN])
  /\ rpc \subseteq Conexiones

\* A dead process has no threads, so none survives a restart.
MuertoInv == servidor = "muerto" => \A w \in Workers : hilo[w].pc = "libre"

SrvInv == MemoriaOK /\ DiscoInv /\ MutexInv /\ MuertoInv /\ RespuestaVigente

-------------------------------------------------------------------------------
(* Types of the operators on requests. *)

LEMMA PetBasuraTipo == PetBasura \in Peticion
  BY ServidorAssumption DEF PetBasura, Peticion, Campos

\* The fields on the wire are fields of the struct, two at least, four at most.
LEMMA CableTipo ==
  ASSUME NEW com
  PROVE  EnElCable(com) \in Seq(Campos) /\ Len(EnElCable(com)) \in 2 .. 4
  <1> DEFINE S2 == <<"command_str", "client_user_name">>
             S3(x) == <<"command_str", "client_user_name", x>>
             S4 == <<"command_str", "client_user_name", "file_name", "description">>
  <1>1. S2 \in Seq(Campos) /\ Len(S2) = 2
    BY DEF Campos
  <1>2. ASSUME NEW x \in Campos PROVE S3(x) \in Seq(Campos) /\ Len(S3(x)) = 3
    BY <1>2 DEF Campos
  <1>3. S4 \in Seq(Campos) /\ Len(S4) = 4
    BY DEF Campos
  <1>4. \/ EnElCable(com) = S2
        \/ \E x \in Campos : EnElCable(com) = S3(x)
        \/ EnElCable(com) = S4
    BY DEF EnElCable, Campos
  <1> HIDE DEF S2, S3, S4
  <1>5. QED
    BY <1>1, <1>2, <1>3, <1>4

LEMMA read_to_petTipo ==
  ASSUME NEW viejo \in Peticion, NEW sol \in Peticion, NEW k
  PROVE  read_to_pet(viejo, sol, k) \in Peticion
  BY DEF read_to_pet, Peticion, Campos

LEMMA LibreTipo == Libre \in EstadoHilo
  BY PetBasuraTipo DEF Libre, EstadoHilo, Listados

LEMMA NuevaTipo == Nueva \in EstadoCliente
  BY PetBasuraTipo DEF Nueva, EstadoCliente, Listados

-------------------------------------------------------------------------------
(* Sequences of publications. *)

\* No path twice.
SinRepetir(s) == \A i, j \in 1 .. Len(s) : s[i][1] = s[j][1] => i = j

LEMMA AnadeSinRepetir ==
  ASSUME NEW s \in Seq(EntradasEnDisco), NEW e \in EntradasEnDisco,
         SinRepetir(s), \A i \in 1 .. Len(s) : s[i][1] # e[1]
  PROVE  /\ Append(s, e) \in Seq(EntradasEnDisco)
         /\ SinRepetir(Append(s, e))
         /\ Contains(Append(s, e), e)
  BY SMTT(30) DEF SinRepetir, Contains

\* Without a line and without the last ones, no line of its path is left, and
\* none is twice.
LEMMA HastaSinRepetir ==
  ASSUME NEW s \in Seq(EntradasEnDisco), NEW i \in 1 .. Len(s),
         NEW k \in 0 .. Len(s) - i
  PROVE  /\ Hasta(s, i, k) \in Seq(EntradasEnDisco)
         /\ SinRepetir(s) =>
              /\ SinRepetir(Hasta(s, i, k))
              /\ \A j \in 1 .. Len(Hasta(s, i, k)) : Hasta(s, i, k)[j][1] # s[i][1]
  <1> DEFINE a == SubSeq(s, 1, i - 1)
             b == SubSeq(s, i + 1, i + k)
             h == Hasta(s, i, k)
  <1>0. Len(s) \in Nat /\ i \in Int /\ k \in Int
    OBVIOUS
  <1>1. /\ a \in Seq(EntradasEnDisco) /\ Len(a) = i - 1
        /\ \A j \in 1 .. i - 1 : a[j] = s[j]
    OBVIOUS
  <1>2. /\ b \in Seq(EntradasEnDisco) /\ Len(b) = k
        /\ \A j \in 1 .. k : b[j] = s[i + j]
    OBVIOUS
  <1>3. /\ h \in Seq(EntradasEnDisco)
        /\ Len(h) = i - 1 + k
        /\ \A j \in 1 .. i - 1 + k : h[j] = s[IF j < i THEN j ELSE j + 1]
    <2>1. h = a \o b
      BY DEF Hasta
    <2> HIDE DEF a, b, h
    <2>2. /\ a \o b \in Seq(EntradasEnDisco)
          /\ Len(a \o b) = Len(a) + Len(b)
          /\ \A j \in 1 .. Len(a) + Len(b) :
               (a \o b)[j] = IF j <= Len(a) THEN a[j] ELSE b[j - Len(a)]
      BY <1>1, <1>2, ConcatProperties
    <2>3. Len(a) + Len(b) = i - 1 + k
      BY <1>0, <1>1, <1>2
    <2>4. ASSUME NEW j \in 1 .. i - 1 + k
          PROVE  (a \o b)[j] = s[IF j < i THEN j ELSE j + 1]
      <3>0. j \in 1 .. Len(a) + Len(b) /\ j \in Int
        BY <1>0, <2>3
      <3>1. CASE j < i
        <4>1. j <= Len(a) /\ j \in 1 .. i - 1
          BY <1>0, <1>1, <3>0, <3>1
        <4>2. QED
          BY <1>1, <2>2, <3>0, <3>1, <4>1
      <3>2. CASE ~(j < i)
        <4>1. /\ ~(j <= Len(a)) /\ j - Len(a) \in 1 .. k
              /\ i + (j - Len(a)) = j + 1
          BY <1>0, <1>1, <3>0, <3>2
        <4>2. (a \o b)[j] = b[j - Len(a)]
          BY <2>2, <3>0, <4>1
        <4>3. QED
          BY <1>2, <3>2, <4>1, <4>2
      <3>3. QED
        BY <3>1, <3>2
    <2>5. QED
      BY <2>1, <2>2, <2>3, <2>4
  <1> HIDE DEF a, b, h
  <1>4. ASSUME NEW j \in 1 .. i - 1 + k
        PROVE  /\ (IF j < i THEN j ELSE j + 1) \in 1 .. Len(s)
               /\ (IF j < i THEN j ELSE j + 1) # i
    BY <1>0
  <1>5. ASSUME SinRepetir(s) PROVE SinRepetir(h)
    <2> SUFFICES ASSUME NEW j \in 1 .. i - 1 + k, NEW l \in 1 .. i - 1 + k,
                        h[j][1] = h[l][1]
                 PROVE  j = l
      BY <1>3 DEF SinRepetir
    <2> DEFINE en(m) == IF m < i THEN m ELSE m + 1
    <2>1. en(j) \in 1 .. Len(s) /\ en(l) \in 1 .. Len(s)
      BY <1>4
    <2>2. s[en(j)][1] = s[en(l)][1]
      BY <1>3
    <2>3. en(j) = en(l)
      <3> HIDE DEF en
      <3> QED BY <1>5, <2>1, <2>2 DEF SinRepetir
    <2>4. QED
      BY <1>0, <2>3
  <1>6. ASSUME SinRepetir(s) PROVE \A j \in 1 .. i - 1 + k : h[j][1] # s[i][1]
    BY <1>3, <1>4, <1>6 DEF SinRepetir
  <1>7. QED
    BY <1>3, <1>5, <1>6 DEF h

\* What delete() may leave of a file, whole or cut.
LEMMA LoQueQueda ==
  ASSUME NEW s \in Seq(EntradasEnDisco), NEW i \in 1 .. Len(s),
         NEW x \in {RemoveAt(s, i)} \cup Truncados(s, i) \cup SinTruncar(s, i)
  PROVE  /\ x \in Seq(EntradasEnDisco) \cup {Ilegible}
         /\ x # Ilegible /\ SinRepetir(s)
            /\ x \in {RemoveAt(s, i)} \cup Truncados(s, i) =>
              /\ SinRepetir(x)
              /\ \A j \in 1 .. Len(x) : x[j][1] # s[i][1]
  <1>0. Len(s) \in Nat
    OBVIOUS
  <1>1. CASE x = RemoveAt(s, i)
    <2>1. Len(s) - i \in 0 .. Len(s) - i /\ i + (Len(s) - i) = Len(s)
      BY <1>0
    <2>2. x = Hasta(s, i, Len(s) - i)
      BY <1>1, <2>1 DEF RemoveAt, Hasta
    <2> QED BY <2>1, <2>2, HastaSinRepetir
  <1>2. CASE x \in Truncados(s, i)
    BY <1>2, HastaSinRepetir DEF Truncados
  <1>3. CASE /\ x \in SinTruncar(s, i)
             /\ x \notin {RemoveAt(s, i)} \cup Truncados(s, i)
    <2>1. CASE x = Ilegible
      BY <2>1
    <2>2. CASE x # Ilegible
      <3>1. PICK k \in 0 .. Len(s) - i : x = Hasta(s, i, k) \o SubSeq(s, i + k, Len(s))
        BY <1>3, <2>2 DEF SinTruncar
      <3>2. Hasta(s, i, k) \in Seq(EntradasEnDisco)
        BY HastaSinRepetir
      <3>3. SubSeq(s, i + k, Len(s)) \in Seq(EntradasEnDisco)
        BY <1>0
      <3>4. x \in Seq(EntradasEnDisco)
        BY <3>1, <3>2, <3>3, ConcatProperties
      <3> QED BY <1>3, <3>4
    <2> QED BY <2>1, <2>2
  <1> QED BY <1>1, <1>2, <1>3

-------------------------------------------------------------------------------
(* The operations on the directories. *)

\* Only the files of u may change.
SoloDe(u) ==
  \A v \in Nombres \ {u} : /\ registered_users'[v] = registered_users[v]
                           /\ active_users'[v] = active_users[v]

LEMMA FormaDisco ==
  ASSUME DiscoOK
  PROVE  SinDuplicados <=>
           \A u \in Nombres : Legible(u) => SinRepetir(registered_users[u])
  <1>1. ASSUME NEW u \in Nombres, Legible(u)
        PROVE  DOMAIN registered_users[u] = 1 .. Len(registered_users[u])
    BY <1>1 DEF DiscoOK, Legible
  <1>2. QED
    BY <1>1 DEF SinDuplicados, SinRepetir

LEMMA FormaDiscoPrima ==
  DiscoOK' => (SinDuplicados' <=>
                 \A u \in Nombres :
                   Legible(u)' => SinRepetir(registered_users'[u]))
  <1>1. ASSUME DiscoOK', NEW u \in Nombres, Legible(u)'
        PROVE  DOMAIN registered_users'[u] = 1 .. Len(registered_users'[u])
    BY <1>1 DEF DiscoOK, Legible
  <1>2. QED
    BY <1>1 DEF SinDuplicados, SinRepetir

\* A legible file is a sequence of entries.
LEMMA LegibleTipo ==
  ASSUME DiscoInv, NEW u \in Nombres, Legible(u)
  PROVE  /\ registered_users[u] \in Seq(EntradasEnDisco) /\ dir_registered
         /\ DOMAIN registered_users[u] = 1 .. Len(registered_users[u])
         /\ ~Ignorados => SinRepetir(registered_users[u])
  BY FormaDisco DEF DiscoInv, DiscoOK, Legible

\* The three ways in which an operation touches the directories.
LEMMA EscribeRegistro ==
  ASSUME DiscoInv, NEW u \in Nombres,
         NEW x \in Seq(EntradasEnDisco) \cup {NoFile, Ilegible},
         ~Ignorados /\ x \notin {NoFile, Ilegible} => SinRepetir(x),
         x # NoFile => dir_registered',
         dir_registered' \in BOOLEAN, dir_registered => dir_registered',
         registered_users' = [registered_users EXCEPT ![u] = x],
         UNCHANGED <<dir_active, active_users>>
  PROVE  DiscoInv' /\ SoloDe(u) /\ registered_users'[u] = x
  <1>1. registered_users'[u] = x /\ SoloDe(u)
    BY DEF DiscoInv, DiscoOK, SoloDe
  <1>2. DiscoOK'
    BY <1>1 DEF DiscoInv, DiscoOK, SoloDe
  <1>3. ASSUME ~Ignorados, NEW v \in Nombres, Legible(v)'
        PROVE  SinRepetir(registered_users'[v])
    BY <1>1, <1>3, FormaDisco DEF DiscoInv, SoloDe, Legible
  <1>4. QED
    BY <1>1, <1>2, <1>3, FormaDiscoPrima DEF DiscoInv

LEMMA EscribeActivo ==
  ASSUME DiscoInv, NEW u \in Nombres, NEW x \in Destinos \cup {NoFile},
         x # NoFile => dir_active',
         dir_active' \in BOOLEAN, dir_active => dir_active',
         active_users' = [active_users EXCEPT ![u] = x],
         UNCHANGED <<dir_registered, registered_users>>
  PROVE  DiscoInv' /\ SoloDe(u) /\ active_users'[u] = x
  <1>1. active_users'[u] = x /\ SoloDe(u)
    BY DEF DiscoInv, DiscoOK, SoloDe
  <1>2. QED
    BY <1>1 DEF DiscoInv, DiscoOK, SoloDe, SinDuplicados, Legible

LEMMA MismosFicheros ==
  ASSUME DiscoInv, dir_registered' \in BOOLEAN, dir_active' \in BOOLEAN,
         dir_registered => dir_registered', dir_active => dir_active',
         UNCHANGED <<registered_users, active_users>>
  PROVE  DiscoInv' /\ \A u \in Nombres : SoloDe(u)
  BY DEF DiscoInv, DiscoOK, SoloDe, SinDuplicados, Legible

LEMMA Registra ==
  ASSUME DiscoInv, NEW u \in Nombres, NEW s, register_user(u, s)
  PROVE  /\ DiscoInv' /\ SoloDe(u)
         /\ s = 0 => registered_users'[u] = <<>>
  <1>1. CASE UNCHANGED disco /\ s # 0
    BY <1>1, MismosFicheros DEF disco, DiscoInv, DiscoOK
  <1>2. CASE /\ dir_registered' = TRUE /\ s # 0
             /\ UNCHANGED <<dir_active, registered_users, active_users>>
    BY <1>2, MismosFicheros DEF DiscoInv, DiscoOK
  <1>3. CASE /\ dir_registered' = TRUE
             /\ registered_users' = [registered_users EXCEPT ![u] = <<>>]
             /\ UNCHANGED <<dir_active, active_users>>
    <2>1. <<>> \in Seq(EntradasEnDisco) /\ SinRepetir(<<>>)
      BY DEF SinRepetir
    <2>2. QED
      BY <1>3, <2>1, EscribeRegistro
  <1>4. 2 # 0 /\ 1 # 0
    OBVIOUS
  <1>5. QED
    BY <1>1, <1>2, <1>3, <1>4, Zenon DEF register_user

LEMMA DaDeBaja ==
  ASSUME DiscoInv, NEW u \in Nombres, NEW s, unregister_user(u, s)
  PROVE  /\ DiscoInv' /\ SoloDe(u)
         /\ s = 0 => registered_users'[u] = NoFile
  <1>1. CASE UNCHANGED disco /\ s # 0
    BY <1>1, MismosFicheros DEF disco, DiscoInv, DiscoOK
  <1>2. CASE /\ registered_users' = [registered_users EXCEPT ![u] = NoFile]
             /\ UNCHANGED <<dir_registered, dir_active, active_users>>
    BY <1>2, EscribeRegistro DEF DiscoInv, DiscoOK
  <1>3. QED
    BY <1>1, <1>2 DEF unregister_user, disco

LEMMA Conecta ==
  ASSUME DiscoInv, NEW u \in Nombres, NEW addr \in Destinos, NEW s,
         connect_user(u, addr, s)
  PROVE  /\ DiscoInv' /\ SoloDe(u)
         /\ s = 0 => active_users'[u] = addr
  <1>1. CASE UNCHANGED disco /\ s # 0
    BY <1>1, MismosFicheros DEF disco, DiscoInv, DiscoOK
  <1>2. CASE /\ dir_active' = TRUE /\ s # 0
             /\ UNCHANGED <<dir_registered, registered_users>>
             /\ UNCHANGED active_users
    BY <1>2, MismosFicheros DEF DiscoInv, DiscoOK
  <1>3. ASSUME dir_active' = TRUE, UNCHANGED <<dir_registered, registered_users>>,
               NEW x \in Destinos, active_users' = [active_users EXCEPT ![u] = x],
               s = 0 => x = addr
        PROVE  DiscoInv' /\ SoloDe(u) /\ (s = 0 => active_users'[u] = addr)
    BY <1>3, EscribeActivo
  <1>4. Vacio \in Destinos
    BY DEF Destinos
  <1>5. 1 # 0 /\ 2 # 0 /\ 3 # 0
    OBVIOUS
  <1>6. QED
    BY <1>1, <1>2, <1>3, <1>4, <1>5, ZenonT(30) DEF connect_user

LEMMA Desconecta ==
  ASSUME DiscoInv, NEW u \in Nombres, NEW s, disconnect_user(u, s)
  PROVE  /\ DiscoInv' /\ SoloDe(u)
         /\ s = 0 => active_users'[u] = NoFile
  <1>1. CASE UNCHANGED disco /\ s # 0
    BY <1>1, MismosFicheros DEF disco, DiscoInv, DiscoOK
  <1>2. CASE /\ active_users' = [active_users EXCEPT ![u] = NoFile]
             /\ UNCHANGED <<dir_registered, registered_users, dir_active>>
    BY <1>2, EscribeActivo DEF DiscoInv, DiscoOK
  <1>3. QED
    BY <1>1, <1>2 DEF disconnect_user, disco

LEMMA Publica ==
  ASSUME DiscoInv, NEW u \in Nombres, NEW f \in Ficheros \cup {Basura},
         NEW d \in Descripciones \cup {Basura}, NEW s, publish(u, f, d, s)
  PROVE  /\ DiscoInv' /\ SoloDe(u)
         /\ s = 0 => \/ registered_users'[u] = Ilegible
                     \/ Contains(registered_users'[u], <<f, d>>)
  <1>1. CASE UNCHANGED disco /\ (s = 0 => registered_users[u] = Ilegible)
    BY <1>1, MismosFicheros DEF disco, DiscoInv, DiscoOK
  <1>2. ASSUME Legible(u), ~Publicado(u, f) \/ Ignorados,
               NEW x \in {ConLinea(u, <<f, d>>), Ilegible},
               registered_users' = [registered_users EXCEPT ![u] = x],
               UNCHANGED <<dir_registered, dir_active, active_users>>
        PROVE  /\ DiscoInv' /\ SoloDe(u)
               /\ \/ registered_users'[u] = Ilegible
                  \/ Contains(registered_users'[u], <<f, d>>)
    <2> DEFINE lineas == registered_users[u]
    <2>1. /\ lineas \in Seq(EntradasEnDisco) /\ dir_registered
          /\ DOMAIN lineas = 1 .. Len(lineas)
          /\ <<f, d>> \in EntradasEnDisco /\ <<f, d>>[1] = f
      BY <1>2, LegibleTipo DEF EntradasEnDisco
    <2>2. x = Ilegible \/ x = Append(lineas, <<f, d>>)
      BY <1>2 DEF ConLinea
    <2>3. /\ Append(lineas, <<f, d>>) \in Seq(EntradasEnDisco)
          /\ Contains(Append(lineas, <<f, d>>), <<f, d>>)
      BY <2>1, AppendProperties DEF Contains
    <2>4. ASSUME ~Ignorados PROVE SinRepetir(Append(lineas, <<f, d>>))
      <3>1. SinRepetir(lineas)
        BY <1>2, <2>4, LegibleTipo
      <3>2. \A i \in 1 .. Len(lineas) : lineas[i][1] # <<f, d>>[1]
        BY <1>2, <2>1, <2>4 DEF Publicado
      <3> QED BY <2>1, <3>1, <3>2, AnadeSinRepetir
    <2> HIDE DEF lineas
    <2>5. DiscoInv' /\ SoloDe(u) /\ registered_users'[u] = x
      BY <1>2, <2>1, <2>2, <2>3, <2>4, EscribeRegistro DEF DiscoInv, DiscoOK
    <2> QED BY <2>2, <2>3, <2>5
  <1>3. QED
    BY <1>1, <1>2 DEF publish, Rechazada, disco

LEMMA Retira ==
  ASSUME DiscoInv, NEW u \in Nombres, NEW f \in Ficheros \cup {Basura}, NEW s,
         delete(u, f, s)
  PROVE  /\ DiscoInv' /\ SoloDe(u)
         /\ s = 0 /\ ~Ignorados => registered_users'[u] = Ilegible \/ ~Publicado(u, f)'
  <1>1. CASE UNCHANGED disco /\ (s = 0 => registered_users[u] = Ilegible)
    BY <1>1, MismosFicheros DEF disco, DiscoInv, DiscoOK
  <1>2. ASSUME Legible(u), NEW i \in Lugar(u, f),
               NEW x \in {RemoveAt(registered_users[u], i)} \cup
                           {y \in Truncados(registered_users[u], i)
                                  \cup SinTruncar(registered_users[u], i) : Ignorados},
               registered_users' = [registered_users EXCEPT ![u] = x],
               UNCHANGED <<dir_registered, dir_active, active_users>>
        PROVE  /\ DiscoInv' /\ SoloDe(u)
               /\ ~Ignorados => registered_users'[u] = Ilegible \/ ~Publicado(u, f)'
    <2> DEFINE lineas == registered_users[u]
    <2>1. /\ lineas \in Seq(EntradasEnDisco) /\ dir_registered
          /\ i \in 1 .. Len(lineas) /\ lineas[i][1] = f
      BY <1>2, LegibleTipo DEF Lugar
    <2>2. x \in Seq(EntradasEnDisco) \cup {Ilegible}
      BY <1>2, <2>1, LoQueQueda
    <2>3. ASSUME ~Ignorados, x # Ilegible
          PROVE  SinRepetir(x) /\ \A j \in 1 .. Len(x) : x[j][1] # f
      <3>1. x = RemoveAt(lineas, i) /\ SinRepetir(lineas)
        BY <1>2, <2>3, LegibleTipo
      <3> QED BY <2>1, <2>3, <3>1, LoQueQueda
    <2> HIDE DEF lineas
    <2>4. DiscoInv' /\ SoloDe(u) /\ registered_users'[u] = x
      BY <1>2, <2>1, <2>2, <2>3, EscribeRegistro DEF DiscoInv, DiscoOK
    <2>5. ASSUME ~Ignorados, x # Ilegible PROVE ~Publicado(u, f)'
      <3>1. x \in Seq(EntradasEnDisco)
        BY <2>2, <2>5
      <3> QED BY <2>3, <2>4, <2>5, <3>1 DEF Publicado
    <2> QED BY <2>4, <2>5
  <1>3. PICK reg \in DosLlamadas(check_user_registered(u)),
             con \in DosLlamadas(check_user_connected(u)) :
          \/ Rechazada(reg, con, u, s) /\ UNCHANGED disco
          \/ registered_users[u] = Ilegible /\ UNCHANGED disco
          \/ s = 3 /\ UNCHANGED disco
          \/ /\ Legible(u) /\ UNCHANGED <<dir_registered, dir_active, active_users>>
             /\ \E i \in Lugar(u, f) :
                  \E x \in {RemoveAt(registered_users[u], i)} \cup
                           {y \in Truncados(registered_users[u], i)
                                  \cup SinTruncar(registered_users[u], i) : Ignorados} :
                    registered_users' = [registered_users EXCEPT ![u] = x]
    BY ZenonT(30) DEF delete
  <1>4. Rechazada(reg, con, u, s) => s # 0
    BY DEF Rechazada
  <1>5. QED
    BY <1>1, <1>2, <1>3, <1>4

LEMMA CamposPeticion ==
  ASSUME NEW p \in Peticion
  PROVE  /\ p.command_str \in Operaciones \cup {Basura}
         /\ p.client_user_name \in Nombres /\ p.user_name \in Nombres
         /\ p.user_addr \in Direcciones \cup {Basura}
         /\ p.file_name \in Ficheros \cup {Basura}
         /\ p.description \in Descripciones \cup {Basura}
  BY DEF Peticion

\* An operation keeps the directories in order, touches the files of the user
\* that asks for it and, when it returns 0, has done what it says.
LEMMA ModificaDisco ==
  ASSUME DiscoInv, NEW p \in Peticion, NEW s, Modifica(p, s)
  PROVE  /\ DiscoInv' /\ SoloDe(p.client_user_name)
         /\ s = 0 => Dice(p, {})'
  <1> DEFINE u == p.client_user_name
  <1>0. /\ u \in Nombres /\ p.user_addr \in Destinos
        /\ p.file_name \in Ficheros \cup {Basura}
        /\ p.description \in Descripciones \cup {Basura}
    BY CamposPeticion DEF Destinos
  <1> HIDE DEF u
  <1>1. CASE p.command_str = "REGISTER" /\ register_user(u, s)
    BY <1>0, <1>1, Registra DEF Dice, u
  <1>2. CASE p.command_str = "UNREGISTER" /\ unregister_user(u, s)
    BY <1>0, <1>2, DaDeBaja DEF Dice, u
  <1>3. CASE p.command_str = "CONNECT" /\ connect_user(u, p.user_addr, s)
    BY <1>0, <1>3, Conecta DEF Dice, u
  <1>4. CASE p.command_str = "DISCONNECT" /\ disconnect_user(u, s)
    BY <1>0, <1>4, Desconecta DEF Dice, u
  <1>5. CASE p.command_str = "PUBLISH" /\ publish(u, p.file_name, p.description, s)
    BY <1>0, <1>5, Publica DEF Dice, u
  <1>6. CASE p.command_str = "DELETE" /\ delete(u, p.file_name, s)
    BY <1>0, <1>6, Retira DEF Dice, u
  <1>7. QED
    BY <1>1, <1>2, <1>3, <1>4, <1>5, <1>6 DEF Modifica, u

LEMMA AMediasDisco ==
  ASSUME DiscoInv, NEW p \in Peticion, AMedias(p)
  PROVE  DiscoInv' /\ SoloDe(p.client_user_name)
  <1> DEFINE u == p.client_user_name
  <1>0. u \in Nombres /\ Vacio \in Destinos
    BY CamposPeticion DEF Destinos
  <1>1. CASE /\ dir_registered' = TRUE
             /\ UNCHANGED <<dir_active, registered_users, active_users>>
    BY <1>0, <1>1, MismosFicheros DEF DiscoInv, DiscoOK
  <1>2. CASE /\ dir_active' = TRUE /\ active_users' = active_users
             /\ UNCHANGED <<dir_registered, registered_users>>
    BY <1>0, <1>2, MismosFicheros DEF DiscoInv, DiscoOK
  <1>3. CASE /\ dir_active' = TRUE
             /\ active_users' = [active_users EXCEPT ![p.client_user_name] = Vacio]
             /\ UNCHANGED <<dir_registered, registered_users>>
    BY <1>0, <1>3, EscribeActivo
  <1>4. ASSUME Legible(u),
               NEW x \in {Ilegible} \cup
                           UNION {Truncados(registered_users[u], i) :
                                  i \in DOMAIN registered_users[u]},
               registered_users' = [registered_users EXCEPT ![u] = x],
               UNCHANGED <<dir_registered, dir_active, active_users>>
        PROVE  DiscoInv' /\ SoloDe(u)
    <2> HIDE DEF u
    <2>1. /\ registered_users[u] \in Seq(EntradasEnDisco) /\ dir_registered
          /\ DOMAIN registered_users[u] = 1 .. Len(registered_users[u])
          /\ ~Ignorados => SinRepetir(registered_users[u])
      BY <1>0, <1>4, LegibleTipo
    <2>2. /\ x \in Seq(EntradasEnDisco) \cup {Ilegible}
          /\ ~Ignorados /\ x # Ilegible => SinRepetir(x)
      BY <1>4, <2>1, LoQueQueda
    <2> QED BY <1>0, <1>4, <2>1, <2>2, EscribeRegistro DEF DiscoInv, DiscoOK
  <1>5. QED
    BY <1>1, <1>2, <1>3, <1>4 DEF AMedias, Lugar

\* A listing with status 0 is what the directories hold; any other is empty.
LEMMA ListaVeraz ==
  ASSUME DiscoInv, NEW p \in Peticion, NEW r \in Lista(p)
  PROVE  /\ r[1] \in 0 .. 4 /\ r[2] \in Listados
         /\ p.command_str \in {"LIST_USERS", "LIST_CONTENT"}
         /\ r[1] = 0 => Dice(p, r[2])
         /\ r[1] # 0 => r[2] = {}
  <1> DEFINE info == {<<n, active_users[n]>> :
                        n \in {m \in Nombres : active_users[m] # NoFile}}
             entradas == registered_users[p.user_name]
             hasta(k) == {<<i, entradas[i]>> : i \in 1 .. k}
  <1>0. {} \in Listados
    BY DEF Listados
  <1>1. CASE p.command_str = "LIST_USERS"
    <2>1. \/ r = <<3, {}>>
          \/ r = <<0, info>>
          \/ Ignorados /\ \E x \in SUBSET info : r = <<0, x>>
      BY <1>1 DEF Lista, list_users_get_num, list_users_get_info
    <2>2. \A x \in SUBSET info : x \in Listados
      BY DEF Listados, DiscoInv, DiscoOK
    <2>3. ASSUME NEW x \in SUBSET info, x = info \/ Ignorados PROVE Dice(p, x)
      BY <1>1, <2>3 DEF Dice
    <2>4. info \in SUBSET info
      OBVIOUS
    <2> HIDE DEF info
    <2>5. QED
      BY <1>0, <1>1, <2>1, <2>2, <2>3, <2>4
  <1>2. CASE p.command_str = "LIST_CONTENT"
    <2>1. \/ \E s \in 1 .. 4 : r = <<s, {}>>
          \/ r = <<0, {}>> /\ entradas = Ilegible
          \/ /\ Legible(p.user_name)
             /\ \E k \in 0 .. Len(entradas) :
                  /\ k = Len(entradas) \/ Ignorados
                  /\ r = <<0, hasta(k)>>
      <3>1. \/ r = <<3, {}>> \/ r = <<4, {}>>
            \/ r \in list_content(p.client_user_name, p.user_name)
        BY <1>2 DEF Lista
      <3>2. ASSUME r \in list_content(p.client_user_name, p.user_name)
            PROVE  \/ \E s \in 1 .. 4 : r = <<s, {}>>
                   \/ r = <<0, {}>> /\ entradas = Ilegible
                   \/ \E k \in IF Legible(p.user_name)
                                  /\ <<"si", "si">> \in
                                       DosLlamadas(check_user_registered(p.client_user_name))
                                       \X DosLlamadas(check_user_connected(p.client_user_name))
                              THEN {x \in 0 .. Len(entradas) :
                                      x = Len(entradas) \/ Ignorados}
                              ELSE {} : r = <<0, hasta(k)>>
        BY <3>2, SMTT(30) DEF list_content
      <3> HIDE DEF entradas, hasta
      <3>3. QED
        BY <3>1, <3>2
    <2>2. ASSUME Legible(p.user_name), NEW k \in 0 .. Len(entradas)
          PROVE  hasta(k) \in Listados
      <3>1. entradas \in Seq(EntradasEnDisco)
        BY <2>2, CamposPeticion, LegibleTipo
      <3>2. \A i \in 1 .. k : i \in Nat /\ entradas[i] \in EntradasEnDisco
        BY <3>1
      <3>3. \A e \in hasta(k) : e \in Nat \X EntradasEnDisco
        BY <3>2
      <3> HIDE DEF hasta
      <3> QED BY <3>3 DEF Listados
    <2>3. ASSUME Legible(p.user_name), NEW k \in 0 .. Len(entradas),
                 k = Len(entradas) \/ Ignorados
          PROVE  Dice(p, hasta(k))
      <3>1. DOMAIN entradas = 1 .. Len(entradas)
        BY <2>3, CamposPeticion, LegibleTipo
      <3> QED BY <1>2, <2>3, <3>1 DEF Dice
    <2>4. entradas = Ilegible => Dice(p, {})
      BY <1>2 DEF Dice
    <2> HIDE DEF hasta, entradas
    <2>5. CASE \E s \in 1 .. 4 : r = <<s, {}>>
      BY <1>0, <1>2, <2>5
    <2>6. CASE r = <<0, {}>> /\ entradas = Ilegible
      BY <1>0, <1>2, <2>4, <2>6
    <2>7. ASSUME Legible(p.user_name), NEW k \in 0 .. Len(entradas),
                 k = Len(entradas) \/ Ignorados, r = <<0, hasta(k)>>
          PROVE  r[1] = 0 /\ r[2] \in Listados /\ Dice(p, r[2])
      BY <2>2, <2>3, <2>7
    <2>8. QED
      BY <1>0, <1>2, <2>1, <2>5, <2>6, <2>7
  <1>3. p.command_str \in {"LIST_USERS", "LIST_CONTENT"}
    BY DEF Lista
  <1>4. QED
    BY <1>1, <1>2, <1>3

-------------------------------------------------------------------------------
(* The invariant is kept. *)

LEMMA SrvInvTipos == SrvInv => TypeOK
  BY DEF SrvInv, MemoriaOK, DiscoInv, DiscoOK, TypeOK

\* What a worker's record may hold, and what changing some of its fields keeps.
LEMMA HiloPasa ==
  ASSUME MemoriaOK, NEW w \in Workers, NEW p, Pasa(w, p),
         hilo[w].pc # "libre",
         p \in {"libre", "espera", "trata", "envia", "lista", "fecha", "log",
                "cierra", "cuelga"}
  PROVE  /\ hilo' \in [Workers -> EstadoHilo]
         /\ \A v \in Workers : hilo'[v].pc # "libre" => hilo'[v].con \in Conexiones
         /\ \A v \in Workers \ {w} : hilo'[v] = hilo[v]
         /\ hilo'[w] = [hilo[w] EXCEPT !.pc = p]
         /\ hilo'[w].pc = p /\ hilo'[w].con = hilo[w].con
         /\ hilo'[w].pet = hilo[w].pet /\ hilo'[w].status = hilo[w].status
         /\ hilo'[w].lista = hilo[w].lista
  <1>1. hilo[w] \in EstadoHilo /\ hilo[w].con \in Conexiones
    BY DEF MemoriaOK
  <1>2. hilo' = [hilo EXCEPT ![w] = [hilo[w] EXCEPT !.pc = p]]
    BY DEF Pasa, MemoriaOK
  <1> DEFINE h == [hilo[w] EXCEPT !.pc = p]
  <1>3. /\ h \in EstadoHilo /\ h.pc = p /\ h.con = hilo[w].con
        /\ h.pet = hilo[w].pet /\ h.status = hilo[w].status
        /\ h.lista = hilo[w].lista
    BY <1>1 DEF EstadoHilo
  <1> HIDE DEF h
  <1>4. QED
    BY <1>1, <1>2, <1>3 DEF MemoriaOK, h

\* Changing the phase of a client.
LEMMA ClienteFase ==
  ASSUME MemoriaOK, NEW c \in Conexiones,
         NEW f \in {"nueva", "pide", "enviada", "respondida", "fechada", "cortada", "fin"},
         Fase(c, f)
  PROVE  /\ cliente' \in [Conexiones -> EstadoCliente]
         /\ cliente'[c] = [cliente[c] EXCEPT !.fase = f]
         /\ \A d \in Conexiones \ {c} : cliente'[d] = cliente[d]
  <1>1. cliente[c] \in EstadoCliente
    BY DEF MemoriaOK
  <1>2. [cliente[c] EXCEPT !.fase = f] \in EstadoCliente
    BY <1>1 DEF EstadoCliente
  <1>3. cliente' = [cliente EXCEPT ![c] = [cliente[c] EXCEPT !.fase = f]]
    BY DEF Fase, MemoriaOK
  <1>4. QED
    BY <1>2, <1>3 DEF MemoriaOK

\* Losing the memory of the process.
LEMMA PierdeMemoriaTipos ==
  ASSUME MemoriaOK, PierdeMemoria
  PROVE  /\ leyendo' = Nadie
         /\ pet' \in Peticion
         /\ cola' = <<>>
         /\ mutex_tuples' = Nadie
         /\ hilo' \in [Workers -> EstadoHilo]
         /\ \A w \in Workers : hilo'[w] = Libre /\ hilo'[w].pc = "libre"
         /\ cliente' \in [Conexiones -> EstadoCliente]
         /\ \A c \in Conexiones :
              \/ cliente[c].fase = "nueva" /\ cliente'[c] = cliente[c]
              \/ /\ cliente[c].fase # "nueva"
                 /\ cliente'[c] = [cliente[c] EXCEPT !.fase = "fin"]
  <1>1. Libre \in EstadoHilo /\ Libre.pc = "libre"
    BY LibreTipo DEF Libre
  <1>2. ASSUME NEW c \in Conexiones
        PROVE  [cliente[c] EXCEPT !.fase = "fin"] \in EstadoCliente
    BY DEF MemoriaOK, EstadoCliente
  <1>3. ASSUME NEW c \in Conexiones PROVE cliente[c] \in EstadoCliente
    BY DEF MemoriaOK
  <1>4. QED
    BY <1>1, <1>2, <1>3, PetBasuraTipo DEF PierdeMemoria

LEMMA MuereTipos ==
  ASSUME MemoriaOK, PierdeMemoria, servidor' = "muerto",
         UNCHANGED <<arranques, historia, log, rpc>>
  PROVE  MemoriaOK'
  <1>1. cola' \in Seq([con : Conexiones, pet : Peticion]) /\ Len(cola') = 0
    BY PierdeMemoriaTipos
  <1>2. QED
    BY <1>1, PierdeMemoriaTipos, ServidorAssumption DEF MemoriaOK

LEMMA StepMemoria ==
  ASSUME MemoriaOK, DiscoInv, [Next]_vars
  PROVE  MemoriaOK'
  <1> USE ServidorAssumption
  \* A client moves on.
  <1>1. ASSUME NEW c \in Conexiones, NEW e \in EstadoCliente,
               cliente' = [cliente EXCEPT ![c] = e], UNCHANGED Servicio
        PROVE  MemoriaOK'
    BY <1>1 DEF Servicio, MemoriaOK
  <1>2. ASSUME NEW c \in Conexiones, NEW s \in Solicitudes, ClienteConecta(c, s)
        PROVE  MemoriaOK'
    <2> DEFINE e == [cliente[c] EXCEPT !.fase = "pide", !.sol = s]
    <2>1. s \in Peticion /\ cliente[c] \in EstadoCliente
      BY DEF MemoriaOK
    <2>2. e \in EstadoCliente
      BY <2>1 DEF EstadoCliente
    <2>3. cliente' = [cliente EXCEPT ![c] = e] /\ UNCHANGED Servicio
      BY <1>2 DEF ClienteConecta, MemoriaOK
    <2> HIDE DEF e
    <2> QED BY <1>1, <2>2, <2>3
  <1>2a. ASSUME NEW c \in Conexiones, ClienteEnvia(c) PROVE MemoriaOK'
    <2> DEFINE n == Len(EnElCable(cliente[c].sol.command_str))
               e == [cliente[c] EXCEPT !.fase = "enviada", !.k = n]
    <2>1. n \in 0 .. 4 /\ cliente[c] \in EstadoCliente
      BY CableTipo DEF MemoriaOK
    <2>2. cliente' = [cliente EXCEPT ![c] = e] /\ UNCHANGED Servicio
      BY <1>2a DEF ClienteEnvia, MemoriaOK
    <2> HIDE DEF n
    <2>3. e \in EstadoCliente
      BY <2>1 DEF EstadoCliente
    <2> HIDE DEF e
    <2> QED BY <1>1, <2>2, <2>3
  <1>2b. ASSUME NEW c \in Conexiones, NEW k \in 0 .. 3, ClienteCorta(c, k)
         PROVE  MemoriaOK'
    <2> DEFINE m == read_to_pet(PetBasura, cliente[c].sol, k)
               e == [cliente[c] EXCEPT !.fase = "cortada", !.k = k, !.sol = m]
    <2>1. cliente[c] \in EstadoCliente /\ k \in 0 .. 4
      BY DEF MemoriaOK
    <2>2. m \in Peticion
      BY <2>1, PetBasuraTipo, read_to_petTipo DEF EstadoCliente
    <2>3. cliente' = [cliente EXCEPT ![c] = e] /\ UNCHANGED Servicio
      BY <1>2b DEF ClienteCorta, MemoriaOK
    <2> HIDE DEF m
    <2>4. e \in EstadoCliente
      BY <2>1, <2>2 DEF EstadoCliente
    <2> HIDE DEF e
    <2> QED BY <1>1, <2>3, <2>4
  <1>3. ASSUME NEW c \in Conexiones, ClienteAbandona(c) \/ ClienteFecha(c)
        PROVE  MemoriaOK'
    <2>1. cliente' \in [Conexiones -> EstadoCliente]
      BY <1>3, ClienteFase DEF ClienteAbandona, ClienteFecha
    <2> QED BY <1>3, <2>1 DEF ClienteAbandona, ClienteFecha, Servicio, MemoriaOK
  <1>4. ASSUME NEW c \in Conexiones, Acepta(c) PROVE MemoriaOK'
    <2> DEFINE e == [cliente[c] EXCEPT !.aceptada = TRUE]
    <2>1. cliente[c] \in EstadoCliente
      BY DEF MemoriaOK
    <2>2. e \in EstadoCliente
      BY <2>1 DEF EstadoCliente
    <2>3. cliente' = [cliente EXCEPT ![c] = e]
      BY <1>4 DEF Acepta, MemoriaOK
    <2> HIDE DEF e
    <2> QED BY ZenonT(60), <1>4, <2>2, <2>3 DEF Acepta, MemoriaOK
  <1>4a. ASSUME NEW c \in Conexiones, Encola(c) PROVE MemoriaOK'
    <2>1. cliente[c].sol \in Peticion
      BY DEF MemoriaOK, EstadoCliente
    <2>2. pet' \in Peticion
      BY <1>4a, <2>1, read_to_petTipo DEF Encola, MemoriaOK
    <2>3. [con |-> c, pet |-> pet'] \in [con : Conexiones, pet : Peticion]
      BY <2>2
    <2>4. /\ cola' \in Seq([con : Conexiones, pet : Peticion])
          /\ Len(cola') <= MAX_PETICIONES
      BY <1>4a, <2>3 DEF Encola, MemoriaOK
    <2> QED BY <1>4a, <2>2, <2>4 DEF Encola, MemoriaOK
  <1>5. ASSUME NEW c \in Conexiones, ErrorLectura(c) PROVE MemoriaOK'
    <2>1. cliente' \in [Conexiones -> EstadoCliente]
      BY <1>5, ClienteFase DEF ErrorLectura
    <2> QED BY <1>5, <2>1 DEF ErrorLectura, MemoriaOK
  <1>6. ASSUME NEW w \in Workers, Saca(w) PROVE MemoriaOK'
    <2> DEFINE h == [Libre EXCEPT !.pc = "espera", !.con = Head(cola).con,
                                  !.pet = Head(cola).pet]
    <2>1. /\ Head(cola) \in [con : Conexiones, pet : Peticion]
          /\ Tail(cola) \in Seq([con : Conexiones, pet : Peticion])
          /\ Len(Tail(cola)) <= MAX_PETICIONES
      <3>1. cola \in Seq([con : Conexiones, pet : Peticion]) /\ cola # <<>>
        BY <1>6 DEF Saca, MemoriaOK
      <3>2. /\ Head(cola) \in [con : Conexiones, pet : Peticion]
            /\ Tail(cola) \in Seq([con : Conexiones, pet : Peticion])
            /\ Len(Tail(cola)) = Len(cola) - 1 /\ Len(cola) \in Nat
        BY <3>1, HeadTailProperties, LenProperties
      <3> QED BY <3>2 DEF MemoriaOK
    <2>2. h \in EstadoHilo /\ h.con \in Conexiones
      BY <2>1, LibreTipo DEF Libre, EstadoHilo
    <2>3. hilo' = [hilo EXCEPT ![w] = h] /\ cola' = Tail(cola)
      BY <1>6 DEF Saca
    <2> HIDE DEF h
    <2> QED BY <1>6, <2>1, <2>2, <2>3 DEF Saca, MemoriaOK
  <1>7. ASSUME NEW w \in Workers, LockTuples(w) PROVE MemoriaOK'
    <2>1. /\ hilo' \in [Workers -> EstadoHilo]
          /\ \A v \in Workers : hilo'[v].pc # "libre" => hilo'[v].con \in Conexiones
      BY <1>7, HiloPasa DEF LockTuples, En
    <2> QED BY <1>7, <2>1 DEF LockTuples, MemoriaOK
  \* The result of an operation goes to the worker's locals and to the history.
  <1>8. ASSUME NEW w \in Workers, NEW s \in 0 .. 4, NEW l \in Listados,
               Resuelve(w, s, l), hilo[w].pc = "trata",
               UNCHANGED <<servidor, arranques, leyendo, pet, cola, mutex_tuples, cliente,
                           log, rpc>>
        PROVE  MemoriaOK'
    <2> DEFINE h == [hilo[w] EXCEPT !.pc = "envia", !.status = s, !.lista = l]
               x == [con |-> hilo[w].con, pet |-> hilo[w].pet, status |-> s,
                     lista |-> l]
    <2>1. hilo[w] \in EstadoHilo /\ hilo[w].con \in Conexiones
      BY <1>8 DEF MemoriaOK
    <2>2. h \in EstadoHilo /\ h.con \in Conexiones
      BY <2>1 DEF EstadoHilo
    <2>3. hilo[w].pet \in Peticion
      BY <2>1 DEF EstadoHilo
    <2>4. x \in Ejecucion
      BY <2>1, <2>3 DEF Ejecucion
    <2>5. hilo' = [hilo EXCEPT ![w] = h] /\ historia' = Append(historia, x)
      BY <1>8 DEF Resuelve, MemoriaOK
    <2> HIDE DEF h, x
    <2>6. historia' \in Seq(Ejecucion)
      BY <2>4, <2>5 DEF MemoriaOK
    <2> QED BY <1>8, <2>2, <2>5, <2>6 DEF MemoriaOK
  <1>9. ASSUME NEW w \in Workers, Ejecuta(w) PROVE MemoriaOK'
    <2>1. /\ {} \in Listados /\ hilo[w].pet \in Peticion /\ hilo[w].pc = "trata"
          /\ UNCHANGED <<servidor, arranques, leyendo, pet, cola, mutex_tuples, cliente,
                         log, rpc>>
      BY <1>9 DEF Listados, MemoriaOK, EstadoHilo, Ejecuta, En
    <2>2. \A r \in Lista(hilo[w].pet) : r[1] \in 0 .. 4 /\ r[2] \in Listados
      BY <2>1, ListaVeraz
    <2>3. CASE Pasa(w, "cuelga") /\ UNCHANGED historia
      <3>1. /\ hilo' \in [Workers -> EstadoHilo]
            /\ \A v \in Workers : hilo'[v].pc # "libre" => hilo'[v].con \in Conexiones
        BY <2>1, <2>3, HiloPasa
      <3> QED BY <2>1, <2>3, <3>1 DEF MemoriaOK
    <2> QED BY <1>8, <1>9, <2>1, <2>2, <2>3 DEF Ejecuta
  \* The stages after the operation change w's stage and w's client.
  <1>10. ASSUME NEW w \in Workers, NEW p \in {"lista", "fecha", "log", "cierra"},
                Pasa(w, p), hilo[w].pc # "libre",
                cliente' \in [Conexiones -> EstadoCliente],
                log' \in Seq([con : Conexiones, aTiempo : BOOLEAN]),
                rpc' \subseteq Conexiones,
                UNCHANGED <<servidor, arranques, leyendo, pet, cola, mutex_tuples, historia>>
         PROVE  MemoriaOK'
    <2>1. /\ hilo' \in [Workers -> EstadoHilo]
          /\ \A v \in Workers : hilo'[v].pc # "libre" => hilo'[v].con \in Conexiones
      BY <1>10, HiloPasa
    <2> QED BY <1>10, <2>1 DEF MemoriaOK
  <1>11. ASSUME NEW w \in Workers, NEW e, NEW p, Entrega(w, e, p),
                e \in EstadoCliente, hilo[w].pc # "libre"
         PROVE  cliente' \in [Conexiones -> EstadoCliente] /\ Pasa(w, p)
    BY <1>11 DEF Entrega, MemoriaOK
  <1>12. ASSUME NEW w \in Workers, EnviaStatus(w) PROVE MemoriaOK'
    <2> DEFINE c == hilo[w].con
               sigue == IF HayLista(w) THEN "lista" ELSE "fecha"
               e == [cliente[c] EXCEPT
                       !.status = hilo[w].status,
                       !.fase = IF HayLista(w) THEN @ ELSE "respondida"]
    <2>1. /\ hilo[w].pc = "envia" /\ hilo[w] \in EstadoHilo /\ c \in Conexiones
          /\ UNCHANGED <<servidor, arranques, leyendo, pet, cola, mutex_tuples, historia,
                         log, rpc>>
      BY <1>12 DEF MemoriaOK, EnviaStatus, En
    <2>2. e \in EstadoCliente
      <3>1. cliente[c] \in EstadoCliente
        BY <2>1 DEF MemoriaOK
      <3>2. hilo[w].status \in -1 .. 4 /\ hilo[w].lista \in Listados
        BY <2>1 DEF EstadoHilo
      <3> HIDE DEF c
      <3> QED BY <3>1, <3>2 DEF EstadoCliente
    <2>3. \/ EnvioPerdido(w, sigue)
          \/ Entrega(w, e, sigue)
      BY <1>12 DEF EnviaStatus
    <2> HIDE DEF e, c
    <2>4. /\ cliente' \in [Conexiones -> EstadoCliente]
          /\ \E p \in {"lista", "fecha", "cierra"} : Pasa(w, p)
      BY <1>11, <2>1, <2>2, <2>3 DEF EnvioPerdido, MemoriaOK
    <2> QED BY <1>10, <2>1, <2>4 DEF MemoriaOK
  <1>13. ASSUME NEW w \in Workers, EnviaLista(w) PROVE MemoriaOK'
    <2> DEFINE c == hilo[w].con
               e == [cliente[c] EXCEPT !.lista = hilo[w].lista,
                                       !.fase = "respondida"]
    <2>1. /\ hilo[w].pc = "lista" /\ hilo[w] \in EstadoHilo /\ c \in Conexiones
          /\ UNCHANGED <<servidor, arranques, leyendo, pet, cola, mutex_tuples, historia,
                         log, rpc>>
      BY <1>13 DEF MemoriaOK, EnviaLista, En
    <2>2. e \in EstadoCliente
      <3>1. cliente[c] \in EstadoCliente
        BY <2>1 DEF MemoriaOK
      <3>2. hilo[w].status \in -1 .. 4 /\ hilo[w].lista \in Listados
        BY <2>1 DEF EstadoHilo
      <3> HIDE DEF c
      <3> QED BY <3>1, <3>2 DEF EstadoCliente
    <2>3. EnvioPerdido(w, "fecha") \/ Entrega(w, e, "fecha")
      BY <1>13 DEF EnviaLista
    <2> HIDE DEF e, c
    <2>4. /\ cliente' \in [Conexiones -> EstadoCliente]
          /\ \E p \in {"fecha", "cierra"} : Pasa(w, p)
      BY <1>11, <2>1, <2>2, <2>3 DEF EnvioPerdido, MemoriaOK
    <2> QED BY <1>10, <2>1, <2>4 DEF MemoriaOK
  <1>14. ASSUME NEW w \in Workers, LeeFecha(w) PROVE MemoriaOK'
    <2>1. /\ hilo[w].pc = "fecha" /\ \E p \in {"log", "cierra"} : Pasa(w, p)
          /\ UNCHANGED <<servidor, arranques, leyendo, pet, cola, mutex_tuples, cliente,
                         historia, log, rpc>>
      BY <1>14 DEF LeeFecha, En
    <2> QED BY <1>10, <2>1 DEF MemoriaOK
  <1>15. ASSUME NEW w \in Workers, SendLog(w) PROVE MemoriaOK'
    <2>1. /\ hilo[w].pc = "log" /\ Pasa(w, "cierra")
          /\ UNCHANGED <<servidor, arranques, leyendo, pet, cola, mutex_tuples, cliente,
                         historia>>
      BY <1>15 DEF SendLog, En
    <2>2. hilo[w].con \in Conexiones
      BY <2>1 DEF MemoriaOK
    <2>3. [con |-> hilo[w].con, aTiempo |-> TRUE] \in [con : Conexiones, aTiempo : BOOLEAN]
      BY <2>2
    <2>4. /\ log' \in Seq([con : Conexiones, aTiempo : BOOLEAN])
          /\ rpc' \subseteq Conexiones
      <3>1. log \in Seq([con : Conexiones, aTiempo : BOOLEAN]) /\ rpc \subseteq Conexiones
        BY DEF MemoriaOK
      <3>2. Append(log, [con |-> hilo[w].con, aTiempo |-> TRUE])
              \in Seq([con : Conexiones, aTiempo : BOOLEAN])
        BY <2>3, <3>1, AppendProperties
      <3> QED BY <1>15, <2>2, <3>1, <3>2 DEF SendLog
    <2> QED BY <1>10, <2>1, <2>4 DEF MemoriaOK
  <1>16. ASSUME NEW c \in Conexiones, LlegaTarde(c) PROVE MemoriaOK'
    <2>1. [con |-> c, aTiempo |-> FALSE] \in [con : Conexiones, aTiempo : BOOLEAN]
      OBVIOUS
    <2>2. log' \in Seq([con : Conexiones, aTiempo : BOOLEAN])
      BY <1>16, <2>1 DEF LlegaTarde, MemoriaOK
    <2> QED BY <1>16, <2>2 DEF LlegaTarde, MemoriaOK
  <1>17. ASSUME NEW w \in Workers, Cierra(w) PROVE MemoriaOK'
    <2>1. hilo[w].con \in Conexiones
      BY <1>17 DEF Cierra, En, MemoriaOK
    <2>2. cliente' \in [Conexiones -> EstadoCliente]
      BY <1>17, <2>1, ClienteFase DEF Cierra, Fase
    <2>3. Libre \in EstadoHilo /\ Libre.pc = "libre"
      BY LibreTipo DEF Libre
    <2> QED BY <1>17, <2>2, <2>3 DEF Cierra, MemoriaOK
  <1>18. ASSUME \/ ProcesoMuere \/ Termina
                \/ \E w \in Workers : MuereEjecutando(w)
         PROVE  MemoriaOK'
    BY <1>18, MuereTipos DEF ProcesoMuere, Termina, MuereEjecutando
  <1>19. CASE Arranca
    BY <1>19 DEF Arranca, MemoriaOK
  <1>20. CASE UNCHANGED vars
    BY <1>20 DEF vars, MemoriaOK
  <1>21. QED
    BY <1>2, <1>2a, <1>2b, <1>3, <1>4, <1>4a, <1>5, <1>6, <1>7, <1>9, <1>12, <1>13,
       <1>14, <1>15, <1>16, <1>17, <1>18, <1>19, <1>20
    DEF Next, ClientePaso, MainPaso, WorkerPaso

\* Steps that the workers do not notice.
Ajeno ==
  /\ UNCHANGED <<hilo, mutex_tuples, historia, disco>>
  /\ servidor' = "muerto" => servidor = "muerto"

\* A worker that has executed its request goes on to another stage.
Sigue(w, p) ==
  /\ servidor # "muerto"
  /\ hilo[w].pc \in {"envia", "lista", "fecha", "log"}
  /\ p \in {"lista", "fecha", "log", "cierra"}
  /\ Pasa(w, p)
  /\ UNCHANGED <<servidor, mutex_tuples, historia, disco, cola, pet>>

Muere ==
  /\ PierdeMemoria
  /\ servidor' = "muerto"
  /\ UNCHANGED <<historia, log, rpc>>
  /\ UNCHANGED disco \/ \E w \in Workers : MuereEjecutando(w)

\* The steps as the workers see them.
LEMMA Pasos ==
  ASSUME [Next]_vars
  PROVE  \/ Ajeno \/ Muere
         \/ \E w \in Workers : \/ Saca(w) \/ LockTuples(w) \/ Ejecuta(w) \/ Cierra(w)
                               \/ \E p \in {"lista", "fecha", "log", "cierra"} : Sigue(w, p)
  <1>1. ASSUME NEW c \in Conexiones, ClientePaso(c) \/ LlegaTarde(c) PROVE Ajeno
    BY <1>1
    DEF ClientePaso, ClienteConecta, ClienteEnvia, ClienteCorta, ClienteAbandona, ClienteFecha,
        Servicio, LlegaTarde, Ajeno
  <1>2. ASSUME NEW c \in Conexiones, Acepta(c) \/ Encola(c) \/ ErrorLectura(c)
        PROVE  Ajeno
    BY <1>2 DEF Acepta, Encola, ErrorLectura, Ajeno
  <1>3. ASSUME NEW w \in Workers,
               EnviaStatus(w) \/ EnviaLista(w) \/ LeeFecha(w) \/ SendLog(w)
        PROVE  \E p \in {"lista", "fecha", "log", "cierra"} : Sigue(w, p)
    <2>1. CASE EnviaStatus(w)
      BY <2>1 DEF EnviaStatus, EnvioPerdido, Entrega, En, Sigue
    <2>2. CASE EnviaLista(w)
      BY <2>2 DEF EnviaLista, EnvioPerdido, Entrega, En, Sigue
    <2>3. CASE LeeFecha(w) \/ SendLog(w)
      BY <2>3 DEF LeeFecha, SendLog, En, Sigue
    <2> QED BY <1>3, <2>1, <2>2, <2>3
  <1>4. ASSUME NEW w \in Workers, MuereEjecutando(w) PROVE Muere
    BY <1>4 DEF MuereEjecutando, Muere
  <1>5. ASSUME ProcesoMuere \/ Termina PROVE Muere
    BY <1>5 DEF ProcesoMuere, Termina, Muere
  <1>6. CASE Arranca \/ UNCHANGED vars
    BY <1>6 DEF Arranca, vars, Ajeno
  <1>7. QED
    BY <1>1, <1>2, <1>3, <1>4, <1>5, <1>6 DEF Next, MainPaso, WorkerPaso

\* A change of the directories is an operation of the worker that owns the
\* mutex, on the files of the user that asks for it.
LEMMA StepDisco ==
  ASSUME MemoriaOK, DiscoInv, MutexInv, [Next]_vars
  PROVE  /\ DiscoInv'
         /\ \/ UNCHANGED disco
            \/ \E w \in Workers : /\ mutex_tuples = w
                                  /\ hilo[w].pc = "trata"
                                  /\ SoloDe(hilo[w].pet.client_user_name)
  <1>1. CASE UNCHANGED disco
    BY <1>1, MismosFicheros DEF disco, DiscoInv, DiscoOK
  <1>2. ASSUME NEW w \in Workers, hilo[w].pc = "trata",
               \/ \E s \in 0 .. 4 : Modifica(hilo[w].pet, s)
               \/ AMedias(hilo[w].pet)
        PROVE  /\ DiscoInv' /\ SoloDe(hilo[w].pet.client_user_name)
               /\ mutex_tuples = w
    <2>1. hilo[w].pet \in Peticion
      BY DEF MemoriaOK, EstadoHilo
    <2>2. mutex_tuples = w
      BY <1>2 DEF MutexInv, Critica
    <2> QED BY <1>2, <2>1, <2>2, ModificaDisco, AMediasDisco
  <1>3. ASSUME NEW w \in Workers, Ejecuta(w) \/ MuereEjecutando(w)
        PROVE  \/ UNCHANGED disco
               \/ /\ hilo[w].pc = "trata"
                  /\ \/ \E s \in 0 .. 4 : Modifica(hilo[w].pet, s)
                     \/ AMedias(hilo[w].pet)
    BY <1>3 DEF Ejecuta, MuereEjecutando, En, Aborta
  <1>4. \/ UNCHANGED disco
        \/ \E w \in Workers : Ejecuta(w) \/ MuereEjecutando(w)
    BY Pasos DEF Ajeno, Muere, Saca, LockTuples, Cierra, Sigue
  <1>5. QED
    BY <1>1, <1>2, <1>3, <1>4

LEMMA StepMutex ==
  ASSUME MemoriaOK, MutexInv, MuertoInv, [Next]_vars
  PROVE  MutexInv' /\ MuertoInv'
  <1> USE ServidorAssumption DEF Critica, Ejecutado
  <1>1. CASE Ajeno
    BY <1>1 DEF Ajeno, MutexInv, MuertoInv
  <1>2. CASE Muere
    BY <1>2, PierdeMemoriaTipos DEF Muere, MutexInv, MuertoInv
  <1>3. ASSUME NEW w \in Workers, Saca(w) PROVE MutexInv' /\ MuertoInv'
    <2>1. /\ \A v \in Workers \ {w} : hilo'[v] = hilo[v]
          /\ hilo'[w].pc = "espera" /\ servidor' # "muerto"
          /\ mutex_tuples' = mutex_tuples
      BY <1>3 DEF Saca, En, Libre, MemoriaOK
    <2> QED BY <2>1 DEF MutexInv, MuertoInv
  <1>4. ASSUME NEW w \in Workers, LockTuples(w) PROVE MutexInv' /\ MuertoInv'
    <2>1. /\ \A v \in Workers \ {w} : hilo'[v] = hilo[v]
          /\ hilo'[w].pc = "trata" /\ servidor' # "muerto"
      BY <1>4, HiloPasa DEF LockTuples, En
    <2> QED BY <1>4, <2>1 DEF LockTuples, MutexInv, MuertoInv
  <1>5. ASSUME NEW w \in Workers, Ejecuta(w) PROVE MutexInv' /\ MuertoInv'
    <2>1. /\ \A v \in Workers \ {w} : hilo'[v] = hilo[v]
          /\ hilo[w].pc = "trata" /\ servidor' # "muerto"
          /\ mutex_tuples' = mutex_tuples
      BY <1>5 DEF Ejecuta, En, Resuelve, Pasa, MemoriaOK
    <2> QED BY <2>1 DEF MutexInv, MuertoInv
  <1>6. ASSUME NEW w \in Workers, NEW p \in {"lista", "fecha", "log", "cierra"},
               Sigue(w, p)
        PROVE  MutexInv' /\ MuertoInv'
    <2>1. \A v \in Workers \ {w} : hilo'[v] = hilo[v]
      BY <1>6, HiloPasa DEF Sigue
    <2> QED BY <1>6, <2>1 DEF Sigue, MutexInv, MuertoInv
  <1>7. ASSUME NEW w \in Workers, Cierra(w) PROVE MutexInv' /\ MuertoInv'
    <2>1. /\ \A v \in Workers \ {w} : hilo'[v] = hilo[v]
          /\ hilo'[w].pc = "libre" /\ hilo[w].pc = "cierra" /\ servidor' # "muerto"
      BY <1>7 DEF Cierra, En, Libre, MemoriaOK
    <2> QED BY <2>1 DEF MutexInv, MuertoInv
  <1>8. QED
    BY Pasos, <1>1, <1>2, <1>3, <1>4, <1>5, <1>6, <1>7

\* An answer that is being given stays true.
LEMMA StepVigente ==
  ASSUME MemoriaOK, MemoriaOK', DiscoInv, MutexInv, MutexInv', MuertoInv,
         RespuestaVigente, [Next]_vars
  PROVE  RespuestaVigente'
  <1> SUFFICES ASSUME NEW w \in Workers, servidor' # "muerto", Ejecutado(w)',
                      hilo'[w].status = 0
               PROVE  Dice(hilo[w].pet, hilo[w].lista)'
    BY DEF RespuestaVigente, Ejecutado
  \* The worker was giving the same answer, and the directories are the same.
  <1>1. ASSUME Ejecutado(w), servidor # "muerto", UNCHANGED disco,
               hilo'[w].pet = hilo[w].pet, hilo'[w].status = hilo[w].status,
               hilo'[w].lista = hilo[w].lista
        PROVE  Dice(hilo[w].pet, hilo[w].lista)'
    <2>1. Dice(hilo[w].pet, hilo[w].lista)
      BY <1>1 DEF RespuestaVigente, Ejecutado
    <2> QED BY <1>1, <2>1 DEF Dice, Publicado, disco
  <1>2. ASSUME hilo'[w] = hilo[w], servidor # "muerto", UNCHANGED disco
        PROVE  Dice(hilo[w].pet, hilo[w].lista)'
    BY <1>1, <1>2 DEF Ejecutado
  <1>3. CASE Ajeno
    <2>1. servidor # "muerto"
      BY <1>3 DEF Ajeno, MuertoInv, Ejecutado
    <2> QED BY <1>2, <1>3, <2>1 DEF Ajeno
  <1>4. CASE Muere
    BY <1>4 DEF Muere
  <1>5. ASSUME NEW v \in Workers, Saca(v) \/ LockTuples(v) \/ Cierra(v)
        PROVE  Dice(hilo[w].pet, hilo[w].lista)'
    <2>1. CASE Saca(v)
      <3>1. /\ \A u \in Workers \ {v} : hilo'[u] = hilo[u]
            /\ hilo'[v].pc = "espera"
        BY <2>1 DEF Saca, En, Libre, MemoriaOK
      <3> QED BY <1>2, <2>1, <3>1 DEF Saca, En, Ejecutado
    <2>2. CASE LockTuples(v)
      <3>1. /\ \A u \in Workers \ {v} : hilo'[u] = hilo[u]
            /\ hilo'[v].pc = "trata"
        BY <2>2, HiloPasa DEF LockTuples, En
      <3> QED BY <1>2, <2>2, <3>1 DEF LockTuples, En, Ejecutado
    <2>3. CASE Cierra(v)
      <3>1. /\ \A u \in Workers \ {v} : hilo'[u] = hilo[u]
            /\ hilo'[v].pc = "libre"
        BY <2>3 DEF Cierra, En, Libre, MemoriaOK
      <3> QED BY <1>2, <2>3, <3>1 DEF Cierra, En, Ejecutado
    <2> QED BY <1>5, <2>1, <2>2, <2>3
  <1>6. ASSUME NEW v \in Workers, NEW p \in {"lista", "fecha", "log", "cierra"},
               Sigue(v, p)
        PROVE  Dice(hilo[w].pet, hilo[w].lista)'
    <2>1. /\ \A u \in Workers \ {v} : hilo'[u] = hilo[u]
          /\ hilo'[v].pet = hilo[v].pet /\ hilo'[v].status = hilo[v].status
          /\ hilo'[v].lista = hilo[v].lista
      BY <1>6, HiloPasa DEF Sigue
    <2> QED BY <1>1, <1>2, <1>6, <2>1 DEF Sigue, Ejecutado
  <1>7. ASSUME NEW v \in Workers, Ejecuta(v)
        PROVE  Dice(hilo[w].pet, hilo[w].lista)'
    <2>1. /\ \A u \in Workers \ {v} : hilo'[u] = hilo[u]
          /\ hilo[v].pc = "trata" /\ mutex_tuples' = mutex_tuples
      BY <1>7 DEF Ejecuta, En, Resuelve, Pasa, MemoriaOK
    <2>2. w = v
      BY <2>1 DEF MutexInv, Critica, Ejecutado
    <2>3. hilo[w].pet \in Peticion
      BY DEF MemoriaOK, EstadoHilo
    <2>4. ASSUME NEW s, NEW l, Resuelve(w, s, l)
          PROVE  hilo'[w].pet = hilo[w].pet /\ hilo'[w].lista = l /\ hilo'[w].status = s
      BY <2>4 DEF Resuelve, MemoriaOK, EstadoHilo
    <2>5. CASE \E s \in 0 .. 4 : Modifica(hilo[w].pet, s) /\ Resuelve(w, s, {})
      <3>1. Modifica(hilo[w].pet, 0) /\ hilo'[w].pet = hilo[w].pet /\ hilo'[w].lista = {}
        BY <2>4, <2>5
      <3>2. ASSUME NEW p \in Peticion, p = hilo[w].pet PROVE Dice(p, {})'
        BY <3>1, <3>2, ModificaDisco
      <3> QED BY <2>3, <3>1, <3>2
    <2>6. CASE \E r \in Lista(hilo[w].pet) : Resuelve(w, r[1], r[2]) /\ UNCHANGED disco
      <3>1. PICK r \in Lista(hilo[w].pet) : Resuelve(w, r[1], r[2]) /\ UNCHANGED disco
        BY <2>6
      <3>2. hilo'[w].pet = hilo[w].pet /\ hilo'[w].lista = r[2] /\ r[1] = 0
        BY <2>4, <3>1
      <3>3. Dice(hilo[w].pet, r[2])
        BY <2>3, <3>2, ListaVeraz
      <3> QED BY <3>1, <3>2, <3>3 DEF Dice, Publicado, disco
    <2>7. CASE hilo[w].pet.command_str = Basura /\ \E s \in 0 .. 4 : Resuelve(w, s, {})
      <3>1. hilo'[w].pet = hilo[w].pet
        BY <2>4, <2>7
      <3> QED BY <2>7, <3>1, ServidorAssumption DEF Dice, Operaciones
    <2>8. CASE Pasa(w, "cuelga")
      <3>1. hilo'[w].pc = "cuelga"
        BY <2>1, <2>2, <2>8, HiloPasa
      <3> QED BY <3>1 DEF Ejecutado
    <2> QED BY <1>7, <2>2, <2>5, <2>6, <2>7, <2>8 DEF Ejecuta
  <1>8. QED
    BY Pasos, <1>3, <1>4, <1>5, <1>6, <1>7

LEMMA InitSrv == Init => SrvInv
  <1> SUFFICES ASSUME Init PROVE SrvInv
    OBVIOUS
  <1>1. ASSUME NEW p \in Previos \ {Ilegible}
        PROVE  p \in Seq(EntradasEnDisco) /\ SinRepetir(p)
    <2>1. p \in Seq(Ficheros \X Descripciones) /\ DOMAIN p = 1 .. Len(p)
      BY PlatformAssumption
    <2>2. p \in Seq(EntradasEnDisco)
      BY <2>1 DEF EntradasEnDisco
    <2>3. SinRepetir(p)
      BY <2>1, PlatformAssumption DEF SinRepetir
    <2> QED BY <2>2, <2>3
  <1>2. DiscoOK
    BY <1>1 DEF Init, InitPlatform, DiscoOK, Destinos
  <1>3. DiscoInv
    <2>1. ASSUME NEW u \in Nombres, Legible(u)
          PROVE  registered_users[u] \in Previos \ {Ilegible}
      BY <2>1 DEF Init, InitPlatform, Legible
    <2> QED BY <1>1, <1>2, <2>1, FormaDisco DEF DiscoInv
  <1>4. MemoriaOK
    <2>1. Libre \in EstadoHilo /\ Libre.pc = "libre"
      BY LibreTipo DEF Libre
    <2>2. arranques \in 1 .. MAX_ARRANQUES
      BY ServidorAssumption DEF Init
    <2>3. /\ cola \in Seq([con : Conexiones, pet : Peticion]) /\ Len(cola) = 0
          /\ historia \in Seq(Ejecucion)
          /\ log \in Seq([con : Conexiones, aTiempo : BOOLEAN])
      BY DEF Init
    <2> QED
      BY <2>1, <2>2, <2>3, NuevaTipo, PetBasuraTipo, ServidorAssumption
      DEF Init, MemoriaOK
  <1>5. MutexInv /\ MuertoInv /\ RespuestaVigente
    BY DEF Init, Libre, MutexInv, Critica, Ejecutado, MuertoInv, RespuestaVigente
  <1> QED BY <1>3, <1>4, <1>5 DEF SrvInv

LEMMA StepSrv == SrvInv /\ [Next]_vars => SrvInv'
  <1> SUFFICES ASSUME SrvInv, [Next]_vars PROVE SrvInv'
    OBVIOUS
  <1>1. MemoriaOK /\ DiscoInv /\ MutexInv /\ MuertoInv /\ RespuestaVigente
    BY DEF SrvInv
  <1>2. MemoriaOK'
    BY <1>1, StepMemoria
  <1>3. DiscoInv'
    BY <1>1, StepDisco
  <1>4. MutexInv' /\ MuertoInv'
    BY <1>1, StepMutex
  <1>5. RespuestaVigente'
    BY <1>1, <1>2, <1>4, StepVigente
  <1> QED BY <1>2, <1>3, <1>4, <1>5 DEF SrvInv

LEMMA SrvInvariante == Spec => []SrvInv
  BY InitSrv, StepSrv, PTL DEF Spec

-------------------------------------------------------------------------------
(* The theorems. *)

\* Every variable of the server, its clients and its directories keeps its
\* type, whatever dies or fails: the queue within MAX_PETICIONES, a worker out
\* of its loop always with a connection, statuses within those of the protocol.
THEOREM ServidorTipos == Spec => []TypeOK
  BY SrvInvariante, SrvInvTipos, PTL

\* tratar_peticion() runs under mutex_tuples: two workers are never both
\* inside it, from the lock to the unlock.
THEOREM Exclusion ==
  Spec => [](\A v, w \in Workers : Critica(v) /\ Critica(w) => v = w)
  <1>1. SrvInv => \A v, w \in Workers : Critica(v) /\ Critica(w) => v = w
    BY DEF SrvInv, MutexInv
  <1> QED BY <1>1, SrvInvariante, PTL

\* No file of registered_users that reads back as entries has the same path
\* twice, through deaths and the failures that the code looks at: publish()
\* searches the file and appends with nothing in between, delete() takes one line
\* out and at most some of the last ones.  A read error in the search, or an
\* ftruncate that fails, would bring the path back: hence the assumption.
THEOREM NadieRepite ==
  ASSUME Ignorados = FALSE
  PROVE  Spec => []SinDuplicados
  <1>1. SrvInv => SinDuplicados
    BY DEF SrvInv, DiscoInv
  <1> QED BY <1>1, SrvInvariante, PTL

\* What a client is told with status 0 is true of the directories from the
\* operation until its request is logged and its connection closed.  Of a DELETE
\* and of a listing this is stated when the failures that the code ignores do not
\* happen (see Dice), of the other operations always.
THEOREM LaRespuestaSigueVigente == Spec => []RespuestaVigente
  <1>1. SrvInv => RespuestaVigente
    BY DEF SrvInv
  <1> QED BY <1>1, SrvInvariante, PTL

\* A user's files change only at the hands of the worker that holds
\* mutex_tuples, for a request in that user's name; also when the process
\* dies half way, and not when it starts again.
THEOREM SoloCambiaElDuenio == Spec => SoloElDuenio
  <1> DEFINE A == \A u \in Nombres :
                    \/ UNCHANGED <<registered_users[u], active_users[u]>>
                    \/ \E w \in Workers : /\ mutex_tuples = w
                                          /\ hilo[w].pc = "trata"
                                          /\ hilo[w].pet.client_user_name = u
  <1>1. SrvInv /\ [Next]_vars => [A]_disco
    <2> SUFFICES ASSUME SrvInv, [Next]_vars, ~UNCHANGED disco PROVE A
      OBVIOUS
    <2>1. PICK w \in Workers : /\ mutex_tuples = w /\ hilo[w].pc = "trata"
                              /\ SoloDe(hilo[w].pet.client_user_name)
      BY StepDisco DEF SrvInv
    <2>2. ASSUME NEW u \in Nombres, u # hilo[w].pet.client_user_name
          PROVE  UNCHANGED <<registered_users[u], active_users[u]>>
      BY <2>1, <2>2 DEF SoloDe
    <2> QED BY <2>1, <2>2
  <1> HIDE DEF A
  <1>2. Spec => [][A]_disco
    BY <1>1, SrvInvariante, PTL DEF Spec
  <1> QED BY <1>2 DEF A, SoloElDuenio

-------------------------------------------------------------------------------
(* The lookups, when no call fails. *)

LEMMA Busquedas ==
  ASSUME DiscoOK, Fallos = FALSE, NEW u \in Nombres
  PROVE  /\ \A r \in is_file_in_directory(dir_registered, registered_users[u]) :
              \/ r = 1 /\ registered_users[u] # NoFile
              \/ r \in {0, 2} /\ registered_users[u] = NoFile
         /\ \A r \in is_file_in_directory(dir_active, active_users[u]) :
              \/ r = 1 /\ active_users[u] # NoFile
              \/ r \in {0, 2} /\ active_users[u] = NoFile
         /\ \A r \in check_user_registered(u) :
              \/ r = 1 /\ registered_users[u] # NoFile
              \/ r = 0 /\ registered_users[u] = NoFile
         /\ \A r \in check_user_connected(u) :
              \/ r = 1 /\ active_users[u] # NoFile
              \/ r = 0 /\ active_users[u] = NoFile
         /\ \A r \in DosLlamadas(check_user_registered(u)) :
              \/ r = "si" /\ registered_users[u] # NoFile
              \/ r = "no" /\ registered_users[u] = NoFile
         /\ \A r \in DosLlamadas(check_user_connected(u)) :
              \/ r = "si" /\ active_users[u] # NoFile
              \/ r = "no" /\ active_users[u] = NoFile
  <1>1. \A r \in is_file_in_directory(dir_registered, registered_users[u]) :
          \/ r = 1 /\ registered_users[u] # NoFile
          \/ r \in {0, 2} /\ registered_users[u] = NoFile
    BY DEF is_file_in_directory, DiscoOK
  <1>2. \A r \in is_file_in_directory(dir_active, active_users[u]) :
          \/ r = 1 /\ active_users[u] # NoFile
          \/ r \in {0, 2} /\ active_users[u] = NoFile
    BY DEF is_file_in_directory, DiscoOK
  <1>3. \A r \in check_user_registered(u) :
          \/ r = 1 /\ registered_users[u] # NoFile
          \/ r = 0 /\ registered_users[u] = NoFile
    BY <1>1 DEF check_user_registered
  <1>4. \A r \in check_user_connected(u) :
          \/ r = 1 /\ active_users[u] # NoFile
          \/ r = 0 /\ active_users[u] = NoFile
    BY <1>2 DEF check_user_connected
  <1>5. \A r \in DosLlamadas(check_user_registered(u)) :
          \/ r = "si" /\ registered_users[u] # NoFile
          \/ r = "no" /\ registered_users[u] = NoFile
    BY <1>3 DEF DosLlamadas
  <1>6. \A r \in DosLlamadas(check_user_connected(u)) :
          \/ r = "si" /\ active_users[u] # NoFile
          \/ r = "no" /\ active_users[u] = NoFile
    BY <1>4 DEF DosLlamadas
  <1> QED BY <1>1, <1>2, <1>3, <1>4, <1>5, <1>6

LEMMA SiRegistrado ==
  ASSUME DiscoOK, Fallos = FALSE, NEW u \in Nombres, 1 \in check_user_registered(u)
  PROVE  registered_users[u] # NoFile
  BY DEF check_user_registered, is_file_in_directory

-------------------------------------------------------------------------------
(* Each operation answers as the catalogue. *)

LEMMA ModificaAtiende ==
  ASSUME DiscoInv, Fallos = FALSE, Ignorados = FALSE, NEW p \in Peticion, NEW s, Modifica(p, s)
  PROVE  Cat!Atiende(p, s, {})
  <1> DEFINE u == p.client_user_name
             f == p.file_name
  <1>0. u \in Nombres /\ DiscoOK
    BY CamposPeticion DEF DiscoInv
  <1> USE DEF Cat!Atiende, Cat!Cambia, Cat!Rehusa, Cat!NoPuede, Cat!Registrado,
              Cat!Conectado, disco
  <1>1. CASE p.command_str = "REGISTER" /\ register_user(u, s)
    <2>1. PICK r \in is_file_in_directory(dir_registered, registered_users[u]) :
            \/ r = 1 /\ s = 1 /\ UNCHANGED disco
            \/ /\ r \in {0, 2} /\ s = 0 /\ UNCHANGED active_users
               /\ registered_users' = [registered_users EXCEPT ![u] = <<>>]
      <3>1. ASSUME NEW r \in is_file_in_directory(dir_registered, registered_users[u])
            PROVE  r \in {0, 1, 2}
        BY <1>0, <3>1, Busquedas
      <3> QED BY <1>1, <3>1 DEF register_user
    <2>2. \/ r = 1 /\ registered_users[u] # NoFile
          \/ r \in {0, 2} /\ registered_users[u] = NoFile
      BY <1>0, Busquedas
    <2> QED BY <1>1, <2>1, <2>2 DEF Cat!Registra
  <1>2. CASE p.command_str = "UNREGISTER" /\ unregister_user(u, s)
    <2>1. PICK r \in is_file_in_directory(dir_registered, registered_users[u]) :
            \/ r \in {0, 2} /\ s = 1 /\ UNCHANGED disco
            \/ /\ r = 1 /\ s = 0 /\ UNCHANGED active_users
               /\ registered_users' = [registered_users EXCEPT ![u] = NoFile]
      <3>1. ASSUME NEW r \in is_file_in_directory(dir_registered, registered_users[u])
            PROVE  r \in {0, 1, 2}
        BY <1>0, <3>1, Busquedas
      <3> QED BY <1>2, <3>1 DEF unregister_user
    <2>2. \/ r = 1 /\ registered_users[u] # NoFile
          \/ r \in {0, 2} /\ registered_users[u] = NoFile
      BY <1>0, Busquedas
    <2> QED BY <1>2, <2>1, <2>2 DEF Cat!DaDeBaja
  <1>3. CASE p.command_str = "CONNECT" /\ connect_user(u, p.user_addr, s)
    <2>1. PICK reg \in check_user_registered(u),
               r \in is_file_in_directory(dir_active, active_users[u]) :
            \/ reg = 0 /\ s = 1 /\ UNCHANGED disco
            \/ reg = 1 /\ r = 1 /\ s = 2 /\ UNCHANGED disco
            \/ /\ reg = 1 /\ r \in {0, 2} /\ s = 0 /\ UNCHANGED registered_users
               /\ active_users' = [active_users EXCEPT ![u] = p.user_addr]
      <3>1. ASSUME NEW reg \in check_user_registered(u),
                   NEW r \in is_file_in_directory(dir_active, active_users[u])
            PROVE  reg \in {0, 1} /\ r \in {0, 1, 2}
        BY <1>0, <3>1, Busquedas
      <3> QED BY <1>3, <3>1 DEF connect_user
    <2>2. /\ \/ reg = 1 /\ registered_users[u] # NoFile
             \/ reg = 0 /\ registered_users[u] = NoFile
          /\ \/ r = 1 /\ active_users[u] # NoFile
             \/ r \in {0, 2} /\ active_users[u] = NoFile
      BY <1>0, Busquedas
    <2> QED BY <1>3, <2>1, <2>2 DEF Cat!Conecta
  <1>4. CASE p.command_str = "DISCONNECT" /\ disconnect_user(u, s)
    <2>1. PICK reg \in check_user_registered(u), con \in check_user_connected(u) :
            \/ reg = 0 /\ s = 1 /\ UNCHANGED disco
            \/ reg = 1 /\ con = 0 /\ s = 2 /\ UNCHANGED disco
            \/ /\ reg = 1 /\ con = 1 /\ s = 0 /\ UNCHANGED registered_users
               /\ active_users' = [active_users EXCEPT ![u] = NoFile]
      <3>1. ASSUME NEW reg \in check_user_registered(u), NEW con \in check_user_connected(u)
            PROVE  reg \in {0, 1} /\ con \in {0, 1}
        BY <1>0, <3>1, Busquedas
      <3> QED BY <1>4, <3>1 DEF disconnect_user
    <2>2. /\ \/ reg = 1 /\ registered_users[u] # NoFile
             \/ reg = 0 /\ registered_users[u] = NoFile
          /\ \/ con = 1 /\ active_users[u] # NoFile
             \/ con = 0 /\ active_users[u] = NoFile
      BY <1>0, Busquedas
    <2> QED BY <1>4, <2>1, <2>2 DEF Cat!Desconecta
  \* A publication is looked for in the same lines.
  <1>5. Legible(u) =>
          /\ registered_users[u] \in Seq(EntradasEnDisco)
          /\ DOMAIN registered_users[u] = 1 .. Len(registered_users[u])
          /\ Publicado(u, f) <=> Cat!Publicado(u, f)
          /\ Cat!Legible(u) /\ registered_users[u] # NoFile
    BY <1>0, LegibleTipo DEF Publicado, Cat!Publicado, Legible, Cat!Legible
  <1>6. ASSUME NEW reg \in DosLlamadas(check_user_registered(u)),
               NEW con \in DosLlamadas(check_user_connected(u))
        PROVE  /\ \/ reg = "si" /\ registered_users[u] # NoFile
                  \/ reg = "no" /\ registered_users[u] = NoFile
               /\ \/ con = "si" /\ active_users[u] # NoFile
                  \/ con = "no" /\ active_users[u] = NoFile
    BY <1>0, <1>6, Busquedas
  <1>7. ASSUME p.command_str \in {"PUBLISH", "DELETE"},
               NEW reg \in DosLlamadas(check_user_registered(u)),
               NEW con \in DosLlamadas(check_user_connected(u)),
               Rechazada(reg, con, u, s), UNCHANGED disco
        PROVE  Cat!Atiende(p, s, {})
    BY <1>6, <1>7 DEF Rechazada
  \* Of a file that is not legible nothing can be told.
  <1>8. ASSUME p.command_str \in {"PUBLISH", "DELETE"}, s \in {0, 3},
               registered_users[u] = Ilegible, active_users[u] # NoFile,
               UNCHANGED disco
        PROVE  Cat!Atiende(p, s, {})
    BY <1>8
  <1>9. CASE p.command_str = "PUBLISH" /\ publish(u, f, p.description, s)
    <2>1. PICK reg \in DosLlamadas(check_user_registered(u)),
               con \in DosLlamadas(check_user_connected(u)) :
            \/ Rechazada(reg, con, u, s) /\ UNCHANGED disco
            \/ /\ reg = "si" /\ con = "si" /\ registered_users[u] = Ilegible
               /\ s \in {0, 3} /\ UNCHANGED disco
            \/ /\ reg = "si" /\ con = "si" /\ Legible(u)
               /\ Publicado(u, f) \/ registered_users[u] = <<>>
               /\ s = 3 /\ UNCHANGED disco
            \/ /\ reg = "si" /\ con = "si" /\ Legible(u) /\ ~Publicado(u, f) /\ s = 0
               /\ registered_users' =
                    [registered_users EXCEPT ![u] = ConLinea(u, <<f, p.description>>)]
               /\ UNCHANGED active_users
      BY <1>9 DEF publish
    <2>2. CASE Rechazada(reg, con, u, s) /\ UNCHANGED disco
      BY <1>7, <1>9, <2>2
    <2>3. CASE reg = "si" /\ con = "si"
      <3>1. active_users[u] # NoFile
        BY <1>6, <2>3
      <3>2. CASE registered_users[u] = Ilegible /\ s \in {0, 3} /\ UNCHANGED disco
        BY <1>8, <1>9, <3>1, <3>2
      <3>3. CASE /\ Legible(u)
                 /\ Publicado(u, f) \/ registered_users[u] = <<>>
                 /\ s = 3 /\ UNCHANGED disco
        <4>1. Cat!Legible(u) /\ Cat!Conectado(u)
          BY <1>5, <3>1, <3>3
        <4>2. Cat!Publicado(u, f) \/ registered_users[u] = <<>>
          BY <1>5, <3>3
        <4>3. Cat!Rehusa(p, s)
          BY <1>9, <3>3, <4>1, <4>2, ZenonT(30)
        <4> QED BY <3>3, <4>3
      <3>4. CASE /\ Legible(u) /\ ~Publicado(u, f) /\ s = 0
                 /\ registered_users' =
                      [registered_users EXCEPT ![u] = ConLinea(u, <<f, p.description>>)]
                 /\ UNCHANGED active_users
        <4>1. Cat!Publica(u, f, p.description)
          BY <1>5, <3>1, <3>4 DEF Cat!Publica, ConLinea
        <4> QED BY <1>9, <3>4, <4>1
      <3> QED BY <2>1, <2>2, <3>2, <3>3, <3>4
    <2> QED BY <2>1, <2>2, <2>3
  <1>10. CASE p.command_str = "DELETE" /\ delete(u, f, s)
    <2>1. PICK reg \in DosLlamadas(check_user_registered(u)),
               con \in DosLlamadas(check_user_connected(u)) :
            \/ Rechazada(reg, con, u, s) /\ UNCHANGED disco
            \/ /\ reg = "si" /\ con = "si" /\ registered_users[u] = Ilegible
               /\ s \in {0, 3} /\ UNCHANGED disco
            \/ /\ reg = "si" /\ con = "si" /\ Legible(u) /\ ~Publicado(u, f)
               /\ s = 3 /\ UNCHANGED disco
            \/ /\ reg = "si" /\ con = "si" /\ Legible(u) /\ s = 0
               /\ \E i \in Lugar(u, f) :
                    registered_users' =
                      [registered_users EXCEPT ![u] = RemoveAt(registered_users[u], i)]
               /\ UNCHANGED active_users
      BY <1>10 DEF delete
    <2>2. CASE Rechazada(reg, con, u, s) /\ UNCHANGED disco
      BY <1>7, <1>10, <2>2
    <2>3. CASE reg = "si" /\ con = "si"
      <3>1. active_users[u] # NoFile
        BY <1>6, <2>3
      <3>2. CASE registered_users[u] = Ilegible /\ s \in {0, 3} /\ UNCHANGED disco
        BY <1>8, <1>10, <3>1, <3>2
      <3>3. CASE Legible(u) /\ ~Publicado(u, f) /\ s = 3 /\ UNCHANGED disco
        BY <1>5, <1>10, <3>1, <3>3
      <3>4. CASE /\ Legible(u) /\ s = 0 /\ UNCHANGED active_users
                 /\ \E i \in Lugar(u, f) :
                      registered_users' =
                        [registered_users EXCEPT ![u] = RemoveAt(registered_users[u], i)]
        <4>1. Cat!Retira(u, f)
          <5>1. PICK i \in Lugar(u, f) :
                  registered_users' =
                    [registered_users EXCEPT ![u] = RemoveAt(registered_users[u], i)]
            BY <3>4
          <5>2. i \in 1 .. Len(registered_users[u]) /\ registered_users[u][i][1] = f
            BY <1>5, <3>4 DEF Lugar
          <5>3. registered_users' = [registered_users EXCEPT ![u] = RemoveAt(@, i)]
            BY <5>1
          <5> HIDE DEF u, f
          <5> QED BY <1>5, <3>1, <3>4, <5>2, <5>3 DEF Cat!Retira, RemoveAt, Cat!RemoveAt
        <4> QED BY <1>10, <3>4, <4>1
      <3> QED BY <2>1, <2>2, <3>2, <3>3, <3>4
    <2> QED BY <2>1, <2>2, <2>3
  <1> QED BY <1>1, <1>2, <1>3, <1>4, <1>9, <1>10 DEF Modifica

LEMMA ListaAtiende ==
  ASSUME DiscoInv, Fallos = FALSE, Ignorados = FALSE, NEW p \in Peticion, NEW r \in Lista(p),
         UNCHANGED disco
  PROVE  Cat!Atiende(p, r[1], r[2])
  <1> DEFINE u == p.client_user_name
             v == p.user_name
             entradas == registered_users[v]
  <1>0. u \in Nombres /\ v \in Nombres /\ DiscoOK
    BY CamposPeticion DEF DiscoInv
  <1> USE DEF Cat!Atiende, Cat!Rehusa, Cat!NoPuede, Cat!Informa, Cat!Registrado,
              Cat!Conectado, disco
  <1>1. CASE p.command_str = "LIST_USERS"
    <2>1. \/ r = <<3, {}>> /\ ~dir_active
          \/ r = <<0, {<<n, active_users[n]>> :
                         n \in {m \in Nombres : active_users[m] # NoFile}}>>
      BY <1>1 DEF Lista, list_users_get_num, list_users_get_info
    <2> QED BY <1>0, <1>1, <2>1 DEF DiscoOK
  <1>2. CASE p.command_str = "LIST_CONTENT"
    <2>1. PICK n \in list_content_get_num(v) :
            r \in CASE n = -1 -> {<<3, {}>>}
                    [] n = -2 -> {<<4, {}>>}
                    [] OTHER -> list_content(u, v)
      BY <1>2 DEF Lista
    <2>2. CASE entradas = NoFile
      <3>1. n = -1
        BY <1>0, <2>1, <2>2, Busquedas DEF list_content_get_num
      <3> QED BY <1>2, <2>1, <2>2, <3>1
    <2>3. CASE entradas # NoFile
      <3>1. n # -1 /\ n # -2
        <4>1. \A reg \in DosLlamadas(check_user_registered(v)) : reg = "si"
          BY <1>0, <2>3, Busquedas
        <4>2. CASE entradas = Ilegible
          BY <2>1, <2>3, <4>1, <4>2 DEF list_content_get_num
        <4>3. CASE entradas # Ilegible
          <5>1. Len(entradas) \in Nat
            BY <1>0, <2>3, <4>3 DEF DiscoOK
          <5>2. n = Len(entradas)
            BY <2>1, <2>3, <4>1, <4>3 DEF list_content_get_num
          <5> QED BY <5>1, <5>2
        <4> QED BY <4>2, <4>3
      <3>2. r \in list_content(u, v)
        BY <2>1, <3>1
      <3>3. ASSUME NEW reg \in DosLlamadas(check_user_registered(u)),
                   NEW con \in DosLlamadas(check_user_connected(u))
            PROVE  /\ \/ reg = "si" /\ registered_users[u] # NoFile
                      \/ reg = "no" /\ registered_users[u] = NoFile
                   /\ \/ con = "si" /\ active_users[u] # NoFile
                      \/ con = "no" /\ active_users[u] = NoFile
        BY <1>0, <3>3, Busquedas
      <3>4. CASE \E c \in DosLlamadas(check_user_registered(u)) \X
                            DosLlamadas(check_user_connected(u)), x \in 1 .. 4 :
                   r = <<x, {}>> /\ Rechazada(c[1], c[2], v, x)
        <4>1. PICK c \in DosLlamadas(check_user_registered(u)) \X
                           DosLlamadas(check_user_connected(u)), x \in 1 .. 4 :
                   r = <<x, {}>> /\ Rechazada(c[1], c[2], v, x)
          BY <3>4
        <4>2. \/ x = 1 /\ registered_users[u] = NoFile
              \/ x = 2 /\ registered_users[u] # NoFile /\ active_users[u] = NoFile
          <5>1. /\ c[1] \in DosLlamadas(check_user_registered(u))
                /\ c[2] \in DosLlamadas(check_user_connected(u))
            OBVIOUS
          <5> QED BY <2>3, <3>3, <4>1, <5>1 DEF Rechazada
        <4>3. r[1] = x /\ r[2] = {}
          BY <4>1
        <4> QED BY <1>2, <2>3, <4>2, <4>3
      <3>5. CASE /\ <<"si", "si">> \in DosLlamadas(check_user_registered(u)) \X
                                        DosLlamadas(check_user_connected(u))
                 /\ \/ r = <<0, {}>> /\ entradas = Ilegible
                    \/ /\ Legible(v)
                       /\ r = <<0, {<<i, entradas[i]>> : i \in 1 .. Len(entradas)}>>
        <4>1. registered_users[u] # NoFile /\ active_users[u] # NoFile
          BY <3>3, <3>5
        <4>2. CASE r = <<0, {}>> /\ entradas = Ilegible
          <5>1. r[1] = 0 /\ r[2] = {}
            BY <4>2
          <5>2. Cat!Informa(p, {})
            BY <1>2, <2>3, <4>1, <4>2
          <5> QED BY <5>1, <5>2
        <4>3. ASSUME Legible(v), NEW l,
                     l = {<<i, entradas[i]>> : i \in 1 .. Len(entradas)}, r = <<0, l>>
              PROVE  Cat!Atiende(p, r[1], r[2])
          <5>1. r[1] = 0 /\ r[2] = l
            BY <4>3
          <5>2. Cat!Informa(p, l)
            BY <1>2, <2>3, <4>1, <4>3 DEF Legible
          <5> QED BY <5>1, <5>2
        <4> QED BY <3>5, <4>2, <4>3
      <3>6. \/ \E c \in DosLlamadas(check_user_registered(u)) \X
                         DosLlamadas(check_user_connected(u)), x \in 1 .. 4 :
                 r = <<x, {}>> /\ Rechazada(c[1], c[2], v, x)
            \/ /\ <<"si", "si">> \in DosLlamadas(check_user_registered(u)) \X
                                      DosLlamadas(check_user_connected(u))
               /\ \/ r = <<0, {}>> /\ entradas = Ilegible
                  \/ /\ Legible(v)
                     /\ r = <<0, {<<i, entradas[i]>> : i \in 1 .. Len(entradas)}>>
        BY <3>2, SMTT(30) DEF list_content
      <3> QED BY <3>4, <3>5, <3>6
    <2> QED BY <2>2, <2>3
  <1> QED BY <1>1, <1>2, ListaVeraz

-------------------------------------------------------------------------------
(* Steps. *)

\* A worker that resolves its request makes the catalogue's step.
LEMMA ResuelveAtiende ==
  ASSUME MemoriaOK, NEW w \in Workers, NEW s, NEW l, Resuelve(w, s, l),
         Cat!Atiende(hilo[w].pet, s, l)
  PROVE  Cat!Peticion
  <1> DEFINE x == [con |-> hilo[w].con, pet |-> hilo[w].pet, status |-> s, lista |-> l]
  <1>1. historia \in Seq(Ejecucion) /\ historia' = Append(historia, x)
    BY DEF MemoriaOK, Resuelve
  <1>2. x.pet = hilo[w].pet /\ x.status = s /\ x.lista = l
    OBVIOUS
  <1> HIDE DEF x
  <1>3. Len(historia') = Len(historia) + 1 /\ historia'[Len(historia')] = x
    BY <1>1
  <1> QED BY <1>1, <1>2, <1>3 DEF Cat!Peticion

LEMMA EjecutaAtiende ==
  ASSUME SrvInv, Fallos = FALSE, Ignorados = FALSE, NEW w \in Workers, Ejecuta(w)
  PROVE  [Cat!Next]_(Cat!vars)
  <1>0. MemoriaOK /\ DiscoInv /\ hilo[w].pet \in Peticion
    BY DEF SrvInv, MemoriaOK, EstadoHilo
  <1>1. ASSUME NEW s, Modifica(hilo[w].pet, s), Resuelve(w, s, {}) PROVE Cat!Peticion
    BY <1>0, <1>1, ModificaAtiende, ResuelveAtiende
  <1>2. ASSUME NEW r \in Lista(hilo[w].pet), Resuelve(w, r[1], r[2]), UNCHANGED disco
        PROVE  Cat!Peticion
    BY <1>0, <1>2, ListaAtiende, ResuelveAtiende
  <1>3. ASSUME hilo[w].pet.command_str = Basura, NEW s, Resuelve(w, s, {}),
               UNCHANGED disco
        PROVE  Cat!Peticion
    <2>1. Cat!Atiende(hilo[w].pet, s, {})
      BY <1>3 DEF Cat!Atiende, Cat!Rehusa, disco
    <2> QED BY <1>0, <1>3, <2>1, ResuelveAtiende
  <1>4. CASE UNCHANGED <<disco, historia>>
    BY <1>4 DEF disco, Cat!vars
  <1> QED BY <1>1, <1>2, <1>3, <1>4 DEF Ejecuta, Cat!Next

\* A death in the middle leaves a change that nobody is told, or none.
LEMMA MuereAtiende ==
  ASSUME SrvInv, Fallos = FALSE, Ignorados = FALSE, NEW w \in Workers, MuereEjecutando(w)
  PROVE  [Cat!Next]_(Cat!vars)
  <1> DEFINE p == hilo[w].pet
             u == p.client_user_name
  <1>0. MemoriaOK /\ DiscoInv /\ p \in Peticion /\ UNCHANGED historia
    BY DEF SrvInv, MemoriaOK, EstadoHilo, MuereEjecutando
  <1>1. /\ u \in Nombres /\ DiscoOK
        /\ p.user_addr \in Direcciones \cup {Basura, Vacio}
        /\ p.file_name \in Ficheros \cup {Basura}
        /\ p.description \in Descripciones \cup {Basura}
    BY <1>0, CamposPeticion DEF DiscoInv
  <1>2. ASSUME NEW s, Modifica(p, s) PROVE [Cat!Next]_(Cat!vars)
    <2>1. Cat!Atiende(p, s, {})
      BY <1>0, <1>2, ModificaAtiende
    <2>2. CASE Cat!Cambia(p)
      <3>1. Cat!SinRespuesta
        BY <1>0, <1>1, <2>2 DEF Cat!Cambia, Cat!SinRespuesta
      <3> QED BY <3>1 DEF Cat!Next
    <2>3. CASE UNCHANGED <<registered_users, active_users>>
      BY <1>0, <2>3 DEF Cat!vars
    <2> QED BY <2>1, <2>2, <2>3 DEF Cat!Atiende
  <1>3. ASSUME AMedias(p) PROVE [Cat!Next]_(Cat!vars)
    <2>1. CASE UNCHANGED <<registered_users, active_users>>
      BY <1>0, <2>1 DEF Cat!vars
    <2>2. CASE /\ 1 \in check_user_registered(u) /\ active_users[u] = NoFile
               /\ active_users' = [active_users EXCEPT ![u] = Vacio]
               /\ UNCHANGED registered_users
      <3>1. registered_users[u] # NoFile
        <4> HIDE DEF u
        <4> QED BY <1>1, <2>2, SiRegistrado
      <3>2. Cat!Conecta(u, Vacio)
        BY <2>2, <3>1 DEF Cat!Conecta, Cat!Registrado, Cat!Conectado
      <3>3. Cat!SinRespuesta
        BY <1>0, <1>1, <3>2 DEF Cat!SinRespuesta
      <3> QED BY <3>3 DEF Cat!Next
    <2>3. ASSUME Admitido(u), Legible(u)
          PROVE  Cat!Legible(u) /\ Cat!Conectado(u)
      <3>1. active_users[u] # NoFile
        BY <1>1, <2>3, Busquedas DEF Admitido
      <3> QED BY <2>3, <3>1 DEF Legible, Cat!Legible, Cat!Conectado
    <2>4. CASE /\ Admitido(u) /\ Legible(u)
               /\ registered_users' = [registered_users EXCEPT ![u] = Ilegible]
               /\ UNCHANGED active_users
      <3>1. Cat!PublicaAMedias(u)
        BY <2>3, <2>4 DEF Cat!PublicaAMedias
      <3>2. Cat!SinRespuesta
        BY <1>0, <1>1, <3>1 DEF Cat!SinRespuesta
      <3> QED BY <3>2 DEF Cat!Next
    <2>5. ASSUME Admitido(u), Legible(u), UNCHANGED active_users,
                 NEW i \in Lugar(u, p.file_name),
                 NEW x \in Truncados(registered_users[u], i),
                 registered_users' = [registered_users EXCEPT ![u] = x]
          PROVE  [Cat!Next]_(Cat!vars)
      <3> DEFINE lineas == registered_users[u]
      <3>1. /\ lineas \in Seq(EntradasEnDisco) /\ i \in 1 .. Len(lineas)
            /\ lineas[i][1] = p.file_name
        BY <1>0, <1>1, <2>5, LegibleTipo DEF Lugar
      <3>2. x \in {SubSeq(lineas, 1, i - 1) \o SubSeq(lineas, i + 1, j) :
                     j \in i .. Len(lineas)} \cup {Ilegible}
        <4>1. CASE x = Ilegible
          BY <4>1
        <4>2. CASE x # Ilegible
          <5>1. PICK k \in 0 .. Len(lineas) - i : x = Hasta(lineas, i, k)
            BY <2>5, <4>2 DEF Truncados
          <5>2. i + k \in i .. Len(lineas)
            BY <3>1, <5>1
          <5> QED BY <5>1, <5>2 DEF Hasta
        <4> QED BY <4>1, <4>2
      <3>3. Cat!RetiraAMedias(u, p.file_name)
        BY <2>3, <2>5, <3>1, <3>2 DEF Cat!RetiraAMedias
      <3>4. Cat!SinRespuesta
        BY <1>0, <1>1, <3>3 DEF Cat!SinRespuesta
      <3> QED BY <3>4 DEF Cat!Next
    <2> QED BY <1>3, <2>1, <2>2, <2>4, <2>5 DEF AMedias
  <1>4. ASSUME Aborta(p) PROVE [Cat!Next]_(Cat!vars)
    BY <1>4 DEF Aborta
  <1> QED BY <1>2, <1>3, <1>4 DEF MuereEjecutando

LEMMA InitAtiende == Init => Cat!Init
  <1> SUFFICES ASSUME Init PROVE Cat!Init
    OBVIOUS
  <1>1. \A u \in Nombres : Legible(u) =>
          registered_users[u] \in Previos \ {Ilegible}
    BY DEF Init, InitPlatform, Legible
  <1>2. \A u \in Nombres : Legible(u) =>
          \A i, j \in 1 .. Len(registered_users[u]) :
            registered_users[u][i][1] = registered_users[u][j][1] => i = j
    BY <1>1, PlatformAssumption
  <1>3. \A u \in Nombres : active_users[u] \in Direcciones \cup {Basura, Vacio} \cup {NoFile}
    BY InitSrv DEF SrvInv, DiscoInv, DiscoOK, Destinos
  <1>4. historia = <<>>
    BY DEF Init
  <1> QED BY <1>2, <1>3, <1>4 DEF Cat!Init, Cat!Legible, Legible

LEMMA StepAtiende ==
  ASSUME SrvInv, Fallos = FALSE, Ignorados = FALSE, [Next]_vars
  PROVE  [Cat!Next]_(Cat!vars)
  <1>1. ASSUME NEW w \in Workers, Ejecuta(w) PROVE [Cat!Next]_(Cat!vars)
    BY <1>1, EjecutaAtiende
  <1>2. ASSUME NEW w \in Workers, MuereEjecutando(w) PROVE [Cat!Next]_(Cat!vars)
    BY <1>2, MuereAtiende
  <1>3. CASE UNCHANGED <<disco, historia>>
    BY <1>3 DEF disco, Cat!vars
  <1>4. \/ UNCHANGED <<disco, historia>>
        \/ \E w \in Workers : Ejecuta(w) \/ MuereEjecutando(w)
    BY Pasos DEF Ajeno, Muere, Saca, LockTuples, Cierra, Sigue
  <1> QED BY <1>1, <1>2, <1>3, <1>4

-------------------------------------------------------------------------------

\* While no system call fails, what the clients are answered, in the order of
\* the operations, is what a catalogue that serves one request at a time would
\* answer, as far as a user's file reads back as entries; a death of the process
\* leaves at most one change unanswered, whole or half made, and half a DELETE or
\* half a PUBLISH may cost that user publications.
THEOREM ElServidorEsUnCatalogo ==
  ASSUME Fallos = FALSE, Ignorados = FALSE
  PROVE  Spec => ImplementaCatalogo
  <1>1. SrvInv /\ [Next]_vars => [Cat!Next]_(Cat!vars)
    BY StepAtiende
  <1>2. Spec => Cat!Spec
    BY <1>1, InitAtiende, SrvInvariante, PTL DEF Spec, Cat!Spec
  <1> QED BY <1>2 DEF ImplementaCatalogo
===============================================================================
