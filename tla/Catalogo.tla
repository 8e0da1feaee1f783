------------------------------- MODULE Catalogo -------------------------------
(***************************************************************************)
(* What the platform promises its clients: one catalogue of users, their   *)
(* addresses while connected and their publications, on which the requests *)
(* act one at a time.  `historia` is the sequence of requests with their   *)
(* answers; a step adds one, and its answer is the one the catalogue at    *)
(* that moment gives.  It promises little of a user whose file does not    *)
(* read back as entries (Ilegible), and a server that dies in the middle   *)
(* of a change may lose publications of that user (SinRespuesta).          *)
(* Servidor, when no system call fails, implements this module.            *)
(***************************************************************************)
EXTENDS Naturals, SequencesExt

CONSTANTS Nombres, Ficheros, Descripciones, Direcciones, NoFile, Basura,
          Ilegible,   \* publications that cannot be told apart any more
          Ilegibles   \* the entries that bring that about

VARIABLES
  publicaciones,   \* of each registered user, in order; NoFile: not registered
  conectados,      \* address of each connected user; NoFile: not connected
  historia

vars == <<publicaciones, conectados, historia>>

Registrado(u) == publicaciones[u] # NoFile
Legible(u) == publicaciones[u] \notin {NoFile, Ilegible}
Conectado(u) == conectados[u] # NoFile
Publicado(u, f) ==
  \E i \in 1 .. Len(publicaciones[u]) : publicaciones[u][i][1] = f

Init ==
  /\ \A u \in Nombres : Legible(u) =>
       \A i, j \in 1 .. Len(publicaciones[u]) :
         publicaciones[u][i][1] = publicaciones[u][j][1] => i = j
  /\ \A u \in Nombres : conectados[u] \in Direcciones \cup {NoFile}
  /\ historia = <<>>

-------------------------------------------------------------------------------
(* Changes, each with its precondition. *)

Registra(u) ==
  /\ ~Registrado(u)
  /\ publicaciones' = [publicaciones EXCEPT ![u] = <<>>]
  /\ UNCHANGED conectados

\* A user that leaves while connected stays connected.
DaDeBaja(u) ==
  /\ Registrado(u)
  /\ publicaciones' = [publicaciones EXCEPT ![u] = NoFile]
  /\ UNCHANGED conectados

Conecta(u, addr) ==
  /\ Registrado(u) /\ ~Conectado(u)
  /\ conectados' = [conectados EXCEPT ![u] = addr]
  /\ UNCHANGED publicaciones

Desconecta(u) ==
  /\ Registrado(u) /\ Conectado(u)
  /\ conectados' = [conectados EXCEPT ![u] = NoFile]
  /\ UNCHANGED publicaciones

Publica(u, f, d) ==
  /\ Legible(u) /\ Conectado(u) /\ ~Publicado(u, f)
  /\ publicaciones' =
       [publicaciones EXCEPT ![u] = IF <<f, d>> \in Ilegibles THEN Ilegible
                                    ELSE Append(@, <<f, d>>)]
  /\ UNCHANGED conectados

Retira(u, f) ==
  /\ Legible(u) /\ Conectado(u)
  /\ \E i \in 1 .. Len(publicaciones[u]) :
       /\ publicaciones[u][i][1] = f
       /\ publicaciones' = [publicaciones EXCEPT ![u] = RemoveAt(@, i)]
  /\ UNCHANGED conectados

\* A removal that is cut takes with it any number of the publications made after
\* the one it removes, and may leave the last of the others by half.
RetiraAMedias(u, f) ==
  /\ Legible(u) /\ Conectado(u)
  /\ \E i \in 1 .. Len(publicaciones[u]) :
       /\ publicaciones[u][i][1] = f
       /\ \E x \in {SubSeq(publicaciones[u], 1, i - 1)
                      \o SubSeq(publicaciones[u], i + 1, j) :
                    j \in i .. Len(publicaciones[u])} \cup {Ilegible} :
            publicaciones' = [publicaciones EXCEPT ![u] = x]
  /\ UNCHANGED conectados

\* A publication that is cut leaves half a line.
PublicaAMedias(u) ==
  /\ Legible(u) /\ Conectado(u)
  /\ publicaciones' = [publicaciones EXCEPT ![u] = Ilegible]
  /\ UNCHANGED conectados

\* Why a request of u that needs u connected is refused.
NoPuede(u, s) ==
  \/ ~Registrado(u) /\ s = 1
  \/ Registrado(u) /\ ~Conectado(u) /\ s = 2

-------------------------------------------------------------------------------
(* Request p is answered with status s and listing l. *)

Cambia(p) ==
  LET u == p.client_user_name
      op == p.command_str
  IN  \/ op = "REGISTER" /\ Registra(u)
      \/ op = "UNREGISTER" /\ DaDeBaja(u)
      \/ op = "CONNECT" /\ Conecta(u, p.user_addr)
      \/ op = "DISCONNECT" /\ Desconecta(u)
      \/ op = "PUBLISH" /\ Publica(u, p.file_name, p.description)
      \/ op = "DELETE" /\ Retira(u, p.file_name)

Rehusa(p, s) ==
  LET u == p.client_user_name
      op == p.command_str
  IN  \/ op = "REGISTER" /\ Registrado(u) /\ s = 1
      \/ op = "UNREGISTER" /\ ~Registrado(u) /\ s = 1
      \/ op = "CONNECT" /\ ~Registrado(u) /\ s = 1
      \/ op = "CONNECT" /\ Registrado(u) /\ Conectado(u) /\ s = 2
      \/ op \in {"DISCONNECT", "PUBLISH", "DELETE"} /\ NoPuede(u, s)
      \/ /\ op \in {"PUBLISH", "DELETE"} /\ s = 3
         /\ Legible(u) /\ Conectado(u)
         /\ \/ Publicado(u, p.file_name) <=> op = "PUBLISH"
            \/ publicaciones[u] = <<>>   \* PUBLISH too, by mistake
      \/ /\ op \in {"PUBLISH", "DELETE"} /\ s \in {0, 3}   \* nobody can tell
         /\ publicaciones[u] = Ilegible /\ Conectado(u)
      \/ op = "LIST_USERS" /\ s = 3 /\ \A n \in Nombres : ~Conectado(n)
      \/ op = "LIST_CONTENT" /\ ~Registrado(p.user_name) /\ s = 3
      \/ op = "LIST_CONTENT" /\ Registrado(p.user_name) /\ NoPuede(u, s)
      \/ op = Basura

Informa(p, l) ==
  LET u == p.client_user_name
      op == p.command_str
  IN  \/ /\ op = "LIST_USERS"
         /\ l = {<<n, conectados[n]>> : n \in {m \in Nombres : Conectado(m)}}
      \/ /\ op = "LIST_CONTENT"
         /\ Registrado(p.user_name) /\ Registrado(u) /\ Conectado(u)
         /\ l = IF publicaciones[p.user_name] = Ilegible THEN {}   \* not followed
                ELSE {<<i, publicaciones[p.user_name][i]>> :
                        i \in 1 .. Len(publicaciones[p.user_name])}

Atiende(p, s, l) ==
  \/ s = 0 /\ l = {} /\ Cambia(p)
  \/ l = {} /\ Rehusa(p, s) /\ UNCHANGED <<publicaciones, conectados>>
  \/ s = 0 /\ Informa(p, l) /\ UNCHANGED <<publicaciones, conectados>>

Peticion ==
  /\ Len(historia') = Len(historia) + 1
  /\ LET h == historia'[Len(historia')]
     IN  historia' = Append(historia, h) /\ Atiende(h.pet, h.status, h.lista)

\* The server dies with a change made, or half made, and not answered.
SinRespuesta ==
  /\ UNCHANGED historia
  /\ \E u \in Nombres :
       \/ Registra(u) \/ DaDeBaja(u) \/ Desconecta(u) \/ PublicaAMedias(u)
       \/ \E addr \in Direcciones : Conecta(u, addr)
       \/ \E f \in Ficheros :
            \/ Retira(u, f) \/ RetiraAMedias(u, f)
            \/ \E d \in Descripciones : Publica(u, f, d)

Next == Peticion \/ SinRespuesta

Spec == Init /\ [][Next]_vars
===============================================================================
