------------------------------- MODULE Platform -------------------------------
(***************************************************************************)
(* servidor/manage_platform.c: what each operation of the platform does to *)
(* the two directories where the server keeps its users, and the status it *)
(* returns.  registered_users/<user> holds the user's publications, one    *)
(* line each; active_users/<user> holds the address of a connected user.   *)
(* Nothing ties one directory to the other, and both outlive the server.   *)
(*                                                                         *)
(* An operation is an action with its returned status as last parameter.   *)
(* All of them run under mutex_tuples, so each one is a single step.  With *)
(* Fallos the calls whose result the code looks at may fail, which leaves  *)
(* the files as they are half way; with Ignorados, also those whose        *)
(* failure it ignores or takes for the end of a file.                      *)
(*                                                                         *)
(* A user's file is the sequence of its entries as long as fscanf gives    *)
(* them back whole.  When it does not (half a line, an empty description,  *)
(* a path that is empty, of one letter or with a tab: see UserFile) it is  *)
(* Ilegible, and what it holds is not followed until the user unregisters. *)
(***************************************************************************)
EXTENDS Integers, SequencesExt

CONSTANTS
  Nombres,         \* user names that reach the server
  Ficheros,        \* paths of published files
  Descripciones,
  Direcciones,     \* "ip/port" of a peer
  NoFile,          \* there is no such file
  Ilegible,        \* a user's file that does not read back as entries
  Ilegibles,       \* the entries that make it so
  Vacio,           \* active_users/<user> was created and not written
  Antiguos,        \* users that may have used the platform before the start
  Previos,         \* contents their files in registered_users may have
  Fallos,          \* may system calls fail?
  Ignorados        \* also those of publish, delete and the listings that the
                   \* code does not look at?

ASSUME PlatformAssumption ==
  /\ Vacio \notin Direcciones
  /\ NoFile \notin Direcciones \cup {Vacio}
  /\ NoFile \notin Seq(Ficheros \X Descripciones)
  /\ Ilegible \notin Seq(Ficheros \X Descripciones) \cup {NoFile}
  /\ Antiguos \subseteq Nombres
  /\ Previos \subseteq Seq(Ficheros \X Descripciones) \cup {Ilegible}
  /\ \A p \in Previos \ {Ilegible} :
       \A i, j \in DOMAIN p : p[i][1] = p[j][1] => i = j
  /\ Fallos \in BOOLEAN /\ Ignorados \in BOOLEAN

VARIABLES
  dir_registered,     \* does directory registered_users exist?
  dir_active,         \* does directory active_users exist?
  registered_users,   \* the files of the first one
  active_users        \* the files of the second one

disco == <<dir_registered, dir_active, registered_users, active_users>>

\* The user's file is there and reads back as its entries.
Legible(u) == registered_users[u] \notin {NoFile, Ilegible}

Publicado(u, f) ==
  \E i \in DOMAIN registered_users[u] : registered_users[u][i][1] = f

\* The directories as earlier runs of the server left them: absent, or with
\* users registered, connected, connected and no longer registered, with a file
\* that is no longer legible, or with the empty file of a CONNECT that was cut.
InitPlatform ==
  /\ dir_registered \in BOOLEAN
  /\ dir_active \in {b \in BOOLEAN : b => dir_registered}
  /\ registered_users \in
       [Nombres -> {NoFile} \cup {p \in Previos : dir_registered}]
  /\ active_users \in
       [Nombres -> {NoFile} \cup {a \in Direcciones \cup {Vacio} : dir_active}]
  /\ \A u \in Nombres \ Antiguos :
       registered_users[u] = NoFile /\ active_users[u] = NoFile

-------------------------------------------------------------------------------
(* Lookups.  Each is the set of values the call may return. *)

\* 1 the file exists, 0 it does not, 2 nor does the directory, -1 error.  An
\* access that fails for any other reason passes for a file that is not there.
is_file_in_directory(dir, fichero) ==
  {IF ~dir THEN 2 ELSE IF fichero = NoFile THEN 0 ELSE 1}
    \cup {r \in {-1, 0} : Fallos /\ (r = 0 => dir)}

check_user_registered(u) ==
  {IF r = 2 THEN 0 ELSE r :
     r \in is_file_in_directory(dir_registered, registered_users[u])}

check_user_connected(u) ==
  {IF r = 2 THEN 0 ELSE r :
     r \in is_file_in_directory(dir_active, active_users[u])}

\* publish, delete and the listings call each check twice, once for the error
\* and once for the answer: an error of the second call passes for a "yes".
DosLlamadas(check) ==
  {IF r1 < 0 THEN "error" ELSE IF r2 = 0 THEN "no" ELSE "si" :
     r1 \in check, r2 \in check}

-------------------------------------------------------------------------------
(* Operations that change the directories. *)

register_user(u, s) ==
  \E r \in is_file_in_directory(dir_registered, registered_users[u]) :
    \/ r = -1 /\ s = 2 /\ UNCHANGED disco
    \/ r = 1 /\ s = 1 /\ UNCHANGED disco
    \/ \* mkdir fails, or the directory was there and fopen fails
       r \in {0, 2} /\ Fallos /\ s = 2 /\ UNCHANGED disco
    \/ \* fopen fails
       /\ r = 2 /\ Fallos /\ s = 2
       /\ dir_registered' = TRUE
       /\ UNCHANGED <<dir_active, registered_users, active_users>>
    \/ /\ r \in {0, 2}
       /\ s = 0 \/ (s = 2 /\ Fallos)   \* fclose fails
       /\ dir_registered' = TRUE
       /\ registered_users' = [registered_users EXCEPT ![u] = <<>>]
       /\ UNCHANGED <<dir_active, active_users>>

\* Mutant of unregister_user: the result of unlink is not looked at.
unregister_userSinError(u, s) ==
  \E r \in is_file_in_directory(dir_registered, registered_users[u]) :
    \/ r = -1 /\ s = 2 /\ UNCHANGED disco
    \/ r \in {0, 2} /\ s = 1 /\ UNCHANGED disco
    \/ r = 1 /\ Fallos /\ s = 0 /\ UNCHANGED disco
    \/ /\ r = 1 /\ s = 0
       /\ registered_users' = [registered_users EXCEPT ![u] = NoFile]
       /\ UNCHANGED <<dir_registered, dir_active, active_users>>

\* The user's publications go with the file; active_users is not looked at.
unregister_user(u, s) ==
  \E r \in is_file_in_directory(dir_registered, registered_users[u]) :
    \/ r = -1 /\ s = 2 /\ UNCHANGED disco
    \/ r \in {0, 2} /\ s = 1 /\ UNCHANGED disco
    \/ r = 1 /\ Fallos /\ s = 2 /\ UNCHANGED disco
    \/ /\ r = 1 /\ s = 0
       /\ registered_users' = [registered_users EXCEPT ![u] = NoFile]
       /\ UNCHANGED <<dir_registered, dir_active, active_users>>

\* Mutant of connect_user: a user already connected is not refused.
connect_userSinComprobar(u, addr, s) ==
  \E reg \in check_user_registered(u) :
    \/ reg = 0 /\ s = 1 /\ UNCHANGED disco
    \/ reg = -1 /\ s = 3 /\ UNCHANGED disco
    \/ /\ reg = 1 /\ s = 0
       /\ dir_active' = TRUE
       /\ active_users' = [active_users EXCEPT ![u] = addr]
       /\ UNCHANGED <<dir_registered, registered_users>>

connect_user(u, addr, s) ==
  \E reg \in check_user_registered(u),
     r \in is_file_in_directory(dir_active, active_users[u]) :
    \/ reg = 0 /\ s = 1 /\ UNCHANGED disco
    \/ reg = -1 /\ s = 3 /\ UNCHANGED disco
    \/ reg = 1 /\ r = -1 /\ s = 3 /\ UNCHANGED disco
    \/ reg = 1 /\ r = 1 /\ s = 2 /\ UNCHANGED disco
    \/ reg = 1 /\ r \in {0, 2} /\ Fallos /\ s = 3 /\ UNCHANGED disco
    \/ /\ reg = 1 /\ r \in {0, 2}
       /\ dir_active' = TRUE
       /\ UNCHANGED <<dir_registered, registered_users>>
       /\ \/ s = 0 /\ active_users' = [active_users EXCEPT ![u] = addr]
          \/ Fallos /\ s = 3 /\ UNCHANGED active_users   \* fopen fails
          \/ \* fprintf or fclose fails
             /\ Fallos /\ s = 3
             /\ active_users' \in {[active_users EXCEPT ![u] = Vacio],
                                   [active_users EXCEPT ![u] = addr]}

disconnect_user(u, s) ==
  \E reg \in check_user_registered(u), con \in check_user_connected(u) :
    \/ reg = 0 /\ s = 1 /\ UNCHANGED disco
    \/ reg = -1 /\ s = 3 /\ UNCHANGED disco
    \/ reg = 1 /\ con = -1 /\ s = 3 /\ UNCHANGED disco
    \/ reg = 1 /\ con = 0 /\ s = 2 /\ UNCHANGED disco
    \/ reg = 1 /\ con = 1 /\ Fallos /\ s = 3 /\ UNCHANGED disco
    \/ /\ reg = 1 /\ con = 1 /\ s = 0
       /\ active_users' = [active_users EXCEPT ![u] = NoFile]
       /\ UNCHANGED <<dir_registered, dir_active, registered_users>>

\* The common beginning of publish and delete: u is registered and connected.
\* fopen "r+" does not create the file: without it the status is 4.
Rechazada(reg, con, u, s) ==
  \/ reg = "error" /\ s = 4
  \/ reg = "no" /\ s = 1
  \/ reg = "si" /\ con = "error" /\ s = 4
  \/ reg = "si" /\ con = "no" /\ s = 2
  \/ /\ reg = "si" /\ con = "si" /\ s = 4
     /\ registered_users[u] = NoFile \/ Fallos

\* Mutant of publish: the file is not searched for the path.
publishSinBuscar(u, f, d, s) ==
  \E reg \in DosLlamadas(check_user_registered(u)),
     con \in DosLlamadas(check_user_connected(u)) :
    \/ Rechazada(reg, con, u, s) /\ UNCHANGED disco
    \/ /\ reg = "si" /\ con = "si" /\ s = 0 /\ Legible(u)
       /\ registered_users' = [registered_users EXCEPT ![u] = Append(@, <<f, d>>)]
       /\ UNCHANGED <<dir_registered, dir_active, active_users>>

\* The file of u with one more line.
ConLinea(u, e) ==
  IF e \in Ilegibles THEN Ilegible ELSE Append(registered_users[u], e)

\* On an empty file the search compares with an array that was never written:
\* whatever is in it may be the path.  A read error ends it as the end of the
\* file does.
publish(u, f, d, s) ==
  \E reg \in DosLlamadas(check_user_registered(u)),
     con \in DosLlamadas(check_user_connected(u)) :
    \/ Rechazada(reg, con, u, s) /\ UNCHANGED disco
    \/ /\ reg = "si" /\ con = "si" /\ registered_users[u] = Ilegible
       /\ s \in {0, 3} \/ (s = 4 /\ Fallos)
       /\ UNCHANGED disco
    \/ /\ reg = "si" /\ con = "si" /\ Legible(u)
       /\ \/ /\ Publicado(u, f) \/ registered_users[u] = <<>>
             /\ s = 3 /\ UNCHANGED disco
          \/ /\ ~Publicado(u, f) \/ Ignorados
             /\ \/ /\ s = 0 \/ (s = 4 /\ Fallos)   \* the last fclose fails
                   /\ registered_users' =
                        [registered_users EXCEPT ![u] = ConLinea(u, <<f, d>>)]
                \/ /\ s = 4 /\ Fallos   \* a part of the line is written
                   /\ registered_users' = [registered_users EXCEPT ![u] = Ilegible]
             /\ UNCHANGED <<dir_registered, dir_active, active_users>>

\* Where the path is found, if it is: the first of its lines.
Lugar(u, f) ==
  {i \in DOMAIN registered_users[u] :
     /\ registered_users[u][i][1] = f
     /\ \A j \in 1 .. i - 1 : registered_users[u][j][1] # f}

\* Line i is out, the file is truncated there, and k of the lines that followed
\* are back from temp_copy.
Hasta(s, i, k) == SubSeq(s, 1, i - 1) \o SubSeq(s, i + 1, i + k)

\* All that the merge may have put back when it stops: whole lines, or half a one.
Truncados(s, i) ==
  {Hasta(s, i, k) : k \in 0 .. Len(s) - i} \cup {x \in {Ilegible} : i < Len(s)}

\* The same without the truncation: the lines are written over the old ones, and
\* what they do not cover is still there (whole lines, when they are as long).
SinTruncar(s, i) ==
  {Hasta(s, i, k) \o SubSeq(s, i + k, Len(s)) : k \in 0 .. Len(s) - i}
    \cup {Ilegible}

\* The line of the path that is found first is taken out of the file.  What the
\* code does not look at: reads that fail, writes to temp_copy and back from it,
\* and ftruncate.
delete(u, f, s) ==
  \E reg \in DosLlamadas(check_user_registered(u)),
     con \in DosLlamadas(check_user_connected(u)) :
    \/ Rechazada(reg, con, u, s) /\ UNCHANGED disco
    \/ /\ reg = "si" /\ con = "si" /\ registered_users[u] = Ilegible
       /\ s \in {0, 3} \/ (s = 4 /\ Fallos)
       /\ UNCHANGED disco
    \/ /\ reg = "si" /\ con = "si" /\ Legible(u)
       /\ \/ (~Publicado(u, f) \/ Ignorados) /\ s = 3 /\ UNCHANGED disco
          \/ /\ s = 0 \/ (s = 4 /\ Fallos)   \* an fclose fails
             /\ \E i \in Lugar(u, f) :
                  LET lineas == registered_users[u]
                  IN  \E x \in {RemoveAt(lineas, i)} \cup
                               {y \in Truncados(lineas, i) \cup SinTruncar(lineas, i) :
                                  Ignorados} :
                        registered_users' = [registered_users EXCEPT ![u] = x]
             /\ UNCHANGED <<dir_registered, dir_active, active_users>>

-------------------------------------------------------------------------------
(* Listings: they leave the directories alone.  Each is the set of results    *)
(* the call may have.                                                         *)

\* opendir fails when nobody has connected yet.
list_users_get_num == {r \in {0} : dir_active} \cup {r \in {3} : ~dir_active \/ Fallos}

\* <<status, users and addresses>>.  No result once an empty file is met (Cuelga),
\* nor when a call fails (Aborta); a readdir that fails ends the listing.
list_users_get_info ==
  LET conectados == {u \in Nombres : active_users[u] # NoFile}
  IN  {<<0, {<<u, active_users[u]>> : u \in vistos}>> :
         vistos \in {U \in SUBSET conectados :
                       /\ \A u \in U : active_users[u] # Vacio
                       /\ U = conectados \/ Ignorados}}

\* The number of lines of the owner's file, -1 no such owner, -2 error.
list_content_get_num(owner) ==
  {CASE reg = "error" -> -2
     [] reg = "no" -> -1
     [] reg = "si" /\ registered_users[owner] = NoFile -> -2
     [] reg = "si" /\ registered_users[owner] = Ilegible -> 0   \* any number
     [] OTHER -> Len(registered_users[owner]) :
       reg \in DosLlamadas(check_user_registered(owner))}
    \cup {n \in {-2} : Fallos}

\* <<status, the entries of the owner, numbered>>; those of a file that is not
\* legible are not followed, and a read that fails ends the listing.
list_content(user, owner) ==
  LET conds == DosLlamadas(check_user_registered(user)) \X
                 DosLlamadas(check_user_connected(user))
      entradas == registered_users[owner]
      hasta(k) == {<<i, entradas[i]>> : i \in 1 .. k}
  IN  {<<s, {}>> : s \in {x \in 1 .. 4 : \E c \in conds :
                                           Rechazada(c[1], c[2], owner, x)}}
        \cup {<<0, {}>> : c \in {x \in conds : x = <<"si", "si">> /\ entradas = Ilegible}}
        \cup {<<0, hasta(k)>> :
                k \in IF Legible(owner) /\ <<"si", "si">> \in conds
                      THEN {x \in 0 .. Len(entradas) : x = Len(entradas) \/ Ignorados}
                      ELSE {}}

-------------------------------------------------------------------------------
(* Three loops that may never end, a double free, and what a death leaves half *)
(* made.                                                                       *)

\* The user is registered and connected for publish, delete and list_content.
Admitido(u) ==
  /\ "si" \in DosLlamadas(check_user_registered(u))
  /\ "si" \in DosLlamadas(check_user_connected(u))

\* The file of u is not legible, or stops being so with a read error.
SinSalto(u) ==
  \/ registered_users[u] = Ilegible
  \/ Ignorados /\ registered_users[u] \notin {NoFile, <<>>}

\* The search for a line break that fscanf has swallowed, or that a read error
\* keeps away, in publish, delete and list_content; the one of delete on an empty
\* file, when the unwritten array holds the path; and LIST_USERS, that looks for
\* the '/' of an empty file.
Cuelga(p) ==
  \/ /\ p.command_str \in {"PUBLISH", "DELETE"}
     /\ Admitido(p.client_user_name) /\ SinSalto(p.client_user_name)
  \/ /\ p.command_str = "LIST_CONTENT"
     /\ Admitido(p.client_user_name) /\ SinSalto(p.user_name)
     /\ "si" \in DosLlamadas(check_user_registered(p.user_name))
  \/ /\ p.command_str = "DELETE"
     /\ Admitido(p.client_user_name) /\ registered_users[p.client_user_name] = <<>>
  \/ /\ p.command_str = "LIST_USERS"
     /\ 0 \in list_users_get_num
     /\ \E u \in Nombres : active_users[u] = Vacio

\* A failure of list_users_get_info: tratar_peticion frees its array twice.
Aborta(p) ==
  /\ p.command_str = "LIST_USERS"
  /\ Fallos /\ 0 \in list_users_get_num
  /\ UNCHANGED disco

\* A directory made, a file made and not written, half a line, or a file
\* truncated with lines that are only in temp_copy, which nothing reads.
AMedias(p) ==
  LET u == p.client_user_name
  IN  \/ /\ p.command_str = "REGISTER"
         /\ 2 \in is_file_in_directory(dir_registered, registered_users[u])
         /\ dir_registered' = TRUE
         /\ UNCHANGED <<dir_active, registered_users, active_users>>
      \/ /\ p.command_str = "CONNECT"
         /\ 1 \in check_user_registered(u)
         /\ active_users[u] = NoFile
         /\ dir_active' = TRUE
         /\ active_users' \in {active_users, [active_users EXCEPT ![u] = Vacio]}
         /\ UNCHANGED <<dir_registered, registered_users>>
      \/ /\ p.command_str = "PUBLISH"
         /\ Admitido(u) /\ Legible(u) /\ ~Publicado(u, p.file_name)
         /\ registered_users' = [registered_users EXCEPT ![u] = Ilegible]
         /\ UNCHANGED <<dir_registered, dir_active, active_users>>
      \/ /\ p.command_str = "DELETE"
         /\ Admitido(u) /\ Legible(u)
         /\ \E i \in Lugar(u, p.file_name) :
              \E x \in Truncados(registered_users[u], i) :
                registered_users' = [registered_users EXCEPT ![u] = x]
         /\ UNCHANGED <<dir_registered, dir_active, active_users>>

-------------------------------------------------------------------------------
(* The calls of tratar_peticion, for a request p. *)

\* Operations that change the directories, with their status.
Modifica(p, s) ==
  LET u == p.client_user_name
      op == p.command_str
  IN  \/ op = "REGISTER" /\ register_user(u, s)
      \/ op = "UNREGISTER" /\ unregister_user(u, s)
      \/ op = "CONNECT" /\ connect_user(u, p.user_addr, s)
      \/ op = "PUBLISH" /\ publish(u, p.file_name, p.description, s)
      \/ op = "DELETE" /\ delete(u, p.file_name, s)
      \/ op = "DISCONNECT" /\ disconnect_user(u, s)

\* Listings, <<status, what is sent after it>>.  The result of list_users_check
\* is dropped: LIST_USERS answers whoever asks.
Lista(p) ==
  CASE p.command_str = "LIST_USERS" ->
         {<<3, {}>> : n \in list_users_get_num \ {0}}
           \cup UNION {list_users_get_info : n \in list_users_get_num \cap {0}}
    [] p.command_str = "LIST_CONTENT" ->
         UNION {CASE n = -1 -> {<<3, {}>>}
                  [] n = -2 -> {<<4, {}>>}
                  [] OTHER -> list_content(p.client_user_name, p.user_name) :
                  n \in list_content_get_num(p.user_name)}
    [] OTHER -> {}
===============================================================================
