------------------------------ MODULE MCServidor ------------------------------
(* TLC instances of Servidor: the requests clients make, and the symmetry. *)
EXTENDS Servidor

CONSTANTS ana, luis, f1, f2, d, nada, a1, a2

Pide(op, u) == [PetBasura EXCEPT !.command_str = op, !.client_user_name = u]
PideConectar(u, a) == [Pide("CONNECT", u) EXCEPT !.user_addr = a]
PidePublicar(u, f) == [Pide("PUBLISH", u) EXCEPT !.file_name = f, !.description = d]
PideBorrar(u, f) == [Pide("DELETE", u) EXCEPT !.file_name = f]
PideContenido(u, v) == [Pide("LIST_CONTENT", u) EXCEPT !.user_name = v]

\* Every operation, by one user.
UnUsuario ==
  {Pide(op, ana) : op \in {"REGISTER", "UNREGISTER", "DISCONNECT", "LIST_USERS"}}
    \cup {PideConectar(ana, a1), PidePublicar(ana, f1),
          PideBorrar(ana, f1), PideContenido(ana, ana)}

\* Two users; one of them is looked at, and asked to leave, by the other.
DosUsuarios ==
  {Pide("REGISTER", luis), Pide("UNREGISTER", ana), Pide("LIST_USERS", luis),
   PideConectar(ana, a1), PidePublicar(ana, f1),
   PideBorrar(ana, f1), PideContenido(luis, ana), Pide("DISCONNECT", ana)}

\* The empty description, which leaves the file unreadable.
SinTexto == {[PidePublicar(ana, f2) EXCEPT !.description = nada]}
Pocas == {Pide("LIST_USERS", ana), PidePublicar(ana, f1)} \cup SinTexto

IlegiblesUno == {<<f2, nada>>}
PreviosUno == {<<<<f2, d>>>>}
PreviosDos == {<<>>, <<<<f1, d>>, <<f2, d>>>>}

\* The directories are there, and ana is registered.
InitRegistrada == Init /\ dir_active /\ registered_users[ana] # NoFile
SpecRegistrada == InitRegistrada /\ [][Next]_vars /\ Justicia

\* Each user has an address of its own.
InitPropias == Init /\ active_users[ana] # a2 /\ active_users[luis] # a1
SpecPropias == InitPropias /\ [][Next]_vars

Simetria == Permutations(Workers) \cup Permutations(Conexiones)
===============================================================================
