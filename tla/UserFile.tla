------------------------------- MODULE UserFile -------------------------------
(***************************************************************************)
(* The file registered_users/<user> byte by byte: how publish, delete and  *)
(* list_content of servidor/manage_platform.c search, write and parse it   *)
(* with fscanf("%s "), fgetc, fseek and ftruncate.  Platform takes this    *)
(* file for the sequence of its entries; here that sequence is `catalogo`, *)
(* moved only by what the operations are meant to do, and the bytes have   *)
(* to agree with it.  A line is "<path> <description>\n".                  *)
(*                                                                         *)
(* A step is one pass of a loop or one call that changes a file, so every  *)
(* state is a point where the process may die: what is left is the content *)
(* of `fichero` and `temp_copy`.  Positions count from 1 (ftell + 1).      *)
(***************************************************************************)
EXTENDS Naturals, Sequences, SequencesExt, FiniteSetsExt

CONSTANTS
  Letras,          \* bytes that fscanf does not take for blanks
  Rutas,           \* paths
  Descripciones,
  MAX_ENTRADAS,    \* bound: entries of the file
  NoFile

SP == " "
TAB == "\t"
NL == "\n"
Blancos == {SP, TAB, NL}

\* The client splits what is typed at single spaces, so a path may have a tab or
\* be empty; a description may be anything.
ASSUME UserFileAssumption ==
  /\ Blancos \cap Letras = {}
  /\ Rutas \subseteq Seq(Letras \cup {TAB})
  /\ Descripciones \subseteq Seq(Letras \cup {SP, TAB})
  /\ MAX_ENTRADAS \in Nat
  /\ NoFile \notin Seq(Letras \cup Blancos)

VARIABLES
  fichero,      \* bytes of the user's file
  temp_copy,    \* bytes of the file temp_copy
  catalogo,     \* reference: the entries the user has published, in order
  pc,           \* what is being done
  arg,          \* path and description of the operation under way
  p,            \* position in `fichero`
  path_read,    \* last path read by fscanf
  key_pos,      \* delete: where it found the entry
  contents,     \* list_content: the entries read so far
  n_files       \* list_content_get_num: how many it has counted

locales == <<arg, p, path_read, key_pos, contents, n_files>>
vars == <<fichero, temp_copy, catalogo, pc, locales>>

Blanco(c) == c \in Blancos

Init ==
  /\ fichero = <<>>
  /\ temp_copy = NoFile
  /\ catalogo = <<>>
  /\ pc = "libre"
  /\ arg = <<<<>>, <<>>>>
  /\ p = 1 /\ key_pos = 1
  /\ path_read = <<>>
  /\ contents = <<>> /\ n_files = 0

-------------------------------------------------------------------------------
(* stdio on `fichero`. *)

Final == Len(fichero) + 1

\* First position from q on that is at the end of the file or satisfies Es.
Hasta(q, Es(_)) ==
  Min({i \in q .. Final : i = Final \/ Es(fichero[i])})

NoBlanco(c) == ~Blanco(c)
Salto(c) == c = NL

\* fscanf(user_file, "%s ", path): skip blanks, read a word, skip blanks again.
Palabra(q) == Hasta(q, NoBlanco)
fscanf(q) ==
  LET fin == Hasta(Palabra(q), Blanco)
  IN  [eof |-> Palabra(q) = Final,
       path |-> IF Palabra(q) = Final THEN path_read
                ELSE SubSeq(fichero, Palabra(q), fin - 1),
       pos |-> Hasta(fin, NoBlanco)]

\* while (c != '\n') c = fgetc(user_file).  With no line break ahead fgetc
\* returns EOF for ever.
HaySalto(q) == Hasta(q, Salto) # Final
TrasSalto(q) == Hasta(q, Salto) + 1

Va(de, a) == pc = de /\ pc' = a

\* return: the locals are gone.
Vuelve ==
  /\ pc' = "libre"
  /\ arg' = <<<<>>, <<>>>>
  /\ p' = 1 /\ key_pos' = 1
  /\ path_read' = <<>>
  /\ contents' = <<>> /\ n_files' = 0

-------------------------------------------------------------------------------
(* publish and delete: the search. *)

\* path_read is not initialised: it may hold the very path, by chance or from an
\* earlier call.  It matters when the file is empty and fscanf writes nothing.
Sobras(f) == {<<>>, f}

Publish(f, d) ==
  /\ Va("libre", "busca publish")
  /\ Len(catalogo) < MAX_ENTRADAS
  /\ arg' = <<f, d>>
  /\ p' = 1
  /\ path_read' \in Sobras(f)
  /\ UNCHANGED <<fichero, temp_copy, catalogo, key_pos, contents, n_files>>

Delete(f) ==
  /\ Va("libre", "busca delete")
  /\ arg' = <<f, <<>>>>
  /\ p' = 1
  /\ path_read' \in Sobras(f)
  /\ UNCHANGED <<fichero, temp_copy, catalogo, key_pos, contents, n_files>>

Buscando == pc \in {"busca publish", "busca delete"}

\* Another path: on to the next line.
SigueBuscando ==
  LET r == fscanf(p)
  IN  /\ Buscando
      /\ ~r.eof /\ r.path # arg[1] /\ HaySalto(r.pos)
      /\ p' = TrasSalto(r.pos)
      /\ path_read' = r.path
      /\ UNCHANGED <<fichero, temp_copy, catalogo, pc, arg, key_pos, contents,
                     n_files>>

\* The path is there: publish returns 3, delete goes back to the entry.  (On an
\* empty file, where it seems to be, fseek fails.)
Encuentra ==
  LET r == fscanf(p)
  IN  /\ Buscando
      /\ r.path = arg[1]
      /\ IF pc = "busca publish"
         THEN Vuelve
         ELSE /\ pc' = "encontrado"
              /\ path_read' = r.path
              /\ p' = IF r.pos > Len(r.path) THEN r.pos - Len(r.path) ELSE r.pos
              /\ key_pos' = p'
              /\ UNCHANGED <<arg, contents, n_files>>
      /\ UNCHANGED <<fichero, temp_copy, catalogo>>

\* Mutant of NoEncuentra: the line break is not written.
NoEncuentraSinSalto ==
  LET r == fscanf(p)
  IN  /\ Buscando
      /\ r.eof /\ r.path # arg[1]
      /\ Vuelve
      /\ IF pc = "busca publish"
         THEN /\ fichero' = fichero \o arg[1] \o <<SP>> \o arg[2]
              /\ catalogo' = Append(catalogo, arg)
         ELSE UNCHANGED <<fichero, catalogo>>
      /\ UNCHANGED temp_copy

\* It is not: publish writes the line, which fclose takes to the file; delete
\* returns 3.
NoEncuentra ==
  LET r == fscanf(p)
  IN  /\ Buscando
      /\ r.eof /\ r.path # arg[1]
      /\ Vuelve
      /\ IF pc = "busca publish"
         THEN /\ fichero' = fichero \o arg[1] \o <<SP>> \o arg[2] \o <<NL>>
              /\ catalogo' = Append(catalogo, arg)
         ELSE UNCHANGED <<fichero, catalogo>>
      /\ UNCHANGED temp_copy

-------------------------------------------------------------------------------
(* delete: the removal. *)

\* Over the entry, to the beginning of the next one.
SaltaEntrada ==
  LET r == fscanf(p)
  IN  /\ Va("encontrado", "siguiente")
      /\ HaySalto(r.pos)
      /\ p' = TrasSalto(r.pos)
      /\ path_read' = r.path
      /\ UNCHANGED <<fichero, temp_copy, catalogo, arg, key_pos, contents,
                     n_files>>

\* Is there a next entry?  Then fopen("temp_copy", "w+").
AbreTemp ==
  LET r == fscanf(p)
  IN  /\ pc = "siguiente"
      /\ IF r.eof
         THEN pc' = "trunca" /\ UNCHANGED <<temp_copy, p, path_read>>
         ELSE /\ pc' = "copia"
              /\ temp_copy' = <<>>
              /\ p' = r.pos
              /\ path_read' = r.path
      /\ UNCHANGED <<fichero, catalogo, arg, key_pos, contents, n_files>>

\* Mutant of CopiaResto: the path already read is not written back.
CopiaRestoSinRuta ==
  /\ Va("copia", "trunca")
  /\ temp_copy' = SubSeq(fichero, p, Len(fichero))
  /\ UNCHANGED <<fichero, catalogo, locales>>

\* The path read and the rest of the file; fflush.
CopiaResto ==
  /\ Va("copia", "trunca")
  /\ temp_copy' = path_read \o <<SP>> \o SubSeq(fichero, p, Len(fichero))
  /\ UNCHANGED <<fichero, catalogo, locales>>

\* Mutant of Trunca: ftruncate at key_pos.
TruncaUnoMas ==
  /\ Va("trunca", "junta")
  /\ fichero' = SubSeq(fichero, 1, key_pos - 1)
  /\ UNCHANGED <<temp_copy, catalogo, locales>>

\* fseek(key_pos - 1) and ftruncate there.
Trunca ==
  /\ Va("trunca", "junta")
  /\ fichero' = SubSeq(fichero, 1, key_pos - 2)
  /\ UNCHANGED <<temp_copy, catalogo, locales>>

\* temp_copy at the end of the file; fflush.
Junta ==
  /\ Va("junta", "limpia")
  /\ IF temp_copy = NoFile THEN UNCHANGED fichero
     ELSE fichero' = fichero \o temp_copy
  /\ UNCHANGED <<temp_copy, catalogo, locales>>

\* Index in `catalogo` of the entry being deleted.
Borrada == CHOOSE i \in DOMAIN catalogo : catalogo[i][1] = arg[1]

\* unlink("temp_copy") and return 0.
Limpia ==
  /\ pc = "limpia"
  /\ Vuelve
  /\ temp_copy' = NoFile
  /\ catalogo' = IF \E i \in DOMAIN catalogo : catalogo[i][1] = arg[1]
                 THEN RemoveAt(catalogo, Borrada) ELSE catalogo
  /\ UNCHANGED fichero

-------------------------------------------------------------------------------
(* list_content_get_num and list_content. *)

ListContent ==
  /\ Va("libre", "lista")
  /\ n_files' = Cardinality({i \in DOMAIN fichero : fichero[i] = NL})
  /\ p' = 1
  /\ path_read' = <<>>
  /\ contents' = <<>>
  /\ UNCHANGED <<fichero, temp_copy, catalogo, arg, key_pos>>

\* Mutant of LeeEntrada: find_line_break is not reset, so from the second entry
\* on no description is read.
LeeEntradaSinReset ==
  LET r == fscanf(p)
      q == IF contents = <<>> THEN TrasSalto(r.pos) ELSE r.pos
  IN  /\ pc = "lista"
      /\ ~r.eof /\ (contents = <<>> => HaySalto(r.pos))
      /\ contents' = Append(contents, <<r.path, SubSeq(fichero, r.pos, q - 1)>>)
      /\ p' = q
      /\ path_read' = r.path
      /\ UNCHANGED <<fichero, temp_copy, catalogo, pc, arg, key_pos, n_files>>

\* The description keeps its line break.
LeeEntrada ==
  LET r == fscanf(p)
  IN  /\ pc = "lista"
      /\ ~r.eof /\ HaySalto(r.pos)
      /\ contents' = Append(contents, <<r.path, SubSeq(fichero, r.pos,
                                                       TrasSalto(r.pos) - 1)>>)
      /\ p' = TrasSalto(r.pos)
      /\ path_read' = r.path
      /\ UNCHANGED <<fichero, temp_copy, catalogo, pc, arg, key_pos, n_files>>

FinLista ==
  /\ Va("lista", "listado")
  /\ fscanf(p).eof
  /\ UNCHANGED <<fichero, temp_copy, catalogo, locales>>

\* tratar_peticion sends the listing and the request ends.
EnviaLista ==
  /\ pc = "listado"
  /\ Vuelve
  /\ UNCHANGED <<fichero, temp_copy, catalogo>>

\* Where the code reads up to the end of the line, after fscanf gave r.
EsperaSalto(r) ==
  \/ pc = "encontrado"
  \/ pc = "lista" /\ ~r.eof
  \/ Buscando /\ ~r.eof /\ r.path # arg[1]

\* There is none: fgetc returns EOF for ever.
Gira ==
  LET r == fscanf(p)
  IN  EsperaSalto(r) /\ ~HaySalto(r.pos) /\ UNCHANGED vars

Empieza ==
  \/ \E f \in Rutas : Delete(f) \/ \E d \in Descripciones : Publish(f, d)
  \/ ListContent

Paso ==
  \/ SigueBuscando \/ Encuentra \/ NoEncuentra
  \/ SaltaEntrada \/ AbreTemp \/ CopiaResto \/ Trunca \/ Junta \/ Limpia
  \/ LeeEntrada \/ FinLista \/ EnviaLista \/ Gira

Next == Empieza \/ Paso

Spec == Init /\ [][Next]_vars

\* The thread runs.
SpecJusta == Spec /\ WF_vars(Paso)

-------------------------------------------------------------------------------
(* Properties. *)

Linea(e) == e[1] \o <<SP>> \o e[2] \o <<NL>>
Lineas(cat) == FlattenSeq([i \in DOMAIN cat |-> Linea(cat[i])])

\* The lines before and after the one being deleted.
Antes == Lineas(SubSeq(catalogo, 1, Borrada - 1))
Despues == Lineas(SubSeq(catalogo, Borrada + 1, Len(catalogo)))

\* delete looks for the end of an entry of an empty file.
Colgado == pc = "encontrado" /\ catalogo = <<>>

Borrando == pc \in {"encontrado", "siguiente", "copia", "trunca", "junta",
                    "limpia"} /\ ~Colgado

\* Between operations the file holds the lines of the published entries, in
\* order and nothing else, and no temp_copy is left behind.
FicheroFiel ==
  ~Borrando => fichero = Lineas(catalogo) /\ temp_copy = NoFile

\* If the process dies in the middle of a delete no other entry is lost: the
\* ones before are in the file, the ones after in the file or in temp_copy.
NadaSePierde ==
  Borrando =>
    /\ IsPrefix(Antes, fichero)
    /\ IsSuffix(Despues, fichero) \/ temp_copy = Despues

\* list_content gives every entry, and as many as list_content_get_num counted
\* when the array for them was allocated.
ListadoFiel ==
  pc = "listado" =>
    /\ contents = [i \in DOMAIN catalogo |->
                     <<catalogo[i][1], Append(catalogo[i][2], NL)>>]
    /\ n_files = Len(contents)

\* No operation hangs in a loop of fgetc, with the server's lock held, except
\* that one: each one returns.
TodaOperacionTermina == (pc # "libre") ~> (pc = "libre" \/ Colgado)

\* The comment of the search (299): "leemos hasta encontrar un line break solo si
\* no hemos terminado".  When the loop of fgetc starts there is one to find.
SiempreHaySalto ==
  LET r == fscanf(p)
  IN  (Buscando /\ EsperaSalto(r)) => HaySalto(r.pos)

\* The comment of delete (395): "Ahora estamos al principio de la siguiente
\* entrada después de la que hay que borrar".
AlPrincipioDeLaSiguiente ==
  pc = "siguiente" => p = Len(Antes) + Len(Linea(catalogo[Borrada])) + 1
===============================================================================
