---------------------------- MODULE UserFileProofs ----------------------------
(***************************************************************************)
(* publish, delete and list_content on the bytes of a user's file, for any *)
(* number of entries and any legible paths and descriptions (Legibles of   *)
(* UserFileLineas): the file always holds what has been published and not  *)
(* deleted, nothing is lost inside a delete, and a listing is complete.    *)
(* The hypothesis is needed: with a path of one letter or an empty         *)
(* description the runs of UserFile show what goes wrong.                  *)
(***************************************************************************)
EXTENDS UserFileLineas

\* No path is published twice.
RutasUnicas ==
  \A i, j \in 1 .. Len(catalogo) : catalogo[i][1] = catalogo[j][1] => i = j

TipoInv ==
  /\ pc \in {"libre", "busca publish", "busca delete", "encontrado", "siguiente",
             "copia", "trunca", "junta", "limpia", "lista", "listado"}
  /\ catalogo \in Seq(Entradas)
  /\ RutasUnicas

Entero == fichero = Lineas(catalogo)

\* The position of the beginning of line i + 1.
Tras(i) == Len(Prefijo(catalogo, i)) + 1

\* The search is at the beginning of a line and has passed no entry with the path
\* it looks for.
HaBuscado(i) ==
  /\ p = Tras(i)
  /\ \A j \in 1 .. i : catalogo[j][1] # arg[1]
  /\ i > 0 => path_read = catalogo[i][1]

BuscaInv ==
  /\ arg[1] \in Rutas
  /\ pc = "busca publish" => arg \in Entradas
  /\ \E i \in 0 .. Len(catalogo) : HaBuscado(i)

\* The entry being deleted is the i-th one, and key_pos is one byte into it.
EsBorrada(i) == i \in 1 .. Len(catalogo) /\ catalogo[i][1] = arg[1]
Localizada(i) == EsBorrada(i) /\ key_pos = Tras(i - 1) + 1

\* What temp_copy holds when delete cuts the file.
Guardado(i) ==
  temp_copy = IF i = Len(catalogo) THEN NoFile ELSE Resto(catalogo, i)

\* On the empty file delete stays at the first byte.
EncontradoInv ==
  IF catalogo = <<>> THEN p = 1
  ELSE /\ Entero /\ temp_copy = NoFile
       /\ \E i \in 1 .. Len(catalogo) : Localizada(i) /\ p = Tras(i - 1) + 1

SiguienteInv ==
  /\ Entero /\ temp_copy = NoFile
  /\ \E i \in 1 .. Len(catalogo) : Localizada(i) /\ p = Tras(i)

CopiaInv ==
  /\ Entero
  /\ \E i \in 1 .. Len(catalogo) - 1 :
       /\ Localizada(i)
       /\ path_read = catalogo[i + 1][1]
       /\ p = Len(Prefijo(catalogo, i)) + Len(path_read) + 2

TruncaInv ==
  /\ Entero
  /\ \E i \in 1 .. Len(catalogo) : Localizada(i) /\ Guardado(i)

JuntaInv ==
  \E i \in 1 .. Len(catalogo) :
    EsBorrada(i) /\ Guardado(i) /\ fichero = Prefijo(catalogo, i - 1)

LimpiaInv ==
  \E i \in 1 .. Len(catalogo) :
    /\ EsBorrada(i) /\ Guardado(i)
    /\ fichero = Prefijo(catalogo, i - 1) \o Resto(catalogo, i)

\* What list_content gives of the first i entries.
Listadas(i) ==
  [j \in 1 .. i |-> <<catalogo[j][1], Append(catalogo[j][2], NL)>>]

ListaInv ==
  /\ n_files = Len(catalogo)
  /\ \E i \in 0 .. Len(catalogo) : p = Tras(i) /\ contents = Listadas(i)

ListadoInv == n_files = Len(catalogo) /\ contents = Listadas(Len(catalogo))

\* The inductive invariant: what each step of an operation knows.
FileInv ==
  /\ TipoInv
  /\ FicheroFiel
  /\ Buscando => BuscaInv
  /\ pc = "encontrado" => EncontradoInv
  /\ pc = "siguiente" => SiguienteInv
  /\ pc = "copia" => CopiaInv
  /\ pc = "trunca" => TruncaInv
  /\ pc = "junta" => JuntaInv
  /\ pc = "limpia" => LimpiaInv
  /\ pc = "lista" => ListaInv
  /\ pc = "listado" => ListadoInv

-------------------------------------------------------------------------------

LEMMA InitFile == Init => FileInv
  <1> SUFFICES ASSUME Init PROVE FileInv
    OBVIOUS
  <1>1. TipoInv
    BY DEF Init, TipoInv, RutasUnicas
  <1>2. FicheroFiel
    BY LineasVacia DEF Init, FicheroFiel
  <1> QED BY <1>1, <1>2 DEF Init, FileInv, Buscando

\* While no entry is being deleted the file is whole.
LEMMA FicheroEntero ==
  ASSUME FileInv, ~Borrando
  PROVE  Entero /\ temp_copy = NoFile /\ catalogo \in Seq(Entradas)
  BY DEF FileInv, FicheroFiel, Entero, TipoInv

LEMMA TipoSigue ==
  ASSUME TipoInv, catalogo' = catalogo,
         pc' \in {"libre", "busca publish", "busca delete", "encontrado", "siguiente",
                  "copia", "trunca", "junta", "limpia", "lista", "listado"}
  PROVE  TipoInv'
  BY DEF TipoInv, RutasUnicas

\* A request that returns.
LEMMA Vuelto ==
  ASSUME TipoInv', pc' = "libre", fichero' = Lineas(catalogo'), temp_copy' = NoFile
  PROVE  FileInv'
  <1>1. FicheroFiel'
    BY DEF FicheroFiel
  <1> QED BY <1>1 DEF FileInv, Buscando

LEMMA TrasCero ==
  ASSUME catalogo \in Seq(Entradas)
  PROVE  Tras(0) = 1
  <1>1. Len(Prefijo(catalogo, 0)) = 0
    BY PrefijoCero
  <1> QED BY <1>1 DEF Tras

-------------------------------------------------------------------------------
(* The search. *)

LEMMA EmpiezaBusca ==
  ASSUME FileInv, NEW f \in Rutas,
         Delete(f) \/ \E d \in Descripciones : Publish(f, d)
  PROVE  FileInv'
  <1>1. /\ pc = "libre" /\ pc' \in {"busca publish", "busca delete"}
        /\ fichero' = fichero /\ temp_copy' = temp_copy /\ catalogo' = catalogo
        /\ p' = 1 /\ arg'[1] = f
        /\ (pc' = "busca publish" => arg' \in Entradas)
    <2>1. CASE Delete(f)
      <3>1. arg' = <<f, <<>>>> /\ pc' = "busca delete"
        BY <2>1 DEF Delete, Va
      <3>2. arg'[1] = f
        BY <3>1
      <3> QED BY <2>1, <3>1, <3>2 DEF Delete, Va
    <2>2. CASE \E d \in Descripciones : Publish(f, d)
      <3>1. PICK d \in Descripciones : Publish(f, d)
        BY <2>2
      <3>2. arg' = <<f, d>> /\ pc' = "busca publish"
        BY <3>1 DEF Publish, Va
      <3>3. <<f, d>> \in Entradas /\ arg'[1] = f
        BY <3>2 DEF Entradas
      <3> QED BY <3>1, <3>2, <3>3 DEF Publish, Va
    <2> QED BY <2>1, <2>2
  <1>2. Entero /\ temp_copy = NoFile /\ catalogo \in Seq(Entradas)
    BY <1>1, FicheroEntero DEF Borrando
  <1>3. TipoInv'
    BY <1>1, TipoSigue DEF FileInv
  <1>4. FicheroFiel'
    BY <1>1, <1>2 DEF FicheroFiel, Entero
  <1>5. BuscaInv'
    <2>1. p' = Tras(0)'
      BY <1>1, <1>2, TrasCero DEF Tras
    <2>2. HaBuscado(0)'
      BY <2>1 DEF HaBuscado
    <2>3. 0 \in 0 .. Len(catalogo)
      BY <1>2
    <2>4. 0 \in 0 .. Len(catalogo')
      BY <1>1, <2>3
    <2> QED BY <1>1, <2>2, <2>4 DEF BuscaInv
  <1> QED BY <1>1, <1>3, <1>4, <1>5 DEF FileInv

\* What fscanf does at the beginning of line i + 1: it reads the path of its entry
\* or, after the last one, it finds the end of the file.
Lectura(i) ==
  \/ /\ i < Len(catalogo)
     /\ LeeBien(i + 1, 0, p)
  \/ /\ i = Len(catalogo)
     /\ fscanf(p).eof /\ fscanf(p).path = path_read

LEMMA LeeTras ==
  ASSUME Legibles, catalogo \in Seq(Entradas), Entero,
         NEW i \in 0 .. Len(catalogo), p = Tras(i)
  PROVE  Lectura(i)
  <1>1. CASE i < Len(catalogo)
    <2>1. PICK j \in 1 .. Len(catalogo) : j = i + 1
      BY <1>1
    <2>2. catalogo[j] \in Entradas
      OBVIOUS
    <2>3. 0 \in 0 .. Len(catalogo[j][1]) - 1
      BY <2>2, EntradaLegible
    <2>4. p = Len(Prefijo(catalogo, j - 1)) + 1 + 0
      <3>1. j - 1 = i /\ Len(Prefijo(catalogo, i)) \in Nat
        BY <2>1, PrefijoTipo
      <3> QED BY <3>1 DEF Tras
    <2>5. LeeBien(j, 0, p)
      BY <2>3, <2>4, LeeLinea DEF Entero
    <2> QED BY <1>1, <2>1, <2>5 DEF Lectura
  <1>2. CASE i = Len(catalogo)
    BY <1>2, FinDeLineas DEF Lectura, Entero, Tras
  <1> QED BY <1>1, <1>2

\* What a step of the search knows.
LEMMA Buscar ==
  ASSUME Legibles, FileInv, Buscando
  PROVE  /\ Entero /\ temp_copy = NoFile /\ catalogo \in Seq(Entradas)
         /\ arg[1] \in Rutas /\ (pc = "busca publish" => arg \in Entradas)
         /\ \E i \in 0 .. Len(catalogo) : HaBuscado(i) /\ Lectura(i)
  <1>1. Entero /\ temp_copy = NoFile /\ catalogo \in Seq(Entradas)
    BY FicheroEntero DEF Borrando, Buscando
  <1>2. BuscaInv
    BY DEF FileInv
  <1>3. PICK i \in 0 .. Len(catalogo) : HaBuscado(i)
    BY <1>2 DEF BuscaInv
  <1>4. Lectura(i)
    BY <1>1, <1>3, LeeTras DEF HaBuscado
  <1> QED BY <1>1, <1>2, <1>3, <1>4 DEF BuscaInv

LEMMA SigueBuscandoInv ==
  ASSUME Legibles, FileInv, SigueBuscando
  PROVE  FileInv'
  <1>1. /\ Buscando /\ ~fscanf(p).eof /\ fscanf(p).path # arg[1]
        /\ p' = TrasSalto(fscanf(p).pos) /\ path_read' = fscanf(p).path
        /\ fichero' = fichero /\ temp_copy' = temp_copy /\ catalogo' = catalogo
        /\ pc' = pc /\ arg' = arg
    BY DEF SigueBuscando
  <1>2. /\ Entero /\ temp_copy = NoFile /\ catalogo \in Seq(Entradas)
        /\ arg[1] \in Rutas /\ (pc = "busca publish" => arg \in Entradas)
    BY <1>1, Buscar
  <1>3. PICK i \in 0 .. Len(catalogo) : HaBuscado(i) /\ Lectura(i)
    BY <1>1, Buscar
  <1>4. i < Len(catalogo) /\ LeeBien(i + 1, 0, p)
    BY <1>1, <1>3 DEF Lectura
  <1>5. PICK k \in 1 .. Len(catalogo) : k = i + 1
    BY <1>4
  <1>6. /\ fscanf(p).path = catalogo[k][1]
        /\ TrasSalto(fscanf(p).pos) = Tras(k)
    BY <1>4, <1>5 DEF LeeBien, Tras
  <1>7. HaBuscado(k)'
    <2>1. p' = Tras(k)'
      BY <1>1, <1>6 DEF Tras
    <2>2. \A j \in 1 .. k : catalogo'[j][1] # arg'[1]
      <3> TAKE j \in 1 .. k
      <3>1. j \in 1 .. i \/ j = k
        BY <1>5
      <3> QED BY <1>1, <1>3, <1>6, <3>1 DEF HaBuscado
    <2>3. path_read' = catalogo'[k][1]
      BY <1>1, <1>6
    <2> QED BY <2>1, <2>2, <2>3 DEF HaBuscado
  <1>8. k \in 0 .. Len(catalogo)
    OBVIOUS
  <1>9. BuscaInv'
    <2>1. arg'[1] \in Rutas /\ (pc' = "busca publish" => arg' \in Entradas)
      BY <1>1, <1>2
    <2>2. k \in 0 .. Len(catalogo')
      BY <1>1, <1>8
    <2> QED BY <1>7, <2>1, <2>2 DEF BuscaInv
  <1>10. TipoInv'
    BY <1>1, TipoSigue DEF FileInv, Buscando
  <1>11. FicheroFiel'
    BY <1>1, <1>2 DEF FicheroFiel, Entero
  <1> QED BY <1>1, <1>9, <1>10, <1>11 DEF FileInv, Buscando

LEMMA EncuentraInv ==
  ASSUME Legibles, FileInv, Encuentra
  PROVE  FileInv'
  <1>1. /\ Buscando /\ fscanf(p).path = arg[1]
        /\ fichero' = fichero /\ temp_copy' = temp_copy /\ catalogo' = catalogo
    BY DEF Encuentra
  <1>2. /\ Entero /\ temp_copy = NoFile /\ catalogo \in Seq(Entradas)
        /\ arg[1] \in Rutas /\ (pc = "busca publish" => arg \in Entradas)
    BY <1>1, Buscar
  <1>3. CASE pc = "busca publish"
    <2>1. pc' = "libre"
      BY <1>3 DEF Encuentra, Vuelve
    <2>2. TipoInv'
      BY <1>1, <2>1, TipoSigue DEF FileInv
    <2>3. fichero' = Lineas(catalogo') /\ temp_copy' = NoFile
      BY <1>1, <1>2 DEF Entero
    <2> QED BY <2>1, <2>2, <2>3, Vuelto
  <1>4. CASE pc # "busca publish"
    <2>1. /\ pc' = "encontrado" /\ arg' = arg /\ key_pos' = p'
          /\ p' = IF fscanf(p).pos > Len(fscanf(p).path)
                  THEN fscanf(p).pos - Len(fscanf(p).path) ELSE fscanf(p).pos
      BY <1>4 DEF Encuentra
    <2>2. PICK i \in 0 .. Len(catalogo) : HaBuscado(i) /\ Lectura(i)
      BY <1>1, Buscar
    <2>3. TipoInv'
      BY <1>1, <2>1, TipoSigue DEF FileInv
    <2>4. FicheroFiel'
      BY <1>1, <1>2 DEF FicheroFiel, Entero
    <2>5. CASE i < Len(catalogo)
      <3>1. PICK k \in 1 .. Len(catalogo) : k = i + 1 /\ k - 1 = i
        BY <2>5
      <3>2. catalogo[k] \in Entradas
        BY <1>2, PrefijoMas
      <3>3. PICK a \in Nat, L \in Nat :
              a = Len(catalogo[k][1]) /\ L = Len(Prefijo(catalogo, i))
        <4>1. Len(catalogo[k][1]) \in Nat
          BY <3>2, EntradaForma
        <4>2. Len(Prefijo(catalogo, i)) \in Nat
          BY <1>2, PrefijoTipo
        <4> QED BY <4>1, <4>2
      <3>4. LeeBien(k, 0, p)
        BY <2>2, <2>5, <3>1 DEF Lectura
      <3>5. fscanf(p).path = catalogo[k][1] /\ fscanf(p).pos = L + a + 2
        BY <3>1, <3>3, <3>4 DEF LeeBien
      <3>6. p' = L + 2
        <4>1. L + a + 2 > a /\ (L + a + 2) - a = L + 2
          OBVIOUS
        <4> QED BY <2>1, <3>3, <3>5, <4>1
      <3>7. Tras(k - 1)' = L + 1
        BY <1>1, <3>1, <3>3 DEF Tras
      <3>8. /\ Localizada(k)' /\ p' = Tras(k - 1)' + 1
        <4>1. L + 1 + 1 = L + 2
          OBVIOUS
        <4>2. p' = Tras(k - 1)' + 1
          BY <3>6, <3>7, <4>1
        <4>3. catalogo'[k][1] = arg'[1] /\ k \in 1 .. Len(catalogo')
          BY <1>1, <2>1, <3>5
        <4> QED BY <2>1, <4>2, <4>3 DEF Localizada, EsBorrada
      <3>9. EncontradoInv'
        <4>1. catalogo' # <<>> /\ k \in 1 .. Len(catalogo')
          <5>1. catalogo # <<>>
            OBVIOUS
          <5> QED BY <1>1, <5>1
        <4>2. Entero' /\ temp_copy' = NoFile
          BY <1>1, <1>2 DEF Entero
        <4> QED BY <3>8, <4>1, <4>2 DEF EncontradoInv
      <3> QED BY <2>1, <2>3, <2>4, <3>9 DEF FileInv, Buscando
    <2>6. CASE i = Len(catalogo)
      <3>1. i = 0
        BY <1>1, <2>2, <2>6 DEF HaBuscado, Lectura
      <3>2. catalogo = <<>> /\ catalogo' = <<>>
        <4>1. Len(catalogo) = 0
          BY <2>6, <3>1
        <4>2. catalogo = <<>>
          <5>1. catalogo \in Seq(Entradas)
            BY <1>2
          <5> QED BY <4>1, <5>1
        <4> QED BY <1>1, <4>2
      <3>3. fichero = <<>> /\ Final = 1 /\ p = 1
        <4>1. p = 1
          BY <1>2, <2>2, <3>1, TrasCero DEF HaBuscado
        <4>2. fichero = <<>>
          BY <1>2, <3>2, LineasVacia DEF Entero
        <4> QED BY <4>1, <4>2 DEF Final
      <3>4. fscanf(p).pos = 1
        <4>1. <<>> \in Seq(Bytes)
          OBVIOUS
        <4> QED BY <3>3, <4>1, AlFinal
      <3>5. Len(fscanf(p).path) > 1
        BY <1>1, <1>2 DEF Legibles
      <3>6. p' = 1
        BY <2>1, <3>4, <3>5
      <3>7. EncontradoInv'
        BY <3>2, <3>6 DEF EncontradoInv
      <3> QED BY <2>1, <2>3, <2>4, <3>7 DEF FileInv, Buscando
    <2> QED BY <2>2, <2>5, <2>6 DEF Lectura
  <1> QED BY <1>3, <1>4

\* The line that publish writes.
LEMMA LineaEscrita ==
  ASSUME NEW e \in Entradas, NEW F \in Seq(Bytes)
  PROVE  F \o e[1] \o <<SP>> \o e[2] \o <<NL>> = F \o Linea(e)
  <1>1. PICK f \in Seq(Bytes), g \in Seq(Bytes) : f = e[1] /\ g = e[2]
    BY EntradaForma
  <1>2. <<SP>> \in Seq(Bytes) /\ <<NL>> \in Seq(Bytes)
    BY DEF Bytes, Blancos
  <1>3. PICK s \in Seq(Bytes), n \in Seq(Bytes) : s = <<SP>> /\ n = <<NL>>
    BY <1>2
  <1>4. PICK a \in Seq(Bytes) : a = f \o s
    BY Pegadas
  <1>5. PICK b \in Seq(Bytes) : b = a \o g
    BY Pegadas
  <1>6. (F \o f) \o s = F \o a
    <2>1. Asoc(F, f, s)
      BY Asociada
    <2> QED BY <1>4, <2>1, Zenon DEF Asoc
  <1>7. (F \o a) \o g = F \o b
    <2>1. Asoc(F, a, g)
      BY Asociada
    <2> QED BY <1>5, <2>1, Zenon DEF Asoc
  <1>8. (F \o b) \o n = F \o (b \o n)
    <2>1. Asoc(F, b, n)
      BY Asociada
    <2> QED BY <2>1, Zenon DEF Asoc
  <1>9. Linea(e) = b \o n
    BY <1>1, <1>3, <1>4, <1>5 DEF Linea
  <1>10. F \o e[1] \o <<SP>> \o e[2] \o <<NL>> = (((F \o f) \o s) \o g) \o n
    BY <1>1, <1>3
  <1> QED BY <1>6, <1>7, <1>8, <1>9, <1>10

LEMMA NoEncuentraInv ==
  ASSUME Legibles, FileInv, NoEncuentra
  PROVE  FileInv'
  <1>1. /\ Buscando /\ fscanf(p).eof /\ fscanf(p).path # arg[1]
        /\ pc' = "libre" /\ temp_copy' = temp_copy
    BY DEF NoEncuentra, Vuelve
  <1>2. /\ Entero /\ temp_copy = NoFile /\ catalogo \in Seq(Entradas)
        /\ arg[1] \in Rutas /\ (pc = "busca publish" => arg \in Entradas)
    BY <1>1, Buscar
  <1>3. CASE pc = "busca publish"
    <2>1. /\ fichero' = fichero \o arg[1] \o <<SP>> \o arg[2] \o <<NL>>
          /\ catalogo' = Append(catalogo, arg)
      BY <1>3 DEF NoEncuentra
    <2>2. PICK e \in Entradas : e = arg
      BY <1>2, <1>3
    <2>3. fichero' = Lineas(catalogo')
      <3>1. fichero \in Seq(Bytes)
        BY <1>2, LineasTipo DEF Entero
      <3>2. fichero' = fichero \o Linea(e)
        BY <2>1, <2>2, <3>1, LineaEscrita
      <3>3. Lineas(catalogo') = Lineas(catalogo) \o Linea(e)
        BY <1>2, <2>1, <2>2, LineasAppend
      <3> QED BY <1>2, <3>2, <3>3 DEF Entero
    <2>4. \A j \in 1 .. Len(catalogo) : catalogo[j][1] # e[1]
      <3>1. PICK i \in 0 .. Len(catalogo) : HaBuscado(i) /\ Lectura(i)
        BY <1>1, Buscar
      <3>2. i = Len(catalogo)
        <4>1. ~LeeBien(i + 1, 0, p)
          BY <1>1 DEF LeeBien
        <4> QED BY <3>1, <4>1 DEF Lectura
      <3> QED BY <2>2, <3>1, <3>2 DEF HaBuscado
    <2>5. TipoInv'
      <3>1. PICK n \in Nat : n = Len(catalogo)
        BY <1>2, LenProperties
      <3>2. PICK c \in Seq(Entradas) : c = catalogo
        BY <1>2
      <3>3. /\ Append(c, e) \in Seq(Entradas) /\ Len(Append(c, e)) = n + 1
            /\ \A j \in 1 .. n : Append(c, e)[j] = c[j]
            /\ Append(c, e)[n + 1] = e
        BY <3>1, <3>2, AppendProperties
      <3>4. catalogo' = Append(c, e)
        BY <2>1, <2>2, <3>2
      <3>5. \A i, j \in 1 .. n : c[i][1] = c[j][1] => i = j
        BY <3>1, <3>2 DEF FileInv, TipoInv, RutasUnicas
      <3>6. \A j \in 1 .. n : c[j][1] # e[1]
        BY <2>4, <3>1, <3>2
      <3>7. ASSUME NEW i \in 1 .. n + 1, NEW j \in 1 .. n + 1,
                   Append(c, e)[i][1] = Append(c, e)[j][1]
            PROVE  i = j
        <4>1. CASE i \in 1 .. n /\ j \in 1 .. n
          BY <3>3, <3>5, <3>7, <4>1
        <4>2. CASE i = n + 1 /\ j \in 1 .. n
          BY <3>3, <3>6, <3>7, <4>2
        <4>3. CASE i \in 1 .. n /\ j = n + 1
          BY <3>3, <3>6, <3>7, <4>3
        <4>4. CASE i = n + 1 /\ j = n + 1
          BY <4>4
        <4> QED BY <4>1, <4>2, <4>3, <4>4
      <3>8. RutasUnicas'
        BY <3>3, <3>4, <3>7 DEF RutasUnicas
      <3> QED BY <1>1, <3>3, <3>4, <3>8 DEF TipoInv
    <2>6. temp_copy' = NoFile
      BY <1>1, <1>2
    <2> QED BY <1>1, <2>3, <2>5, <2>6, Vuelto
  <1>4. CASE pc # "busca publish"
    <2>1. fichero' = fichero /\ catalogo' = catalogo
      BY <1>4 DEF NoEncuentra
    <2>2. TipoInv'
      BY <1>1, <2>1, TipoSigue DEF FileInv
    <2>3. fichero' = Lineas(catalogo') /\ temp_copy' = NoFile
      BY <1>1, <1>2, <2>1 DEF Entero
    <2> QED BY <1>1, <2>2, <2>3, Vuelto
  <1> QED BY <1>3, <1>4

-------------------------------------------------------------------------------
(* The removal. *)

\* The loop of fgetc ends, so the file is not the empty one.
LEMMA SaltaEntradaInv ==
  ASSUME Legibles, FileInv, SaltaEntrada
  PROVE  FileInv'
  <1>1. /\ pc = "encontrado" /\ pc' = "siguiente"
        /\ HaySalto(fscanf(p).pos) /\ p' = TrasSalto(fscanf(p).pos)
        /\ fichero' = fichero /\ temp_copy' = temp_copy /\ catalogo' = catalogo
        /\ arg' = arg /\ key_pos' = key_pos
    BY DEF SaltaEntrada, Va
  <1>2. EncontradoInv /\ FicheroFiel /\ catalogo \in Seq(Entradas)
    BY <1>1 DEF FileInv, TipoInv
  <1>3. catalogo # <<>>
    <2> SUFFICES ASSUME catalogo = <<>> PROVE FALSE
      OBVIOUS
    <2>1. p = 1
      BY <1>2 DEF EncontradoInv
    <2>2. fichero = <<>>
      BY <1>1, <1>2, LineasVacia DEF FicheroFiel, Borrando, Colgado
    <2>3. Final = 1
      BY <2>2 DEF Final
    <2>4. fichero \in Seq(Bytes)
      BY <2>2
    <2> QED BY <1>1, <2>1, <2>3, <2>4, AlFinal
  <1>4. PICK i \in 1 .. Len(catalogo) : Localizada(i) /\ p = Tras(i - 1) + 1
    BY <1>2, <1>3 DEF EncontradoInv
  <1>5. Entero /\ temp_copy = NoFile
    BY <1>2, <1>3 DEF EncontradoInv
  <1>6. p' = Tras(i)
    <2>1. catalogo[i] \in Entradas
      BY <1>2, PrefijoMas
    <2>2. 1 \in 0 .. Len(catalogo[i][1]) - 1
      <3>1. Len(catalogo[i][1]) > 1 /\ Len(catalogo[i][1]) \in Nat
        BY <2>1, EntradaForma DEF Legibles
      <3> QED BY <3>1
    <2>3. p = Len(Prefijo(catalogo, i - 1)) + 1 + 1
      BY <1>4 DEF Tras
    <2>4. LeeBien(i, 1, p)
      BY <1>2, <1>5, <2>2, <2>3, LeeLinea DEF Entero
    <2> QED BY <1>1, <2>4 DEF LeeBien, Tras
  <1>7. TipoInv'
    BY <1>1, TipoSigue DEF FileInv
  <1>8. Localizada(i)' /\ p' = Tras(i)'
    BY <1>1, <1>4, <1>6 DEF Localizada, EsBorrada, Tras
  <1>9. SiguienteInv'
    <2>1. i \in 1 .. Len(catalogo')
      BY <1>1
    <2>2. Entero' /\ temp_copy' = NoFile
      BY <1>1, <1>5 DEF Entero
    <2> QED BY <1>8, <2>1, <2>2 DEF SiguienteInv
  <1>10. FicheroFiel'
    BY <1>1, <1>5 DEF FicheroFiel, Entero
  <1> QED BY <1>1, <1>7, <1>9, <1>10 DEF FileInv, Buscando

LEMMA AbreTempInv ==
  ASSUME Legibles, FileInv, AbreTemp
  PROVE  FileInv'
  <1>1. /\ pc = "siguiente" /\ fichero' = fichero /\ catalogo' = catalogo
        /\ arg' = arg /\ key_pos' = key_pos
    BY DEF AbreTemp
  <1>2. SiguienteInv /\ catalogo \in Seq(Entradas)
    BY <1>1 DEF FileInv, TipoInv
  <1>3. PICK i \in 1 .. Len(catalogo) : Localizada(i) /\ p = Tras(i)
    BY <1>2 DEF SiguienteInv
  <1>4. Entero /\ temp_copy = NoFile
    BY <1>2 DEF SiguienteInv
  <1>5. Lectura(i)
    <2>1. i \in 0 .. Len(catalogo)
      OBVIOUS
    <2> QED BY <1>2, <1>3, <1>4, <2>1, LeeTras
  <1>6. Entero' /\ Localizada(i)' /\ i \in 1 .. Len(catalogo')
    BY <1>1, <1>3, <1>4 DEF Entero, Localizada, EsBorrada, Tras
  <1>7. CASE fscanf(p).eof
    <2>1. pc' = "trunca" /\ temp_copy' = temp_copy
      BY <1>7 DEF AbreTemp
    <2>2. i = Len(catalogo)
      BY <1>5, <1>7 DEF Lectura, LeeBien
    <2>3. Guardado(i)'
      BY <1>1, <1>4, <2>1, <2>2 DEF Guardado
    <2>4. TruncaInv'
      BY <1>6, <2>3 DEF TruncaInv
    <2>5. TipoInv'
      BY <1>1, <2>1, TipoSigue DEF FileInv
    <2>6. FicheroFiel'
      BY <2>1 DEF FicheroFiel, Borrando, Colgado
    <2> QED BY <2>1, <2>4, <2>5, <2>6 DEF FileInv, Buscando
  <1>8. CASE ~fscanf(p).eof
    <2>1. /\ pc' = "copia" /\ p' = fscanf(p).pos /\ path_read' = fscanf(p).path
      BY <1>8 DEF AbreTemp
    <2>2. i < Len(catalogo) /\ LeeBien(i + 1, 0, p)
      BY <1>5, <1>8 DEF Lectura
    <2>3. PICK k \in 1 .. Len(catalogo) : k = i + 1 /\ k - 1 = i
      BY <2>2
    <2>4. /\ path_read' = catalogo[k][1]
          /\ p' = Len(Prefijo(catalogo, i)) + Len(path_read') + 2
      BY <2>1, <2>2, <2>3 DEF LeeBien
    <2>5. CopiaInv'
      <3>1. i \in 1 .. Len(catalogo') - 1
        BY <1>1, <2>2
      <3>2. /\ path_read' = catalogo'[i + 1][1]
            /\ p' = Len(Prefijo(catalogo', i)) + Len(path_read') + 2
        BY <1>1, <2>3, <2>4
      <3> QED BY <1>6, <3>1, <3>2 DEF CopiaInv
    <2>6. TipoInv'
      BY <1>1, <2>1, TipoSigue DEF FileInv
    <2>7. FicheroFiel'
      BY <2>1 DEF FicheroFiel, Borrando, Colgado
    <2> QED BY <2>1, <2>5, <2>6, <2>7 DEF FileInv, Buscando
  <1> QED BY <1>7, <1>8

LEMMA CopiaRestoInv ==
  ASSUME Legibles, FileInv, CopiaResto
  PROVE  FileInv'
  <1>1. /\ pc = "copia" /\ pc' = "trunca"
        /\ temp_copy' = path_read \o <<SP>> \o SubSeq(fichero, p, Len(fichero))
        /\ fichero' = fichero /\ catalogo' = catalogo
        /\ arg' = arg /\ key_pos' = key_pos
    BY DEF CopiaResto, Va, locales
  <1>2. CopiaInv /\ Entero /\ catalogo \in Seq(Entradas)
    BY <1>1 DEF FileInv, TipoInv, CopiaInv
  <1>3. PICK i \in 1 .. Len(catalogo) - 1 :
          /\ Localizada(i)
          /\ path_read = catalogo[i + 1][1]
          /\ p = Len(Prefijo(catalogo, i)) + Len(path_read) + 2
    BY <1>2 DEF CopiaInv
  <1>4. PICK k \in 1 .. Len(catalogo) : k = i + 1 /\ k - 1 = i
    BY <1>2
  <1>5. temp_copy' = Resto(catalogo, i)
    <2>1. p = Len(Prefijo(catalogo, k - 1)) + Len(catalogo[k][1]) + 2
      BY <1>3, <1>4
    <2>2. catalogo[k][1] \o <<SP>> \o SubSeq(fichero, p, Len(fichero))
            = Resto(catalogo, k - 1)
      BY <1>2, <2>1, CopiaIgual DEF Entero
    <2> QED BY <1>1, <1>3, <1>4, <2>2
  <1>6. i \in 1 .. Len(catalogo) /\ i # Len(catalogo)
    BY <1>4
  <1>7. TruncaInv'
    <2>1. Entero' /\ Localizada(i)' /\ i \in 1 .. Len(catalogo')
      BY <1>1, <1>2, <1>3, <1>6 DEF Entero, Localizada, EsBorrada, Tras
    <2>2. Guardado(i)'
      BY <1>1, <1>5, <1>6 DEF Guardado
    <2> QED BY <2>1, <2>2 DEF TruncaInv
  <1>8. TipoInv'
    BY <1>1, TipoSigue DEF FileInv
  <1>9. FicheroFiel'
    BY <1>1 DEF FicheroFiel, Borrando, Colgado
  <1> QED BY <1>1, <1>7, <1>8, <1>9 DEF FileInv, Buscando

LEMMA TruncaPaso ==
  ASSUME FileInv, Trunca
  PROVE  FileInv'
  <1>1. /\ pc = "trunca" /\ pc' = "junta"
        /\ fichero' = SubSeq(fichero, 1, key_pos - 2)
        /\ temp_copy' = temp_copy /\ catalogo' = catalogo /\ arg' = arg
    BY DEF Trunca, Va, locales
  <1>2. TruncaInv /\ Entero /\ catalogo \in Seq(Entradas)
    BY <1>1 DEF FileInv, TipoInv, TruncaInv
  <1>3. PICK i \in 1 .. Len(catalogo) : Localizada(i) /\ Guardado(i)
    BY <1>2 DEF TruncaInv
  <1>4. i - 1 \in 0 .. Len(catalogo)
    OBVIOUS
  <1>5. fichero' = Prefijo(catalogo, i - 1)
    <2>1. key_pos - 2 = Len(Prefijo(catalogo, i - 1))
      <3>1. PICK L \in Nat : L = Len(Prefijo(catalogo, i - 1))
        BY <1>2, <1>4, PrefijoTipo
      <3>2. key_pos = L + 1 + 1
        BY <1>3, <3>1 DEF Localizada, Tras
      <3> QED BY <3>1, <3>2
    <2>2. SubSeq(Lineas(catalogo), 1, Len(Prefijo(catalogo, i - 1)))
            = Prefijo(catalogo, i - 1)
      BY <1>2, <1>4, TruncaIgual
    <2> QED BY <1>1, <1>2, <2>1, <2>2 DEF Entero
  <1>6. JuntaInv'
    <2>1. EsBorrada(i)' /\ Guardado(i)' /\ fichero' = Prefijo(catalogo', i - 1)
      BY <1>1, <1>3, <1>5 DEF Localizada, EsBorrada, Guardado
    <2>2. i \in 1 .. Len(catalogo')
      BY <1>1
    <2> QED BY <2>1, <2>2 DEF JuntaInv
  <1>7. TipoInv'
    BY <1>1, TipoSigue DEF FileInv
  <1>8. FicheroFiel'
    BY <1>1 DEF FicheroFiel, Borrando, Colgado
  <1> QED BY <1>1, <1>6, <1>7, <1>8 DEF FileInv, Buscando

\* NoFile is not the content of a file.
LEMMA NoEsFichero == ASSUME NEW w \in Seq(Bytes) PROVE w # NoFile
  <1>1. Bytes = Letras \cup Blancos
    BY DEF Bytes
  <1> QED BY <1>1, UserFileAssumption

LEMMA JuntaPaso ==
  ASSUME FileInv, Junta
  PROVE  FileInv'
  <1>1. /\ pc = "junta" /\ pc' = "limpia"
        /\ IF temp_copy = NoFile THEN fichero' = fichero
           ELSE fichero' = fichero \o temp_copy
        /\ temp_copy' = temp_copy /\ catalogo' = catalogo /\ arg' = arg
    BY DEF Junta, Va, locales
  <1>2. JuntaInv /\ catalogo \in Seq(Entradas)
    BY <1>1 DEF FileInv, TipoInv
  <1>3. PICK i \in 1 .. Len(catalogo) :
          EsBorrada(i) /\ Guardado(i) /\ fichero = Prefijo(catalogo, i - 1)
    BY <1>2 DEF JuntaInv
  <1>4. i - 1 \in 0 .. Len(catalogo) /\ i \in 0 .. Len(catalogo)
    OBVIOUS
  <1>5. Prefijo(catalogo, i - 1) \in Seq(Bytes) /\ Resto(catalogo, i) \in Seq(Bytes)
    BY <1>2, <1>4, PrefijoTipo
  <1>6. fichero' = Prefijo(catalogo, i - 1) \o Resto(catalogo, i)
    <2>1. CASE i = Len(catalogo)
      <3>1. temp_copy = NoFile
        BY <1>3, <2>1 DEF Guardado
      <3>2. Resto(catalogo, i) = <<>>
        BY <1>2, <2>1, PrefijoCero
      <3>3. PICK x \in Seq(Bytes) : x = Prefijo(catalogo, i - 1)
        BY <1>5
      <3>4. x \o <<>> = x
        OBVIOUS
      <3> QED BY <1>1, <1>3, <3>1, <3>2, <3>3, <3>4
    <2>2. CASE i # Len(catalogo)
      <3>1. temp_copy = Resto(catalogo, i)
        BY <1>3, <2>2 DEF Guardado
      <3>2. temp_copy # NoFile
        BY <1>5, <3>1, NoEsFichero
      <3> QED BY <1>1, <1>3, <3>1, <3>2
    <2> QED BY <2>1, <2>2
  <1>7. LimpiaInv'
    <2>1. /\ EsBorrada(i)' /\ Guardado(i)'
          /\ fichero' = Prefijo(catalogo', i - 1) \o Resto(catalogo', i)
      BY <1>1, <1>3, <1>6 DEF EsBorrada, Guardado
    <2>2. i \in 1 .. Len(catalogo')
      BY <1>1
    <2> QED BY <2>1, <2>2 DEF LimpiaInv
  <1>8. TipoInv'
    BY <1>1, TipoSigue DEF FileInv
  <1>9. FicheroFiel'
    BY <1>1 DEF FicheroFiel, Borrando, Colgado
  <1> QED BY <1>1, <1>7, <1>8, <1>9 DEF FileInv, Buscando

\* There is one entry with the path that delete was given.
LEMMA BorradaEs ==
  ASSUME TipoInv, NEW i \in 1 .. Len(catalogo), EsBorrada(i)
  PROVE  Borrada = i
  <1>1. DOMAIN catalogo = 1 .. Len(catalogo)
    BY LenProperties DEF TipoInv
  <1>2. \A j \in DOMAIN catalogo : catalogo[j][1] = arg[1] => j = i
    BY <1>1 DEF TipoInv, RutasUnicas, EsBorrada
  <1>3. i \in DOMAIN catalogo /\ catalogo[i][1] = arg[1]
    BY <1>1 DEF EsBorrada
  <1> QED BY <1>2, <1>3 DEF Borrada

LEMMA LimpiaPaso ==
  ASSUME FileInv, Limpia
  PROVE  FileInv'
  <1>1. /\ pc = "limpia" /\ pc' = "libre" /\ temp_copy' = NoFile
        /\ fichero' = fichero
        /\ \A i \in DOMAIN catalogo :
             catalogo[i][1] = arg[1] => catalogo' = RemoveAt(catalogo, Borrada)
    BY DEF Limpia, Vuelve
  <1>2. LimpiaInv /\ TipoInv /\ catalogo \in Seq(Entradas)
    BY <1>1 DEF FileInv, TipoInv
  <1>3. PICK i \in 1 .. Len(catalogo) :
          EsBorrada(i) /\ fichero = Prefijo(catalogo, i - 1) \o Resto(catalogo, i)
    BY <1>2 DEF LimpiaInv
  <1>4. catalogo' = RemoveAt(catalogo, i)
    <2>1. i \in DOMAIN catalogo /\ catalogo[i][1] = arg[1]
      BY <1>2, <1>3 DEF EsBorrada
    <2> QED BY <1>1, <1>2, <1>3, <2>1, BorradaEs
  <1>5. /\ RemoveAt(catalogo, i) \in Seq(Entradas)
        /\ Lineas(RemoveAt(catalogo, i)) = Prefijo(catalogo, i - 1) \o Resto(catalogo, i)
        /\ Len(RemoveAt(catalogo, i)) = Len(catalogo) - 1
        /\ \A j \in 1 .. Len(catalogo) - 1 :
             RemoveAt(catalogo, i)[j] = IF j < i THEN catalogo[j] ELSE catalogo[j + 1]
    BY <1>2, SinEntrada
  <1>6. fichero' = Lineas(catalogo')
    BY <1>1, <1>3, <1>4, <1>5
  <1>7. RutasUnicas'
    <2>1. PICK n \in Nat : n = Len(catalogo)
      BY <1>2, LenProperties
    <2>2. \A j, k \in 1 .. n : catalogo[j][1] = catalogo[k][1] => j = k
      BY <1>2, <2>1 DEF TipoInv, RutasUnicas
    <2>3. \A j \in 1 .. n - 1 :
            catalogo'[j] = IF j < i THEN catalogo[j] ELSE catalogo[j + 1]
      BY <1>4, <1>5, <2>1
    <2>4. ASSUME NEW j \in 1 .. n - 1, NEW k \in 1 .. n - 1,
                 catalogo'[j][1] = catalogo'[k][1]
          PROVE  j = k
      <3>1. PICK u \in 1 .. n : u = IF j < i THEN j ELSE j + 1
        OBVIOUS
      <3>2. PICK v \in 1 .. n : v = IF k < i THEN k ELSE k + 1
        OBVIOUS
      <3>3. catalogo'[j] = catalogo[u] /\ catalogo'[k] = catalogo[v]
        BY <2>3, <3>1, <3>2
      <3>4. u = v
        BY <2>2, <2>4, <3>3
      <3> QED BY <2>1, <3>1, <3>2, <3>4
    <2>5. Len(catalogo') = n - 1
      BY <1>4, <1>5, <2>1
    <2> QED BY <2>4, <2>5 DEF RutasUnicas
  <1>8. TipoInv'
    BY <1>1, <1>4, <1>5, <1>7 DEF TipoInv
  <1> QED BY <1>1, <1>6, <1>8, Vuelto

-------------------------------------------------------------------------------
(* The listing. *)

LEMMA ListContentInv ==
  ASSUME FileInv, ListContent
  PROVE  FileInv'
  <1>1. /\ pc = "libre" /\ pc' = "lista"
        /\ n_files' = Cardinality({i \in DOMAIN fichero : fichero[i] = NL})
        /\ p' = 1 /\ contents' = <<>>
        /\ fichero' = fichero /\ temp_copy' = temp_copy /\ catalogo' = catalogo
    BY DEF ListContent, Va
  <1>2. Entero /\ temp_copy = NoFile /\ catalogo \in Seq(Entradas)
    BY <1>1, FicheroEntero DEF Borrando
  <1>3. n_files' = Len(catalogo)
    <2>1. n_files' = Cardinality(Saltos(Lineas(catalogo)))
      BY <1>1, <1>2 DEF Entero, Saltos
    <2> QED BY <1>2, <2>1, CuentaSaltos
  <1>4. ListaInv'
    <2>1. p' = Tras(0)'
      BY <1>1, <1>2, TrasCero DEF Tras
    <2>2. contents' = Listadas(0)'
      BY <1>1 DEF Listadas
    <2>3. 0 \in 0 .. Len(catalogo)
      BY <1>2, LenProperties
    <2>4. 0 \in 0 .. Len(catalogo') /\ n_files' = Len(catalogo')
      BY <1>1, <1>3, <2>3
    <2> QED BY <2>1, <2>2, <2>4 DEF ListaInv
  <1>5. TipoInv'
    BY <1>1, TipoSigue DEF FileInv
  <1>6. FicheroFiel'
    BY <1>1, <1>2 DEF FicheroFiel, Entero
  <1> QED BY <1>1, <1>4, <1>5, <1>6 DEF FileInv, Buscando

\* What a step of the listing knows.
LEMMA Listar ==
  ASSUME Legibles, FileInv, pc = "lista"
  PROVE  /\ Entero /\ temp_copy = NoFile /\ catalogo \in Seq(Entradas)
         /\ n_files = Len(catalogo)
         /\ \E i \in 0 .. Len(catalogo) :
              p = Tras(i) /\ contents = Listadas(i) /\ Lectura(i)
  <1>1. Entero /\ temp_copy = NoFile /\ catalogo \in Seq(Entradas)
    BY FicheroEntero DEF Borrando
  <1>2. ListaInv
    BY DEF FileInv
  <1>3. PICK i \in 0 .. Len(catalogo) : p = Tras(i) /\ contents = Listadas(i)
    BY <1>2 DEF ListaInv
  <1>4. Lectura(i)
    BY <1>1, <1>3, LeeTras
  <1> QED BY <1>1, <1>2, <1>3, <1>4 DEF ListaInv

LEMMA ListadasMas ==
  ASSUME NEW i \in Nat
  PROVE  Append(Listadas(i), <<catalogo[i + 1][1], Append(catalogo[i + 1][2], NL)>>)
           = Listadas(i + 1)
  <1> DEFINE g(j) == <<catalogo[j][1], Append(catalogo[j][2], NL)>>
  <1> HIDE DEF g
  <1>1. Append([j \in 1 .. i |-> g(j)], g(i + 1)) = [j \in 1 .. i + 1 |-> g(j)]
    OBVIOUS
  <1> QED BY <1>1 DEF g, Listadas

LEMMA LeeEntradaInv ==
  ASSUME Legibles, FileInv, LeeEntrada
  PROVE  FileInv'
  <1>1. /\ pc = "lista" /\ pc' = pc /\ ~fscanf(p).eof
        /\ contents' = Append(contents,
                              <<fscanf(p).path,
                                SubSeq(fichero, fscanf(p).pos,
                                       TrasSalto(fscanf(p).pos) - 1)>>)
        /\ p' = TrasSalto(fscanf(p).pos)
        /\ fichero' = fichero /\ temp_copy' = temp_copy /\ catalogo' = catalogo
        /\ n_files' = n_files
    BY DEF LeeEntrada
  <1>2. /\ Entero /\ temp_copy = NoFile /\ catalogo \in Seq(Entradas)
        /\ n_files = Len(catalogo)
    BY <1>1, Listar
  <1>3. PICK i \in 0 .. Len(catalogo) :
          p = Tras(i) /\ contents = Listadas(i) /\ Lectura(i)
    BY <1>1, Listar
  <1>4. i < Len(catalogo) /\ LeeBien(i + 1, 0, p)
    BY <1>1, <1>3 DEF Lectura
  <1>5. PICK k \in 1 .. Len(catalogo) : k = i + 1 /\ k - 1 = i
    BY <1>4
  <1>6. PICK e \in Entradas : e = catalogo[k]
    BY <1>2, PrefijoMas
  <1>7. PICK L \in Nat, c \in Nat :
          L = Len(Prefijo(catalogo, i)) /\ c = Len(Resto(catalogo, k))
    <2>1. k \in 0 .. Len(catalogo)
      OBVIOUS
    <2>2. Len(Prefijo(catalogo, i)) \in Nat /\ Len(Resto(catalogo, k)) \in Nat
      BY <1>2, <2>1, PrefijoTipo
    <2> QED BY <2>2
  <1>8. PICK a \in Nat, b \in Nat : a = Len(e[1]) /\ b = Len(e[2])
    BY EntradaForma
  <1>9. /\ fscanf(p).path = e[1] /\ fscanf(p).pos = L + a + 2
        /\ TrasSalto(fscanf(p).pos) = Tras(k)
        /\ Tras(k) = L + a + b + 2 + 1
        /\ Ocupa(L, e[1], e[2], c)
    BY <1>4, <1>5, <1>6, <1>7, <1>8 DEF LeeBien, Tras
  <1>10. SubSeq(fichero, fscanf(p).pos, TrasSalto(fscanf(p).pos) - 1) = Append(e[2], NL)
    <2>1. SubSeq(fichero, L + a + 2, L + a + b + 2) = Append(e[2], NL)
      BY <1>8, <1>9, DescripcionLeida
    <2>2. (L + a + b + 2 + 1) - 1 = L + a + b + 2
      OBVIOUS
    <2> QED BY <1>9, <2>1, <2>2
  <1>11. contents' = Listadas(k)
    <2>1. contents' = Append(Listadas(i), <<e[1], Append(e[2], NL)>>)
      BY <1>1, <1>3, <1>9, <1>10
    <2>2. i \in Nat
      OBVIOUS
    <2> QED BY <1>5, <1>6, <2>1, <2>2, ListadasMas
  <1>12. ListaInv'
    <2>1. p' = Tras(k)' /\ contents' = Listadas(k)'
      BY <1>1, <1>9, <1>11 DEF Tras, Listadas
    <2>2. k \in 0 .. Len(catalogo') /\ n_files' = Len(catalogo')
      BY <1>1, <1>2
    <2> QED BY <2>1, <2>2 DEF ListaInv
  <1>13. TipoInv'
    BY <1>1, TipoSigue DEF FileInv
  <1>14. FicheroFiel'
    BY <1>1, <1>2 DEF FicheroFiel, Entero
  <1> QED BY <1>1, <1>12, <1>13, <1>14 DEF FileInv, Buscando

LEMMA FinListaInv ==
  ASSUME Legibles, FileInv, FinLista
  PROVE  FileInv'
  <1>1. /\ pc = "lista" /\ pc' = "listado" /\ fscanf(p).eof
        /\ fichero' = fichero /\ temp_copy' = temp_copy /\ catalogo' = catalogo
        /\ contents' = contents /\ n_files' = n_files
    BY DEF FinLista, Va, locales
  <1>2. /\ Entero /\ temp_copy = NoFile /\ catalogo \in Seq(Entradas)
        /\ n_files = Len(catalogo)
    BY <1>1, Listar
  <1>3. PICK i \in 0 .. Len(catalogo) :
          p = Tras(i) /\ contents = Listadas(i) /\ Lectura(i)
    BY <1>1, Listar
  <1>4. i = Len(catalogo)
    BY <1>1, <1>3 DEF Lectura, LeeBien
  <1>5. ListadoInv'
    BY <1>1, <1>2, <1>3, <1>4 DEF ListadoInv, Listadas
  <1>6. TipoInv'
    BY <1>1, TipoSigue DEF FileInv
  <1>7. FicheroFiel'
    BY <1>1, <1>2 DEF FicheroFiel, Entero
  <1> QED BY <1>1, <1>5, <1>6, <1>7 DEF FileInv, Buscando

LEMMA EnviaListaInv ==
  ASSUME FileInv, EnviaLista
  PROVE  FileInv'
  <1>1. /\ pc = "listado" /\ pc' = "libre"
        /\ fichero' = fichero /\ temp_copy' = temp_copy /\ catalogo' = catalogo
    BY DEF EnviaLista, Vuelve
  <1>2. Entero /\ temp_copy = NoFile
    BY <1>1, FicheroEntero DEF Borrando
  <1>3. TipoInv'
    BY <1>1, TipoSigue DEF FileInv
  <1>4. fichero' = Lineas(catalogo') /\ temp_copy' = NoFile
    BY <1>1, <1>2 DEF Entero
  <1> QED BY <1>1, <1>3, <1>4, Vuelto

LEMMA QuietoInv ==
  ASSUME FileInv, UNCHANGED vars
  PROVE  FileInv'
  <1>1. /\ fichero' = fichero /\ temp_copy' = temp_copy /\ catalogo' = catalogo
        /\ pc' = pc /\ arg' = arg /\ p' = p /\ path_read' = path_read
        /\ key_pos' = key_pos /\ contents' = contents /\ n_files' = n_files
    BY DEF vars, locales
  <1>2. TipoInv' <=> TipoInv
    BY <1>1 DEF TipoInv, RutasUnicas
  <1>3. FicheroFiel' <=> FicheroFiel
    BY <1>1 DEF FicheroFiel, Borrando, Colgado
  <1>4. (Buscando => BuscaInv)' <=> (Buscando => BuscaInv)
    BY <1>1 DEF Buscando, BuscaInv, HaBuscado, Tras
  <1>5. (EncontradoInv' <=> EncontradoInv) /\ (SiguienteInv' <=> SiguienteInv)
    BY <1>1 DEF EncontradoInv, SiguienteInv, Entero, Localizada, EsBorrada, Tras
  <1>6. (CopiaInv' <=> CopiaInv) /\ (TruncaInv' <=> TruncaInv)
    BY <1>1 DEF CopiaInv, TruncaInv, Entero, Localizada, EsBorrada, Tras, Guardado
  <1>7. (JuntaInv' <=> JuntaInv) /\ (LimpiaInv' <=> LimpiaInv)
    BY <1>1 DEF JuntaInv, LimpiaInv, EsBorrada, Guardado
  <1>8. (ListaInv' <=> ListaInv) /\ (ListadoInv' <=> ListadoInv)
    BY <1>1 DEF ListaInv, ListadoInv, Listadas, Tras
  <1> QED BY <1>1, <1>2, <1>3, <1>4, <1>5, <1>6, <1>7, <1>8 DEF FileInv

-------------------------------------------------------------------------------

\* No step breaks the invariant.
LEMMA NextFile ==
  ASSUME Legibles, FileInv, [Next]_vars
  PROVE  FileInv'
  <1>1. CASE Empieza
    BY <1>1, EmpiezaBusca, ListContentInv DEF Empieza
  <1>2. CASE SigueBuscando \/ Encuentra \/ NoEncuentra
    BY <1>2, SigueBuscandoInv, EncuentraInv, NoEncuentraInv
  <1>3. CASE SaltaEntrada \/ AbreTemp \/ CopiaResto
    BY <1>3, SaltaEntradaInv, AbreTempInv, CopiaRestoInv
  <1>4. CASE Trunca \/ Junta \/ Limpia
    BY <1>4, TruncaPaso, JuntaPaso, LimpiaPaso
  <1>5. CASE LeeEntrada \/ FinLista \/ EnviaLista
    BY <1>5, LeeEntradaInv, FinListaInv, EnviaListaInv
  <1>6. CASE Gira
    BY <1>6, QuietoInv DEF Gira
  <1>7. CASE UNCHANGED vars
    BY <1>7, QuietoInv
  <1> QED BY <1>1, <1>2, <1>3, <1>4, <1>5, <1>6, <1>7 DEF Next, Paso

\* Every step of the operations of manage_platform.c on the file (263-453, 589-685)
\* keeps the invariant.
THEOREM FileInvariante ==
  ASSUME Legibles
  PROVE  Spec => []FileInv
  <1>1. Init => FileInv
    BY InitFile
  <1>2. FileInv /\ [Next]_vars => FileInv'
    BY NextFile
  <1> QED BY <1>1, <1>2, PTL DEF Spec

\* publish, delete and list_content, when no delete is half done: the bytes of the
\* user's file are the lines of the entries published and not deleted, in order.
THEOREM FicheroFielSiempre ==
  ASSUME Legibles
  PROVE  Spec => []FicheroFiel
  <1>1. FileInv => FicheroFiel
    BY DEF FileInv
  <1> QED BY <1>1, FileInvariante, PTL

\* delete: wherever it stops, the lines before the entry are in the file and the
\* lines after it in the file or in temp_copy.
THEOREM NadaSePierdeNunca ==
  ASSUME Legibles
  PROVE  Spec => []NadaSePierde
  <1>1. ASSUME FileInv, Borrando
        PROVE  \E i \in 1 .. Len(catalogo) :
                 /\ EsBorrada(i)
                 /\ \/ Entero
                    \/ fichero = Prefijo(catalogo, i - 1) /\ Guardado(i)
                    \/ fichero = Prefijo(catalogo, i - 1) \o Resto(catalogo, i)
    <2>1. CASE pc = "encontrado"
      BY <1>1, <2>1 DEF FileInv, EncontradoInv, Borrando, Colgado, Localizada
    <2>2. CASE pc = "siguiente"
      BY <1>1, <2>2 DEF FileInv, SiguienteInv, Localizada
    <2>3. CASE pc = "copia"
      <3>1. PICK i \in 1 .. Len(catalogo) - 1 : Localizada(i) /\ Entero
        BY <1>1, <2>3 DEF FileInv, CopiaInv
      <3>2. i \in 1 .. Len(catalogo)
        BY <3>1 DEF Localizada, EsBorrada
      <3> QED BY <3>1, <3>2 DEF Localizada
    <2>4. CASE pc = "trunca"
      BY <1>1, <2>4 DEF FileInv, TruncaInv, Localizada
    <2>5. CASE pc = "junta"
      BY <1>1, <2>5 DEF FileInv, JuntaInv
    <2>6. CASE pc = "limpia"
      BY <1>1, <2>6 DEF FileInv, LimpiaInv
    <2> QED BY <1>1, <2>1, <2>2, <2>3, <2>4, <2>5, <2>6 DEF Borrando
  <1>2. ASSUME FileInv, Borrando
        PROVE  /\ IsPrefix(Antes, fichero)
               /\ IsSuffix(Despues, fichero) \/ temp_copy = Despues
    <2>1. PICK i \in 1 .. Len(catalogo) :
            /\ EsBorrada(i)
            /\ \/ Entero
               \/ fichero = Prefijo(catalogo, i - 1) /\ Guardado(i)
               \/ fichero = Prefijo(catalogo, i - 1) \o Resto(catalogo, i)
      BY <1>1, <1>2
    <2>2. catalogo \in Seq(Entradas) /\ Borrada = i
      BY <1>2, <2>1, BorradaEs DEF FileInv, TipoInv
    <2>3. Antes = Prefijo(catalogo, i - 1) /\ Despues = Resto(catalogo, i)
      BY <2>2 DEF Antes, Despues, Prefijo, Resto
    <2>4. i - 1 \in 0 .. Len(catalogo) /\ i \in 0 .. Len(catalogo)
      OBVIOUS
    <2>5. PICK X \in Seq(Bytes), Y \in Seq(Bytes), l \in Seq(Bytes) :
            X = Prefijo(catalogo, i - 1) /\ Y = Resto(catalogo, i) /\ l = Linea(catalogo[i])
      <3>1. Prefijo(catalogo, i - 1) \in Seq(Bytes) /\ Resto(catalogo, i) \in Seq(Bytes)
        BY <2>2, <2>4, PrefijoTipo
      <3>2. Linea(catalogo[i]) \in Seq(Bytes)
        BY <2>2, PrefijoMas, LineaForma DEF EsLinea
      <3> QED BY <3>1, <3>2
    <2>6. <<>> \in Seq(Bytes) /\ X \o <<>> = X
      OBVIOUS
    <2>7. CASE Entero
      <3>1. PICK z \in Seq(Bytes) : z = l \o Y
        BY Pegadas
      <3>2. fichero = X \o z
        BY <2>2, <2>4, <2>5, <2>7, <3>1, PrefijoTipo, PrefijoMas DEF Entero
      <3>3. PICK x \in Seq(Bytes) : x = X \o l
        BY Pegadas
      <3>4. fichero = x \o Y
        <4>1. Asoc(X, l, Y)
          BY Asociada
        <4> QED BY <3>1, <3>2, <3>3, <4>1, Zenon DEF Asoc
      <3>5. IsPrefix(X, fichero)
        BY <3>2, EsPrefijo
      <3>6. IsSuffix(Y, fichero)
        BY <3>4, EsSufijo
      <3> QED BY <2>3, <2>5, <3>5, <3>6
    <2>8. CASE fichero = Prefijo(catalogo, i - 1) /\ Guardado(i)
      <3>1. IsPrefix(X, fichero)
        BY <2>5, <2>6, <2>8, EsPrefijo
      <3>2. CASE i = Len(catalogo)
        <4>1. Y = <<>>
          BY <2>2, <2>5, <3>2, PrefijoCero
        <4>2. IsSuffix(Y, fichero)
          BY <2>5, <2>6, <2>8, <4>1, EsSufijo
        <4> QED BY <2>3, <2>5, <3>1, <4>2
      <3>3. CASE i # Len(catalogo)
        <4>1. temp_copy = Y
          BY <2>5, <2>8, <3>3 DEF Guardado
        <4> QED BY <2>3, <2>5, <3>1, <4>1
      <3> QED BY <3>2, <3>3
    <2>9. CASE fichero = Prefijo(catalogo, i - 1) \o Resto(catalogo, i)
      <3>1. IsPrefix(X, fichero) /\ IsSuffix(Y, fichero)
        BY <2>5, <2>9, EsPrefijo, EsSufijo
      <3> QED BY <2>3, <2>5, <3>1
    <2> QED BY <2>1, <2>7, <2>8, <2>9
  <1>3. FileInv => NadaSePierde
    BY <1>2 DEF NadaSePierde
  <1> QED BY <1>3, FileInvariante, PTL

\* list_content gives every entry of the user, with its description and line break,
\* and as many as list_content_get_num counted for the array.
THEOREM ListadoFielSiempre ==
  ASSUME Legibles
  PROVE  Spec => []ListadoFiel
  <1>1. ASSUME FileInv, pc = "listado" PROVE ListadoFiel
    <2>1. catalogo \in Seq(Entradas) /\ ListadoInv
      BY <1>1 DEF FileInv, TipoInv
    <2>2. DOMAIN catalogo = 1 .. Len(catalogo) /\ Len(catalogo) \in Nat
      BY <2>1, LenProperties
    <2>3. contents = [i \in DOMAIN catalogo |->
                        <<catalogo[i][1], Append(catalogo[i][2], NL)>>]
      BY <2>1, <2>2 DEF ListadoInv, Listadas
    <2>4. Len(contents) = Len(catalogo)
      BY <2>1, <2>2 DEF ListadoInv, Listadas
    <2> QED BY <2>1, <2>3, <2>4 DEF ListadoFiel, ListadoInv
  <1>2. FileInv => ListadoFiel
    BY <1>1 DEF ListadoFiel
  <1> QED BY <1>2, FileInvariante, PTL

\* The comment of the search (299) is true of these entries: when the loop of fgetc
\* starts there is a line break to find.
THEOREM SiempreHaySaltoLegible ==
  ASSUME Legibles
  PROVE  Spec => []SiempreHaySalto
  <1>1. ASSUME FileInv, Buscando, EsperaSalto(fscanf(p))
        PROVE  HaySalto(fscanf(p).pos)
    <2>1. ~fscanf(p).eof
      BY <1>1 DEF EsperaSalto, Buscando
    <2>2. PICK i \in 0 .. Len(catalogo) : Lectura(i)
      BY <1>1, Buscar
    <2> QED BY <2>1, <2>2 DEF Lectura, LeeBien
  <1>2. FileInv => SiempreHaySalto
    BY <1>1 DEF SiempreHaySalto
  <1> QED BY <1>2, FileInvariante, PTL

\* And the comment of delete (395): after the loop it is at the beginning of the
\* entry after the one it removes.
THEOREM AlPrincipioLegible ==
  ASSUME Legibles
  PROVE  Spec => []AlPrincipioDeLaSiguiente
  <1>1. ASSUME FileInv, pc = "siguiente"
        PROVE  p = Len(Antes) + Len(Linea(catalogo[Borrada])) + 1
    <2>1. SiguienteInv /\ TipoInv /\ catalogo \in Seq(Entradas)
      BY <1>1 DEF FileInv, TipoInv
    <2>2. PICK i \in 1 .. Len(catalogo) : EsBorrada(i) /\ p = Tras(i)
      BY <2>1 DEF SiguienteInv, Localizada
    <2>3. Borrada = i /\ Antes = Prefijo(catalogo, i - 1)
      BY <2>1, <2>2, BorradaEs DEF Antes, Prefijo
    <2>4. i - 1 \in 0 .. Len(catalogo)
      OBVIOUS
    <2>5. PICK X \in Seq(Bytes), l \in Seq(Bytes) :
            X = Prefijo(catalogo, i - 1) /\ l = Linea(catalogo[i])
      <3>1. Prefijo(catalogo, i - 1) \in Seq(Bytes)
        BY <2>1, <2>4, PrefijoTipo
      <3>2. Linea(catalogo[i]) \in Seq(Bytes)
        BY <2>1, PrefijoMas, LineaForma DEF EsLinea
      <3> QED BY <3>1, <3>2
    <2>6. Prefijo(catalogo, i) = X \o l
      BY <2>1, <2>5, PrefijoMas
    <2>7. Len(X \o l) = Len(X) + Len(l)
      BY Pegadas
    <2> QED BY <2>2, <2>3, <2>5, <2>6, <2>7 DEF Tras
  <1>2. FileInv => AlPrincipioDeLaSiguiente
    BY <1>1 DEF AlPrincipioDeLaSiguiente
  <1> QED BY <1>2, FileInvariante, PTL
===============================================================================
