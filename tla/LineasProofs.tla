----------------------------- MODULE LineasProofs -----------------------------
(***************************************************************************)
(* Proofs about Lineas.  First, whatever bytes arrive and however they are *)
(* cut, readLine keeps of a line no more than the size it is told, less    *)
(* the final '\0'.  Then, what the proofs of LineasConversa need: what *)
(* a stream carries while one side writes it byte by byte and the other    *)
(* reads it, what readLine keeps of a field, and which fields a command    *)
(* has.                                                                    *)
(***************************************************************************)
EXTENDS Lineas, SequenceTheorems, TLAPS

\* What readLine may store when it is told MAX_MSG.
Linea(s) == \E S : s \in Seq(S) /\ Len(s) < MAX_MSG

\* The inductive invariant: the line being read fits too.
LinInv ==
  /\ TypeOK
  /\ DOMAIN cliente = {"pc", "sol", "k", "j", "entera", "bien", "a", "leido"}
  /\ DOMAIN servidor = {"pc", "k", "buf", "respuesta", "m", "j"}
  /\ Linea(servidor.buf)
  /\ pet = [x \in Campos |-> pet[x]]

-------------------------------------------------------------------------------

LEMMA LineaVacia == Linea(<<>>)
  <1>1. Len(FECHA) = 3
    BY DEF FECHA
  <1>2. 0 < MAX_MSG /\ MAX_MSG \in Nat
    BY <1>1, LineasAssumption
  <1>3. <<>> \in Seq({}) /\ Len(<<>>) = 0
    OBVIOUS
  <1> QED BY <1>2, <1>3 DEF Linea

LEMMA LineaCorta == ASSUME NEW s, Linea(s) PROVE Len(s) < MAX_MSG
  BY DEF Linea

\* The byte that fits.
LEMMA LineaCrece ==
  ASSUME NEW s, Linea(s), Len(s) < MAX_MSG - 1, NEW b
  PROVE  Linea(Append(s, b))
  <1>1. PICK S : s \in Seq(S)
    BY DEF Linea
  <1>2. s \in Seq(S \cup {b})
    BY <1>1
  <1>3. Append(s, b) \in Seq(S \cup {b}) /\ Len(Append(s, b)) = Len(s) + 1
    BY <1>2
  <1>4. Len(s) + 1 < MAX_MSG
    BY <1>1, LineasAssumption
  <1> QED BY <1>3, <1>4 DEF Linea

\* The end of a line.
LEMMA GuardaBien ==
  ASSUME LinInv, Leyendo, NEW hayAlgo \in BOOLEAN, Guarda(servidor.buf, hayAlgo),
         UNCHANGED <<cliente, fin>>
  PROVE  LinInv'
  <1>1. Linea(servidor.buf) /\ Linea(<<>>) /\ Len(<<>>) < MAX_MSG
    BY LineaVacia, LineaCorta DEF LinInv
  <1>2. /\ DOMAIN servidor' = DOMAIN servidor
        /\ servidor'.buf = <<>>
        /\ servidor'.pc \in {"log", "trata", "peticion", "roto"}
    BY DEF Guarda, Anota, LinInv
  <1>3. DOMAIN pet' = Campos /\ pet' = [x \in Campos |-> pet'[x]]
    BY DEF Guarda, Anota, Escribe, LinInv, TypeOK
  <1>4. TypeOK'
    BY <1>1, <1>2, <1>3 DEF TypeOK, LinInv, Acabado
  <1> QED BY <1>1, <1>2, <1>3, <1>4 DEF LinInv

\* The steps of the server that read nothing.
LEMMA SinLeer ==
  ASSUME LinInv, UNCHANGED <<cliente, fin, pet, fecha>>,
         DOMAIN servidor' = DOMAIN servidor, servidor'.buf = servidor.buf,
         servidor'.pc \in {servidor.pc, "roto", "fin", "envia", "fecha", "registrada"}
  PROVE  LinInv'
  <1>1. TypeOK'
    BY DEF LinInv, TypeOK, Acabado
  <1> QED BY <1>1 DEF LinInv

\* The steps of the client.
LEMMA DelCliente ==
  ASSUME LinInv, UNCHANGED <<servidor, pet, fecha>>,
         DOMAIN cliente' = DOMAIN cliente,
         cliente'.pc \in {cliente.pc, "lee", "fecha", "fin", "muerto"},
         fin' \in {fin, "fin", "reset"}
  PROVE  LinInv'
  <1>1. TypeOK'
    BY DEF LinInv, TypeOK
  <1> QED BY <1>1 DEF LinInv

-------------------------------------------------------------------------------

LEMMA InitLin == Init => LinInv
  <1> SUFFICES ASSUME Init PROVE LinInv
    OBVIOUS
  <1>1. /\ cliente.pc = "pide"
        /\ DOMAIN cliente = {"pc", "sol", "k", "j", "entera", "bien", "a", "leido"}
    BY DEF Init
  <1>2. /\ servidor.pc = "peticion" /\ servidor.buf = <<>>
        /\ DOMAIN servidor = {"pc", "k", "buf", "respuesta", "m", "j"}
    BY DEF Init
  <1>3. fin = "abierto" /\ DOMAIN pet = Campos /\ pet = [x \in Campos |-> pet[x]]
    BY DEF Init
  <1>4. Linea(<<>>) /\ Len(<<>>) < MAX_MSG
    BY LineaVacia, LineaCorta
  <1> QED BY <1>1, <1>2, <1>3, <1>4 DEF LinInv, TypeOK

LEMMA StepLin == LinInv /\ [Next]_vars => LinInv'
  <1> SUFFICES ASSUME LinInv, [Next]_vars PROVE LinInv'
    OBVIOUS
  <1>1. CASE write_string
    BY <1>1, DelCliente DEF write_string, LinInv
  <1>2. CASE EsperaRespuesta
    BY <1>2, DelCliente DEF EsperaRespuesta, LinInv
  <1>3. CASE read_string
    <2>1. /\ UNCHANGED <<servidor, pet, fecha, fin>>
          /\ DOMAIN cliente' = DOMAIN cliente
          /\ cliente'.pc \in {cliente.pc, "fecha"}
      BY <1>3 DEF read_string, AlFinally, LinInv
    <2> QED BY <2>1, DelCliente
  <1>4. CASE Cierra
    BY <1>4, DelCliente DEF Cierra, Cierre, LinInv
  <1>5. CASE Muere
    BY <1>5, DelCliente DEF Muere, Cierre, LinInv
  <1>6. CASE readLine
    <2>1. CASE Head(red) = NUL
      BY <1>6, <2>1, GuardaBien DEF readLine
    <2>2. CASE Head(red) # NUL /\ Len(servidor.buf) < MAX_MSG - 1
      <3>1. /\ servidor' = [servidor EXCEPT !.buf = Append(@, Head(red))]
            /\ UNCHANGED <<cliente, fin, pet, fecha>>
        BY <1>6, <2>2 DEF readLine
      <3>2. /\ Linea(servidor'.buf) /\ servidor'.pc = servidor.pc
            /\ DOMAIN servidor' = DOMAIN servidor
        BY <2>2, <3>1, LineaCrece DEF LinInv
      <3>3. TypeOK'
        BY <3>1, <3>2, LineaCorta DEF LinInv, TypeOK
      <3> QED BY <3>1, <3>2, <3>3 DEF LinInv
    <2>3. CASE Head(red) # NUL /\ ~(Len(servidor.buf) < MAX_MSG - 1)
      BY <1>6, <2>3, SinLeer DEF readLine
    <2> QED BY <2>1, <2>2, <2>3
  <1>7. CASE FinDeFichero
    BY <1>7, GuardaBien DEF FinDeFichero
  <1>8. CASE ErrorLectura
    BY <1>8, SinLeer DEF ErrorLectura, LinInv
  <1>9. CASE Responde
    BY <1>9, SinLeer DEF Responde, LinInv
  <1>10. CASE sendMessage
    BY <1>10, SinLeer DEF sendMessage, Avanza, LinInv
  <1>11. CASE ErrorEscritura
    BY <1>11, SinLeer DEF ErrorEscritura, LinInv
  <1>12. CASE EsperaFecha
    BY <1>12, SinLeer DEF EsperaFecha, LinInv
  <1>13. CASE Registra
    BY <1>13, SinLeer DEF Registra, LinInv
  <1>14. CASE UNCHANGED vars
    BY <1>14, SinLeer DEF vars
  <1> QED BY <1>1, <1>2, <1>3, <1>4, <1>5, <1>6, <1>7, <1>8, <1>9, <1>10, <1>11,
             <1>12, <1>13, <1>14 DEF Next, ClientePaso, ServidorPaso

\* The bytes of a request, in pieces of any length, never make readLine store
\* more than the size it is told less the final '\0'.  (That size is not the
\* array's: whether the line fits there is NingunCampoDesborda.)
THEOREM LineasTipos == Spec => []TypeOK
  <1>1. LinInv => TypeOK
    BY DEF LinInv
  <1> QED BY InitLin, StepLin, <1>1, PTL DEF Spec

-------------------------------------------------------------------------------
(* A stream, its writer and its reader. *)

\* The bytes of both streams, NUL apart.
Bytes == Letras \cup {"dia", " ", "hora", "0", "1", "2", "3", "4", "ip", "puerto", "texto"}

Flujos == Seq(Bytes \cup {NUL})

\* Walk along the strings of M: before byte n of the stream q, string s[n] is being
\* sent and t[n] bytes of it are gone.  The walk begins at <<k, b>>, where the
\* reader is, and ends at <<i, j>>, where the writer is.
Camino(q, M, k, b, i, j, s, t) ==
  /\ s \in [Nat -> Nat] /\ t \in [Nat -> Nat]
  /\ s[1] = k /\ t[1] = b
  /\ s[Len(q) + 1] = i /\ t[Len(q) + 1] = j
  /\ \A n \in 1 .. Len(q) :
       /\ s[n] \in 1 .. Len(M) /\ t[n] <= Len(M[s[n]])
       /\ q[n] = Cadena(M[s[n]])[t[n] + 1]
       /\ t[n] = Len(M[s[n]]) => s[n + 1] = s[n] + 1 /\ t[n + 1] = 0
       /\ t[n] < Len(M[s[n]]) => s[n + 1] = s[n] /\ t[n + 1] = t[n] + 1
  /\ \A n, o \in 1 .. Len(q) + 1 :
       n <= o => s[n] <= s[o] /\ (s[n] = s[o] => t[n] + o = t[o] + n)

\* Stream q carries the strings of M, each with its NUL, from byte b of string k
\* (what was before has been read) to byte j of string i (what is after is still
\* to be written).
Tubo(q, M, k, b, i, j) ==
  /\ q \in Flujos /\ M \in Seq(Seq(Bytes))
  /\ \E s, t : Camino(q, M, k, b, i, j, s, t)

LEMMA NulNoEsByte == NUL \notin Bytes
  BY LineasAssumption DEF Bytes, NUL

LEMMA CadenaForma ==
  ASSUME NEW s \in Seq(Bytes)
  PROVE  /\ Cadena(s) \in Flujos /\ Len(Cadena(s)) = Len(s) + 1
         /\ \A y \in 1 .. Len(s) : Cadena(s)[y] = s[y] /\ s[y] # NUL
         /\ Cadena(s)[Len(s) + 1] = NUL
  <1>1. s \in Seq(Bytes \cup {NUL})
    OBVIOUS
  <1>2. NUL \in Bytes \cup {NUL}
    OBVIOUS
  <1>3. \A y \in 1 .. Len(s) : s[y] # NUL
    BY NulNoEsByte
  <1> QED BY <1>1, <1>2, <1>3 DEF Cadena, Flujos

\* Nothing is written and nothing is read.
LEMMA TuboInicial ==
  ASSUME NEW M \in Seq(Seq(Bytes)), NEW k \in Nat
  PROVE  Tubo(<<>>, M, k, 0, k, 0)
  <1> DEFINE s == [x \in Nat |-> k]
             t == [x \in Nat |-> 0]
  <1>1. <<>> \in Flujos /\ Len(<<>>) = 0
    BY DEF Flujos
  <1>2. Camino(<<>>, M, k, 0, k, 0, s, t)
    <2>1. /\ s \in [Nat -> Nat] /\ t \in [Nat -> Nat]
          /\ s[1] = k /\ t[1] = 0 /\ 0 + 1 = 1
      OBVIOUS
    <2>2. \A n \in 1 .. 1 : n = 1
      OBVIOUS
    <2>3. 1 .. 0 = {}
      OBVIOUS
    <2>4. /\ s[Len(<<>>) + 1] = k /\ t[Len(<<>>) + 1] = 0
          /\ 1 .. Len(<<>>) = {} /\ 1 .. Len(<<>>) + 1 = {1}
      BY <1>1, <2>1, <2>2, <2>3
    <2>5. \A n, o \in {1} : s[n] <= s[o] /\ (s[n] = s[o] => t[n] + o = t[o] + n)
      BY <2>1
    <2> HIDE DEF s, t
    <2> QED BY <2>1, <2>4, <2>5, Zenon DEF Camino
  <1> QED BY <1>1, <1>2 DEF Tubo

\* An empty stream: what was written has been read.
LEMMA TuboVacio ==
  ASSUME NEW M, NEW k, NEW b, NEW i, NEW j, Tubo(<<>>, M, k, b, i, j)
  PROVE  k = i /\ b = j
  <1>1. PICK s, t : Camino(<<>>, M, k, b, i, j, s, t)
    BY DEF Tubo
  <1>2. Len(<<>>) + 1 = 1
    OBVIOUS
  <1> QED BY <1>1, <1>2 DEF Camino

\* The reader is not beyond the writer.
LEMMA TuboOrden ==
  ASSUME NEW q, NEW M, NEW k, NEW b, NEW i, NEW j, Tubo(q, M, k, b, i, j)
  PROVE  k \in Nat /\ b \in Nat /\ i \in Nat /\ j \in Nat /\ k <= i
  <1>1. PICK s, t : Camino(q, M, k, b, i, j, s, t)
    BY DEF Tubo
  <1>2. Len(q) \in Nat
    BY DEF Tubo, Flujos
  <1>3. 1 \in 1 .. Len(q) + 1 /\ Len(q) + 1 \in 1 .. Len(q) + 1 /\ 1 <= Len(q) + 1
    BY <1>2
  <1>4. s[1] = k /\ t[1] = b /\ s[Len(q) + 1] = i /\ t[Len(q) + 1] = j
    BY <1>1 DEF Camino
  <1>5. s \in [Nat -> Nat] /\ t \in [Nat -> Nat]
    BY <1>1 DEF Camino
  <1>6. s[1] <= s[Len(q) + 1]
    BY <1>1, <1>3, Zenon DEF Camino
  <1>7. 1 \in Nat /\ Len(q) + 1 \in Nat
    BY <1>2
  <1> QED BY <1>4, <1>5, <1>6, <1>7

\* The byte read is the next one of string k: either NUL, and the string ends, or
\* one more byte of it.
LEMMA TuboLee ==
  ASSUME NEW q, q # <<>>, NEW M, NEW k, NEW b, NEW i, NEW j, Tubo(q, M, k, b, i, j)
  PROVE  /\ k \in 1 .. Len(M) /\ b \in 0 .. Len(M[k])
         /\ Head(q) = NUL => /\ b = Len(M[k])
                            /\ Tubo(Tail(q), M, k + 1, 0, i, j)
         /\ Head(q) # NUL => /\ b < Len(M[k]) /\ Head(q) = M[k][b + 1]
                            /\ Tubo(Tail(q), M, k, b + 1, i, j)
  <1>1. PICK s, t : Camino(q, M, k, b, i, j, s, t)
    BY DEF Tubo
  <1> DEFINE N == Len(q) - 1
  <1>2. q \in Flujos /\ M \in Seq(Seq(Bytes))
    BY DEF Tubo
  <1>3. Len(q) \in Nat /\ Len(q) >= 1 /\ N \in Nat /\ N + 1 = Len(q) /\ 1 \in 1 .. Len(q)
    BY <1>2 DEF Flujos
  <1>4. Tail(q) \in Flujos /\ Head(q) = q[1]
    BY <1>2 DEF Flujos
  <1>5. Len(Tail(q)) = N
    BY <1>2 DEF Flujos
  <1>6. \A y \in 1 .. N : Tail(q)[y] = q[y + 1]
    BY <1>2 DEF Flujos
  <1> HIDE DEF N
  <1>7. /\ s \in [Nat -> Nat] /\ t \in [Nat -> Nat]
        /\ s[1] = k /\ t[1] = b
        /\ s[N + 2] = i /\ t[N + 2] = j
    <2>1. N + 2 = Len(q) + 1
      BY <1>3
    <2> QED BY <1>1, <2>1 DEF Camino
  <1>8. ASSUME NEW n \in 1 .. N + 1
        PROVE  /\ s[n] \in 1 .. Len(M) /\ t[n] <= Len(M[s[n]])
               /\ q[n] = Cadena(M[s[n]])[t[n] + 1]
               /\ t[n] = Len(M[s[n]]) => s[n + 1] = s[n] + 1 /\ t[n + 1] = 0
               /\ t[n] < Len(M[s[n]]) => s[n + 1] = s[n] /\ t[n + 1] = t[n] + 1
    BY <1>1, <1>3, <1>8 DEF Camino
  <1>9. ASSUME NEW n \in 1 .. N + 2, NEW o \in 1 .. N + 2, n <= o
        PROVE  s[n] <= s[o] /\ (s[n] = s[o] => t[n] + o = t[o] + n)
    <2>1. N + 2 = Len(q) + 1
      BY <1>3
    <2> QED BY <1>1, <1>9, <2>1 DEF Camino
  <1>10. k \in 1 .. Len(M) /\ b \in Nat /\ b <= Len(M[k]) /\ q[1] = Cadena(M[k])[b + 1]
    BY <1>3, <1>7, <1>8
  <1>11. M[k] \in Seq(Bytes) /\ Len(M[k]) \in Nat
    BY <1>2, <1>10
  <1>12. /\ b < Len(M[k]) => q[1] = M[k][b + 1] /\ q[1] # NUL
         /\ b = Len(M[k]) => q[1] = NUL
    BY <1>10, <1>11, CadenaForma
  <1> DEFINE s2 == [x \in Nat |-> s[x + 1]]
             t2 == [x \in Nat |-> t[x + 1]]
  <1>13. /\ s2 \in [Nat -> Nat] /\ t2 \in [Nat -> Nat]
         /\ \A x \in Nat : s2[x] = s[x + 1] /\ t2[x] = t[x + 1]
    <2>1. ASSUME NEW x \in Nat PROVE s[x + 1] \in Nat /\ t[x + 1] \in Nat
      <3>1. x + 1 \in Nat
        OBVIOUS
      <3> QED BY <1>7, <3>1, Zenon
    <2> QED BY <2>1, Zenon
  <1> HIDE DEF s2, t2
  <1>14. Tubo(Tail(q), M, s[2], t[2], i, j)
    <2>1. s2[1] = s[2] /\ t2[1] = t[2] /\ s2[N + 1] = i /\ t2[N + 1] = j
      BY <1>3, <1>7, <1>13
    <2>2. ASSUME NEW n \in 1 .. N
          PROVE  /\ s2[n] \in 1 .. Len(M) /\ t2[n] <= Len(M[s2[n]])
                 /\ Tail(q)[n] = Cadena(M[s2[n]])[t2[n] + 1]
                 /\ t2[n] = Len(M[s2[n]]) => s2[n + 1] = s2[n] + 1 /\ t2[n + 1] = 0
                 /\ t2[n] < Len(M[s2[n]]) => s2[n + 1] = s2[n] /\ t2[n + 1] = t2[n] + 1
      <3>1. n \in Nat /\ n + 1 \in Nat /\ n + 1 \in 1 .. N + 1
        BY <1>3
      <3>2. s2[n] = s[n + 1] /\ t2[n] = t[n + 1]
            /\ s2[n + 1] = s[(n + 1) + 1] /\ t2[n + 1] = t[(n + 1) + 1]
        BY <1>13, <3>1
      <3>3. Tail(q)[n] = q[n + 1]
        BY <1>6
      <3> QED BY <1>8, <3>1, <3>2, <3>3
    <2>3. ASSUME NEW n \in 1 .. N + 1, NEW o \in 1 .. N + 1, n <= o
          PROVE  s2[n] <= s2[o] /\ (s2[n] = s2[o] => t2[n] + o = t2[o] + n)
      <3>1. /\ n \in Nat /\ o \in Nat /\ n + 1 \in 1 .. N + 2 /\ o + 1 \in 1 .. N + 2
            /\ n + 1 <= o + 1
        BY <1>3, <2>3
      <3>2. /\ s[n + 1] <= s[o + 1]
            /\ s[n + 1] = s[o + 1] => t[n + 1] + (o + 1) = t[o + 1] + (n + 1)
        BY <1>9, <3>1
      <3>3. t[n + 1] \in Nat /\ t[o + 1] \in Nat
        BY <1>7, <3>1
      <3>4. s2[n] = s[n + 1] /\ t2[n] = t[n + 1] /\ s2[o] = s[o + 1] /\ t2[o] = t[o + 1]
        BY <1>13, <3>1
      <3> QED BY <3>1, <3>2, <3>3, <3>4
    <2>4. Camino(Tail(q), M, s[2], t[2], i, j, s2, t2)
      BY <1>5, <1>13, <2>1, <2>2, <2>3 DEF Camino
    <2> QED BY <1>2, <1>4, <2>4 DEF Tubo
  <1>15. /\ b = Len(M[k]) => s[2] = k + 1 /\ t[2] = 0
         /\ b < Len(M[k]) => s[2] = k /\ t[2] = b + 1
    <2>1. 1 \in 1 .. N + 1 /\ 1 + 1 = 2
      BY <1>3
    <2> QED BY <1>7, <1>8, <2>1
  <1>16. b \in 0 .. Len(M[k]) /\ (b = Len(M[k]) \/ b < Len(M[k]))
    BY <1>10, <1>11
  <1> QED BY <1>4, <1>10, <1>12, <1>14, <1>15, <1>16

\* Arithmetic of the next lemma.
LEMMA Restan ==
  ASSUME NEW j \in Nat, NEW n \in Nat, NEW N \in Nat, n > N + 1
  PROVE  (j + n) - (N + 1) \in Nat /\ ((j + n) - (N + 1)) + (N + 1) = j + n
  OBVIOUS

LEMMA EnElTramo ==
  ASSUME NEW N \in Nat, NEW r \in Nat, NEW n \in N + 1 .. N + r
  PROVE  /\ n \in Nat /\ n # N + r + 1 /\ (n = N + 1 \/ (n > N + 1 /\ ~(n <= N + 1)))
  OBVIOUS

LEMMA Tramos ==
  ASSUME NEW N \in Nat, NEW r \in Nat, NEW n \in 1 .. N + r + 1
  PROVE  /\ n \in Nat
         /\ \/ n \in 1 .. N + 1
            \/ n > N + 1 /\ n \in N + 1 .. N + r
            \/ n > N + 1 /\ n = N + r + 1
  OBVIOUS

\* Stream p is q and r bytes more of string i, after the first j.
Sigue(p, q, M, i, j, r) ==
  /\ p \in Flujos /\ Len(p) = Len(q) + r
  /\ r \in 1 .. Len(M[i]) + 1 - j
  /\ \A n \in 1 .. Len(q) : p[n] = q[n]
  /\ \A n \in 1 .. r : p[Len(q) + n] = Cadena(M[i])[j + n]

\* The writer sends r bytes more of string i, and with the last of them it goes
\* on to the next string.
LEMMA TuboEscribe ==
  ASSUME NEW q, NEW M, NEW k, NEW b, NEW i \in 1 .. Len(M), NEW j,
         j <= Len(M[i]), Tubo(q, M, k, b, i, j),
         NEW r, NEW p, Sigue(p, q, M, i, j, r)
  PROVE  IF r = Len(M[i]) + 1 - j THEN Tubo(p, M, k, b, i + 1, 0)
         ELSE Tubo(p, M, k, b, i, j + r)
  <1>1. PICK s, t : Camino(q, M, k, b, i, j, s, t)
    BY DEF Tubo
  <1> DEFINE N == Len(q)
             L == Len(M[i])
             i2 == IF r = L + 1 - j THEN i + 1 ELSE i
             j2 == IF r = L + 1 - j THEN 0 ELSE j + r
             s2 == [n \in Nat |-> IF n <= N + 1 THEN s[n]
                                  ELSE IF n = N + r + 1 THEN i2 ELSE i]
             t2 == [n \in Nat |-> IF n <= N + 1 THEN t[n]
                                  ELSE IF n = N + r + 1 THEN j2 ELSE (j + n) - (N + 1)]
  <1>2. q \in Flujos /\ M \in Seq(Seq(Bytes)) /\ Len(M) \in Nat
    BY DEF Tubo
  <1>3. /\ N \in Nat /\ L \in Nat /\ i \in Nat /\ i \in 1 .. Len(M) /\ j \in Nat
        /\ r \in Nat /\ r >= 1 /\ j + r <= L + 1
    <2>1. N \in Nat /\ j \in Nat
      BY <1>2, TuboOrden DEF Flujos
    <2>2. L \in Nat
      BY <1>2
    <2>3. r \in 1 .. L + 1 - j
      BY DEF Sigue
    <2> QED BY <2>1, <2>2, <2>3
  <1>4. /\ s \in [Nat -> Nat] /\ t \in [Nat -> Nat]
        /\ s[1] = k /\ t[1] = b /\ s[N + 1] = i /\ t[N + 1] = j
    BY <1>1 DEF Camino
  <1>5. ASSUME NEW n \in 1 .. N
        PROVE  /\ s[n] \in 1 .. Len(M) /\ t[n] <= Len(M[s[n]])
               /\ q[n] = Cadena(M[s[n]])[t[n] + 1]
               /\ t[n] = Len(M[s[n]]) => s[n + 1] = s[n] + 1 /\ t[n + 1] = 0
               /\ t[n] < Len(M[s[n]]) => s[n + 1] = s[n] /\ t[n + 1] = t[n] + 1
    BY <1>1, <1>5 DEF Camino
  <1>6. ASSUME NEW n \in 1 .. N + 1, NEW o \in 1 .. N + 1, n <= o
        PROVE  s[n] <= s[o] /\ (s[n] = s[o] => t[n] + o = t[o] + n)
    BY <1>1, <1>6 DEF Camino
  <1>7. /\ \A n \in 1 .. N : p[n] = q[n]
        /\ \A n \in 1 .. r : p[N + n] = Cadena(M[i])[j + n]
        /\ Len(p) = N + r /\ p \in Flujos
    BY DEF Sigue
  <1>8. /\ r = L + 1 - j => i2 = i + 1 /\ j2 = 0
        /\ r < L + 1 - j => i2 = i /\ j2 = j + r
        /\ i2 \in Nat /\ j2 \in Nat
    BY <1>3
  <1> HIDE DEF N, L, i2, j2
  <1>9. /\ s2 \in [Nat -> Nat] /\ t2 \in [Nat -> Nat]
        /\ \A n \in 1 .. N + 1 : s2[n] = s[n] /\ t2[n] = t[n]
        /\ \A n \in N + 1 .. N + r : s2[n] = i /\ t2[n] + (N + 1) = j + n
        /\ s2[N + r + 1] = i2 /\ t2[N + r + 1] = j2
    <2>1. ASSUME NEW n \in Nat
          PROVE  /\ s[n] \in Nat /\ t[n] \in Nat
                 /\ n > N + 1 => (j + n) - (N + 1) \in Nat
      BY <1>3, <1>4, Restan
    <2>2. s2 \in [Nat -> Nat] /\ t2 \in [Nat -> Nat]
      <3>1. ASSUME NEW n \in Nat
            PROVE  /\ (IF n <= N + 1 THEN s[n]
                       ELSE IF n = N + r + 1 THEN i2 ELSE i) \in Nat
                   /\ (IF n <= N + 1 THEN t[n]
                       ELSE IF n = N + r + 1 THEN j2 ELSE (j + n) - (N + 1)) \in Nat
        BY <1>3, <1>8, <2>1
      <3> QED BY <3>1, Zenon
    <2>3. \A n \in Nat : /\ s2[n] = IF n <= N + 1 THEN s[n]
                                    ELSE IF n = N + r + 1 THEN i2 ELSE i
                         /\ t2[n] = IF n <= N + 1 THEN t[n]
                                    ELSE IF n = N + r + 1 THEN j2 ELSE (j + n) - (N + 1)
      BY Zenon
    <2> HIDE DEF s2, t2
    <2>4. ASSUME NEW n \in 1 .. N + 1 PROVE s2[n] = s[n] /\ t2[n] = t[n]
      <3>1. n \in Nat /\ n <= N + 1
        BY <1>3
      <3> QED BY <2>3, <3>1
    <2>5. ASSUME NEW n \in N + 1 .. N + r PROVE s2[n] = i /\ t2[n] + (N + 1) = j + n
      <3>1. n \in Nat /\ n # N + r + 1 /\ (n = N + 1 \/ (n > N + 1 /\ ~(n <= N + 1)))
        BY <1>3, EnElTramo
      <3>2. CASE n = N + 1
        <4>1. N + 1 <= N + 1 /\ j + (N + 1) = j + n
          BY <1>3, <3>2
        <4> QED BY <1>4, <2>3, <3>1, <3>2, <4>1
      <3>3. CASE n > N + 1 /\ ~(n <= N + 1)
        <4>1. s2[n] = i /\ t2[n] = (j + n) - (N + 1)
          BY <2>3, <3>1, <3>3
        <4> QED BY <1>3, <3>1, <3>3, <4>1, Restan
      <3> QED BY <3>1, <3>2, <3>3
    <2>6. s2[N + r + 1] = i2 /\ t2[N + r + 1] = j2
      <3>1. N + r + 1 \in Nat /\ ~(N + r + 1 <= N + 1)
        BY <1>3
      <3> QED BY <2>3, <3>1
    <2> QED BY <2>2, <2>4, <2>5, <2>6
  <1> HIDE DEF s2, t2
  <1>10. ASSUME NEW n \in 1 .. N + r
         PROVE  /\ s2[n] \in 1 .. Len(M) /\ t2[n] <= Len(M[s2[n]])
                /\ p[n] = Cadena(M[s2[n]])[t2[n] + 1]
                /\ t2[n] = Len(M[s2[n]]) => s2[n + 1] = s2[n] + 1 /\ t2[n + 1] = 0
                /\ t2[n] < Len(M[s2[n]]) => s2[n + 1] = s2[n] /\ t2[n + 1] = t2[n] + 1
    <2>1. CASE n <= N
      <3>1. n \in 1 .. N /\ n \in 1 .. N + 1 /\ n + 1 \in 1 .. N + 1
        BY <1>3, <2>1
      <3>2. s2[n] = s[n] /\ t2[n] = t[n] /\ s2[n + 1] = s[n + 1] /\ t2[n + 1] = t[n + 1]
        BY <1>9, <3>1
      <3> QED BY <1>5, <1>7, <3>1, <3>2
    <2>2. CASE n > N
      <3> DEFINE d == n - N
      <3>1. d \in 1 .. r /\ n = N + d /\ n \in N + 1 .. N + r /\ n \in Nat
        BY <1>3, <2>2
      <3> HIDE DEF d
      <3>2. s2[n] = i /\ t2[n] + 1 = j + d /\ t2[n] \in Nat
        <4>1. s2[n] = i /\ t2[n] + (N + 1) = j + n /\ t2[n] \in Nat
          BY <1>9, <3>1
        <4> QED BY <1>3, <3>1, <4>1
      <3>3. p[n] = Cadena(M[i])[j + d]
        BY <1>7, <3>1
      <3>4. t2[n] <= L
        BY <1>3, <3>1, <3>2
      <3>5. CASE d = r
        <4>1. n + 1 = N + r + 1
          BY <1>3, <3>1, <3>5
        <4>2. s2[n + 1] = i2 /\ t2[n + 1] = j2
          BY <1>9, <4>1
        <4>3. /\ t2[n] = L => s2[n + 1] = i + 1 /\ t2[n + 1] = 0
              /\ t2[n] < L => s2[n + 1] = i /\ t2[n + 1] = t2[n] + 1
          <5>1. (t2[n] = L <=> r = L + 1 - j) /\ (t2[n] < L <=> r < L + 1 - j)
            BY <1>3, <3>1, <3>2, <3>5
          <5>2. t2[n] + 1 = j + r
            BY <3>2, <3>5
          <5> QED BY <1>8, <4>2, <5>1, <5>2
        <4> QED BY <1>3, <3>2, <3>3, <3>4, <4>3 DEF L
      <3>6. CASE d < r
        <4>1. n + 1 \in N + 1 .. N + r
          BY <1>3, <3>1, <3>6
        <4>2. /\ s2[n + 1] = i /\ t2[n + 1] + (N + 1) = j + (n + 1)
              /\ n + 1 \in Nat
          <5>1. s2[n + 1] = i /\ t2[n + 1] + (N + 1) = j + (n + 1)
            BY <1>9, <4>1
          <5> QED BY <3>1, <5>1
        <4>4. t2[n + 1] \in Nat
          BY <1>9, <4>2
        <4>3. t2[n + 1] = t2[n] + 1 /\ t2[n] < L
          <5>1. N \in Nat /\ j \in Nat /\ d \in Nat /\ d < r /\ j + r <= L + 1 /\ L \in Nat
                /\ r \in Nat
            BY <1>3, <3>1, <3>6
          <5>2. n = N + d /\ n \in Nat
            BY <3>1
          <5>3. t2[n + 1] = t2[n] + 1
            <6>1. PICK u \in Nat, v \in Nat : u = t2[n] /\ v = t2[n + 1]
              BY <3>2, <4>4
            <6>2. v + (N + 1) = j + (n + 1) /\ u + 1 = j + d
              BY <3>2, <4>2, <6>1
            <6>3. v = u + 1
              BY <5>1, <5>2, <6>2
            <6> QED BY <6>1, <6>3, Zenon
          <5> QED BY <3>2, <5>1, <5>3
        <4> QED BY SMTT(30), <1>3, <3>2, <3>3, <3>4, <4>2, <4>3 DEF L
      <3> QED BY <1>3, <3>1, <3>5, <3>6
    <2> QED BY <1>3, <2>1, <2>2
  <1>11. ASSUME NEW n \in 1 .. N + r + 1, NEW o \in 1 .. N + r + 1, n <= o
         PROVE  s2[n] <= s2[o] /\ (s2[n] = s2[o] => t2[n] + o = t2[o] + n)
    <2>1. ASSUME NEW x \in 1 .. N + r + 1
          PROVE  \/ x \in 1 .. N + 1 /\ s2[x] = s[x] /\ t2[x] = t[x]
                 \/ x > N + 1 /\ s2[x] = i /\ t2[x] + (N + 1) = j + x
                 \/ x = N + r + 1 /\ s2[x] = i + 1 /\ t2[x] = 0
      <3>1. CASE x \in 1 .. N + 1
        BY <1>9, <3>1
      <3>2. CASE x > N + 1 /\ x \in N + 1 .. N + r
        BY <1>9, <3>2
      <3>3. CASE x > N + 1 /\ x = N + r + 1
        <4>1. s2[x] = i2 /\ t2[x] = j2
          BY <1>9, <3>3
        <4>2. r = L + 1 - j \/ r < L + 1 - j
          BY <1>3
        <4>3. r < L + 1 - j => (j + r) + (N + 1) = j + x
          BY <1>3, <3>3
        <4> QED BY <1>8, <3>3, <4>1, <4>2, <4>3
      <3> QED BY <1>3, <3>1, <3>2, <3>3, Tramos
    <2>2. n \in Nat /\ o \in Nat /\ t2[n] \in Nat /\ t2[o] \in Nat
      <3>1. n \in Nat /\ o \in Nat
        BY <1>3, Tramos
      <3> QED BY <1>9, <3>1
    <2>3. CASE o \in 1 .. N + 1
      <3>1. n \in 1 .. N + 1
        BY <1>3, <1>11, <2>2, <2>3
      <3>2. s2[n] = s[n] /\ t2[n] = t[n] /\ s2[o] = s[o] /\ t2[o] = t[o]
        BY <1>9, <2>3, <3>1
      <3> QED BY <1>6, <1>11, <2>3, <3>1, <3>2
    <2>4. CASE n \in 1 .. N + 1 /\ o > N + 1
      <3>1. s2[n] = s[n] /\ t2[n] = t[n] /\ s[n] \in Nat /\ t[n] \in Nat
        BY <1>4, <1>9, <2>2, <2>4
      <3>2. N + 1 \in 1 .. N + 1 /\ n <= N + 1
        BY <1>3, <2>4
      <3>3. s[n] <= i /\ (s[n] = i => t[n] + (N + 1) = j + n)
        BY <1>4, <1>6, <2>4, <3>2
      <3>4. \/ s2[o] = i /\ t2[o] + (N + 1) = j + o
            \/ s2[o] = i + 1 /\ t2[o] = 0
        BY <1>3, <2>1, <2>2, <2>4
      <3>5. /\ s2[n] <= i /\ i <= i + 1 /\ (s2[n] = i => t2[n] + (N + 1) = j + n)
            /\ s2[n] # i + 1
        BY <1>3, <3>1, <3>3
      <3>6. s2[n] = i /\ t2[o] + (N + 1) = j + o => t2[n] + o = t2[o] + n
        <4>1. N \in Nat /\ j \in Nat
          BY <1>3
        <4>2. s2[n] = i => t2[n] + (N + 1) = j + n
          BY <3>5
        <4>3. PICK u \in Nat, v \in Nat : u = t2[n] /\ v = t2[o]
          BY <2>2
        <4>4. u + (N + 1) = j + n /\ v + (N + 1) = j + o => u + o = v + n
          BY <2>2, <4>1
        <4> QED BY <4>2, <4>3, <4>4, Zenon
      <3>7. s2[n] <= s2[o]
        BY <1>3, <3>1, <3>4, <3>5
      <3> QED BY <3>4, <3>5, <3>6, <3>7
    <2>5. CASE n > N + 1 /\ o > N + 1
      <3>1. \/ s2[n] = i /\ t2[n] + (N + 1) = j + n
            \/ n = N + r + 1 /\ s2[n] = i + 1 /\ t2[n] = 0
        BY <1>3, <2>1, <2>2, <2>5
      <3>2. \/ s2[o] = i /\ t2[o] + (N + 1) = j + o
            \/ o = N + r + 1 /\ s2[o] = i + 1 /\ t2[o] = 0
        BY <1>3, <2>1, <2>2, <2>5
      <3>3. n = N + r + 1 => o = n
        BY <1>3, <1>11, <2>2
      <3>4. CASE s2[n] = i /\ t2[n] + (N + 1) = j + n
        <4>1. t2[o] + (N + 1) = j + o => t2[n] + o = t2[o] + n
          <5>1. N \in Nat /\ j \in Nat
            BY <1>3
          <5>2. t2[n] + (N + 1) = j + n
            BY <3>4
          <5>3. PICK u \in Nat, v \in Nat : u = t2[n] /\ v = t2[o]
            BY <2>2
          <5>4. u + (N + 1) = j + n /\ v + (N + 1) = j + o => u + o = v + n
            BY <2>2, <5>1
          <5> QED BY <5>2, <5>3, <5>4, Zenon
        <4>2. i <= i + 1 /\ i <= i /\ i # i + 1
          BY <1>3
        <4> QED BY <3>2, <3>4, <4>1, <4>2
      <3>5. CASE n = o
        <4>1. s2[n] \in Nat
          BY <1>9, <2>2
        <4>2. s2[n] <= s2[n]
          BY <4>1
        <4> QED BY <3>5, <4>2
      <3> QED BY <3>1, <3>3, <3>4, <3>5
    <2> QED BY <1>3, <1>11, <2>2, <2>3, <2>4, <2>5
  <1>12. Camino(p, M, k, b, i2, j2, s2, t2)
    <2>1. s2[1] = k /\ t2[1] = b
      <3>1. 1 \in 1 .. N + 1
        BY <1>3
      <3> QED BY <1>4, <1>9, <3>1
    <2> QED BY <1>7, <1>9, <1>10, <1>11, <2>1 DEF Camino
  <1>13. Tubo(p, M, k, b, i2, j2)
    BY <1>2, <1>7, <1>12 DEF Tubo
  <1> QED BY <1>13 DEF i2, j2, L

\* The stream of the last string.
LEMMA TuboUltima ==
  ASSUME NEW q, NEW M, NEW i, NEW j, Tubo(q, M, Len(M), 0, i, j)
  PROVE  IsPrefix(q, Cadena(M[Len(M)]))
  <1>1. PICK s, t : Camino(q, M, Len(M), 0, i, j, s, t)
    BY DEF Tubo
  <1>2. q \in Flujos /\ M \in Seq(Seq(Bytes)) /\ Len(M) \in Nat /\ Len(q) \in Nat
    BY DEF Tubo, Flujos
  <1>3. s \in [Nat -> Nat] /\ t \in [Nat -> Nat] /\ s[1] = Len(M) /\ t[1] = 0
    BY <1>1 DEF Camino
  <1>4. ASSUME NEW n \in 1 .. Len(q)
        PROVE  /\ q[n] = Cadena(M[Len(M)])[n] /\ Len(M) \in 1 .. Len(M)
               /\ n <= Len(M[Len(M)]) + 1
    <2>1. /\ s[n] \in 1 .. Len(M) /\ t[n] <= Len(M[s[n]])
          /\ q[n] = Cadena(M[s[n]])[t[n] + 1]
      BY <1>1 DEF Camino
    <2>2. 1 \in 1 .. Len(q) + 1 /\ n \in 1 .. Len(q) + 1 /\ 1 <= n /\ n \in Nat
      BY <1>2
    <2>3. s[1] <= s[n] /\ (s[1] = s[n] => t[1] + n = t[n] + 1)
      BY <1>1, <2>2 DEF Camino
    <2>4. s[n] = Len(M) /\ t[n] + 1 = n
      BY <1>2, <1>3, <2>1, <2>2, <2>3
    <2>5. Len(M[Len(M)]) \in Nat
      BY <1>2, <2>1, <2>4
    <2>6. q[n] = Cadena(M[Len(M)])[n] /\ Len(M) \in 1 .. Len(M)
      BY <2>1, <2>4
    <2>7. t[n] <= Len(M[Len(M)]) /\ t[n] \in Nat
      BY <1>3, <2>1, <2>2, <2>4
    <2> QED BY <2>2, <2>4, <2>5, <2>6, <2>7
  <1>5. CASE q = <<>>
    <2>1. Len(q) = 0 /\ 1 .. 0 = {}
      BY <1>5
    <2> QED BY <1>5, <2>1 DEF IsPrefix
  <1>6. CASE q # <<>>
    <2>1. Len(q) >= 1 /\ Len(q) \in 1 .. Len(q)
      BY <1>2, <1>6 DEF Flujos
    <2>2. M[Len(M)] \in Seq(Bytes) /\ Len(M[Len(M)]) \in Nat
      BY <1>2, <1>4, <2>1
    <2>3. Len(q) <= Len(Cadena(M[Len(M)]))
      BY <1>2, <1>4, <2>1, <2>2, CadenaForma
    <2> QED BY <1>2, <1>4, <2>3 DEF IsPrefix
  <1> QED BY <1>5, <1>6

-------------------------------------------------------------------------------
(* Lines, fields and strings. *)

\* What readLine keeps of a string, and of string i of the request.
Cabe(s) == SubSeq(s, 1, IF Len(s) < MAX_MSG THEN Len(s) ELSE MAX_MSG - 1)
Escrito(i) == Cabe(cliente.sol[i])

\* What readLine has kept after b bytes of s.
Leido(s, b) == SubSeq(s, 1, IF b < MAX_MSG THEN b ELSE MAX_MSG - 1)

LEMMA LeidoNada == ASSUME NEW s PROVE Leido(s, 0) = <<>>
  <1>1. MAX_MSG \in Nat /\ 0 < MAX_MSG
    BY LineasAssumption DEF FECHA
  <1>2. SubSeq(s, 1, 0) = <<>>
    BY SubSeqEmpty
  <1> QED BY <1>1, <1>2 DEF Leido

LEMMA LeidoTodo == ASSUME NEW s PROVE Leido(s, Len(s)) = Cabe(s)
  BY DEF Leido, Cabe

LEMMA LeidoForma ==
  ASSUME NEW S, NEW s \in Seq(S), NEW b \in 0 .. Len(s)
  PROVE  /\ Leido(s, b) \in Seq(S)
         /\ Len(Leido(s, b)) = IF b < MAX_MSG THEN b ELSE MAX_MSG - 1
         /\ Len(Leido(s, b)) <= b
         /\ IsPrefix(Leido(s, b), s)
  <1> DEFINE n == IF b < MAX_MSG THEN b ELSE MAX_MSG - 1
  <1>1. MAX_MSG \in Nat /\ 0 < MAX_MSG
    BY LineasAssumption DEF FECHA
  <1>2. Len(s) \in Nat /\ b \in Nat /\ b <= Len(s)
    OBVIOUS
  <1>3. n \in Nat /\ n <= b /\ n \in 0 .. Len(s)
    BY <1>1, <1>2
  <1> HIDE DEF n
  <1>4. 1 \in Int /\ n \in Int /\ \A i \in 1 .. n : s[i] \in S
    BY <1>2, <1>3
  <1>5. SubSeq(s, 1, n) \in Seq(S) /\ Len(SubSeq(s, 1, n)) = n
    <2>1. /\ SubSeq(s, 1, n) \in Seq(S)
          /\ Len(SubSeq(s, 1, n)) = IF 1 <= n THEN n - 1 + 1 ELSE 0
      BY <1>4, SubSeqProperties
    <2> QED BY <1>3, <2>1
  <1>6. SubSeq(SubSeq(s, 1, n), 1, n) = SubSeq(s, 1, n)
    BY <1>5, SubSeqFull
  <1> QED BY <1>2, <1>3, <1>5, <1>6 DEF Leido, IsPrefix, n

\* One byte more.
LEMMA LeidoSigue ==
  ASSUME NEW S, NEW s \in Seq(S), NEW b \in 0 .. Len(s) - 1
  PROVE  Leido(s, b + 1) = IF Len(Leido(s, b)) < MAX_MSG - 1
                           THEN Append(Leido(s, b), s[b + 1]) ELSE Leido(s, b)
  <1>1. MAX_MSG \in Nat /\ 0 < MAX_MSG
    BY LineasAssumption DEF FECHA
  <1>2. Len(s) \in Nat /\ b \in Nat /\ b + 1 \in 1 .. Len(s) /\ b \in 0 .. Len(s)
    OBVIOUS
  <1>3. /\ Leido(s, b) \in Seq(S)
        /\ Len(Leido(s, b)) = IF b < MAX_MSG THEN b ELSE MAX_MSG - 1
    BY <1>2, LeidoForma
  <1>4. CASE b < MAX_MSG - 1
    <2>1. Len(Leido(s, b)) = b /\ Leido(s, b) = SubSeq(s, 1, b)
      BY <1>1, <1>2, <1>3, <1>4 DEF Leido
    <2>2. Leido(s, b + 1) = SubSeq(s, 1, b + 1)
      BY <1>1, <1>2, <1>4 DEF Leido
    <2>3. 1 \in 1 .. Len(s) /\ b + 1 \in 1 .. Len(s) /\ (b + 1) - 1 = b
      BY <1>2
    <2>4. SubSeq(s, 1, b + 1) = SubSeq(s, 1, b) \o <<s[b + 1]>>
      BY <2>3, SubSeqRecursiveSecond
    <2>5. s[b + 1] \in S
      BY <1>2
    <2>6. Append(Leido(s, b), s[b + 1]) = Leido(s, b) \o <<s[b + 1]>>
      BY <1>3, <2>5
    <2> QED BY <1>4, <2>1, <2>2, <2>4, <2>6
  <1>5. CASE ~(b < MAX_MSG - 1)
    <2>1. /\ (IF b < MAX_MSG THEN b ELSE MAX_MSG - 1) = MAX_MSG - 1
          /\ (IF b + 1 < MAX_MSG THEN b + 1 ELSE MAX_MSG - 1) = MAX_MSG - 1
          /\ ~(MAX_MSG - 1 < MAX_MSG - 1)
      BY <1>1, <1>2, <1>5
    <2>2. Leido(s, b + 1) = Leido(s, b) /\ Len(Leido(s, b)) = MAX_MSG - 1
      BY <1>3, <2>1 DEF Leido
    <2> QED BY <2>1, <2>2
  <1> QED BY <1>4, <1>5

\* A line that the end of the stream cuts is the beginning of the field.
LEMMA LeidoPrefijo ==
  ASSUME NEW S, NEW s \in Seq(S), NEW b \in 0 .. Len(s)
  PROVE  IsPrefix(Leido(s, b), Cabe(s))
  <1> DEFINE n == IF b < MAX_MSG THEN b ELSE MAX_MSG - 1
             m == IF Len(s) < MAX_MSG THEN Len(s) ELSE MAX_MSG - 1
  <1>1. MAX_MSG \in Nat /\ 0 < MAX_MSG
    BY LineasAssumption DEF FECHA
  <1>2. Len(s) \in Nat /\ Len(s) \in 0 .. Len(s) /\ b \in Nat /\ b <= Len(s)
    OBVIOUS
  <1>3. Cabe(s) \in Seq(S) /\ Len(Cabe(s)) = m /\ Cabe(s) = SubSeq(s, 1, m)
    <2>1. Leido(s, Len(s)) = Cabe(s) /\ Leido(s, Len(s)) = SubSeq(s, 1, m)
      BY LeidoTodo DEF Leido
    <2>2. Leido(s, Len(s)) \in Seq(S) /\ Len(Leido(s, Len(s))) = m
      BY <1>2, LeidoForma
    <2> HIDE DEF m
    <2> QED BY <2>1, <2>2, Zenon
  <1>4. Leido(s, b) \in Seq(S) /\ Len(Leido(s, b)) = n /\ Leido(s, b) = SubSeq(s, 1, n)
    BY LeidoForma DEF Leido
  <1>5. n \in Nat /\ m \in Nat /\ n <= m /\ m <= Len(s)
    BY <1>1, <1>2
  <1> HIDE DEF n, m
  <1>6. SubSeq(Leido(s, b), 1, n) = Leido(s, b)
    BY <1>4, SubSeqFull
  <1>7. CASE n = 0
    <2>1. SubSeq(Cabe(s), 1, n) = <<>> /\ Leido(s, b) = <<>>
      BY <1>4, <1>7, SubSeqEmpty
    <2> QED BY <1>3, <1>4, <1>5, <1>6, <1>7, <2>1 DEF IsPrefix
  <1>8. CASE n # 0
    <2>1. /\ 1 \in 1 .. Len(s) /\ m \in 1 .. Len(s) /\ 1 \in 1 .. m - 1 + 1
          /\ n \in 1 .. m - 1 + 1 /\ 1 + 1 - 1 = 1 /\ 1 + n - 1 = n
      BY <1>2, <1>5, <1>8
    <2>2. SubSeq(SubSeq(s, 1, m), 1, n) = SubSeq(s, 1 + 1 - 1, 1 + n - 1)
      BY <2>1, SubSeqOfSubSeq
    <2>3. SubSeq(Cabe(s), 1, n) = SubSeq(s, 1, n)
      BY <1>3, <2>1, <2>2
    <2> QED BY <1>3, <1>4, <1>5, <1>6, <2>3 DEF IsPrefix
  <1> QED BY <1>7, <1>8

LEMMA PrefijoDeSi == ASSUME NEW S, NEW s \in Seq(S) PROVE IsPrefix(s, s)
  BY DEF IsPrefix

\* The date fits in its line.
LEMMA FechaCabe ==
  /\ FECHA \in Seq(Bytes) /\ Len(FECHA) = 3 /\ Cabe(FECHA) = FECHA
  <1>1. FECHA \in Seq(Bytes) /\ Len(FECHA) = 3
    BY DEF FECHA, Bytes
  <1>2. Len(FECHA) < MAX_MSG
    BY LineasAssumption
  <1>3. SubSeq(FECHA, 1, Len(FECHA)) = FECHA
    BY <1>1, SubSeqFull
  <1> QED BY <1>1, <1>2, <1>3 DEF Cabe

LEMMA PegaUno ==
  ASSUME NEW a, NEW b, NEW c
  PROVE  <<a, b>> \o <<c>> = <<a, b, c>>
  <1> DEFINE u == <<a, b>> \o <<c>>
             v == <<a, b, c>>
             S == {a, b, c}
  <1>1. <<a, b>> \in Seq(S) /\ <<c>> \in Seq(S) /\ v \in Seq(S)
    OBVIOUS
  <1>2. u \in Seq(S) /\ Len(u) = 3 /\ Len(v) = 3
    BY <1>1
  <1>3. \A i \in 1 .. 3 : u[i] = v[i]
    BY <1>1, <1>2
  <1> HIDE DEF u, v, S
  <1>4. u = v
    BY <1>1, <1>2, <1>3, SeqEqual
  <1> QED BY <1>4 DEF u, v

LEMMA PegaDos ==
  ASSUME NEW a, NEW b, NEW c, NEW d
  PROVE  <<a, b>> \o <<c, d>> = <<a, b, c, d>>
  <1> DEFINE u == <<a, b>> \o <<c, d>>
             v == <<a, b, c, d>>
             S == {a, b, c, d}
  <1>1. <<a, b>> \in Seq(S) /\ <<c, d>> \in Seq(S) /\ v \in Seq(S)
    OBVIOUS
  <1>2. u \in Seq(S) /\ Len(u) = 4 /\ Len(v) = 4
    BY <1>1
  <1>3. \A i \in 1 .. 4 : u[i] = v[i]
    BY <1>1, <1>2
  <1> HIDE DEF u, v, S
  <1>4. u = v
    BY <1>1, <1>2, <1>3, SeqEqual
  <1> QED BY <1>4 DEF u, v

LEMMA CamposTodos ==
  Campos = {"command_str", "client_user_name", "user_ip", "user_port",
            "description", "file_name", "user_name"}
  BY DEF Campos, Lugar

LEMMA LugarForma ==
  ASSUME NEW c \in Campos
  PROVE  /\ Lugar[c] \in 0 .. 6
         /\ \A x \in Campos : Lugar[x] = Lugar[c] => x = c
         /\ Lugar[c] = 0 <=> c = "command_str"
  BY CamposTodos DEF Lugar

\* Two places are MAX_STR bytes from each other, or more.
LEMMA Distancia ==
  ASSUME NEW k \in 0 .. 6, NEW l \in 0 .. 6
  PROVE  /\ MAX_STR * (k - l) \in Int
         /\ k = l => MAX_STR * (k - l) = 0
         /\ k > l => MAX_STR * (k - l) >= MAX_STR
         /\ k < l => MAX_STR * (k - l) <= 0 - MAX_STR
  <1>1. MAX_STR \in Nat
    BY LineasAssumption
  <1>2. PICK m \in -6 .. 6 : m = k - l
    OBVIOUS
  <1>3. m \in {-6, -5, -4, -3, -2, -1, 0, 1, 2, 3, 4, 5, 6}
    OBVIOUS
  <1>4. /\ MAX_STR * m \in Int
        /\ m = 0 => MAX_STR * m = 0
        /\ m > 0 => MAX_STR * m >= MAX_STR
        /\ m < 0 => MAX_STR * m <= 0 - MAX_STR
    BY <1>1, <1>3
  <1> QED BY <1>2, <1>4

\* A line that fits its field changes that one only.
LEMMA EscribeCabe ==
  ASSUME NEW p, p = [x \in Campos |-> p[x]],
         \A x \in Campos : Len(p[x]) \in Nat /\ Len(p[x]) < MAX_STR,
         NEW c \in Campos, NEW S, NEW linea \in Seq(S), Len(linea) < MAX_STR
  PROVE  Escribe(p, c, linea) = [p EXCEPT ![c] = linea]
  <1>1. ASSUME NEW x \in Campos
        PROVE  Escribe(p, c, linea)[x] = IF x = c THEN linea ELSE p[x]
    <2> DEFINE d == MAX_STR * (Lugar[c] - Lugar[x])
    <2>1. Lugar[c] \in 0 .. 6 /\ Lugar[x] \in 0 .. 6 /\ (Lugar[x] = Lugar[c] => x = c)
      BY LugarForma
    <2>2. /\ d \in Int
          /\ x = c => d = 0
          /\ x # c => d >= MAX_STR \/ d <= 0 - MAX_STR
      <3>1. PICK k \in 0 .. 6, l \in 0 .. 6 : k = Lugar[c] /\ l = Lugar[x]
        BY <2>1
      <3>2. d = MAX_STR * (k - l) /\ (x = c => k = l) /\ (x # c => k > l \/ k < l)
        BY <2>1, <3>1
      <3> HIDE DEF d
      <3> QED BY <3>2, Distancia
    <2>3. Escribe(p, c, linea)[x] =
            IF d >= 0 THEN IF Len(p[x]) >= d THEN SubSeq(p[x], 1, d) \o linea ELSE p[x]
            ELSE IF Len(linea) + d >= 0 THEN SubSeq(linea, 1 - d, Len(linea)) ELSE p[x]
      BY DEF Escribe
    <2> HIDE DEF d
    <2>4. CASE x = c
      <3>1. d = 0 /\ SubSeq(p[x], 1, 0) = <<>> /\ Len(p[x]) >= 0
        BY <2>2, <2>4, SubSeqEmpty
      <3>2. Escribe(p, c, linea)[x] = <<>> \o linea
        BY <2>3, <3>1
      <3> QED BY <2>4, <3>2
    <2>5. CASE x # c
      <3>1. /\ Len(p[x]) \in Nat /\ Len(linea) \in Nat /\ MAX_STR \in Nat
            /\ ~(d >= 0 /\ Len(p[x]) >= d) /\ ~(d < 0 /\ Len(linea) + d >= 0)
        BY <2>2, <2>5, LineasAssumption
      <3> QED BY <2>2, <2>3, <2>5, <3>1
    <2> QED BY <2>4, <2>5
  <1>2. Escribe(p, c, linea) = [x \in Campos |-> Escribe(p, c, linea)[x]]
    BY DEF Escribe
  <1> QED BY <1>1, <1>2

\* A line never runs over a field before its own that ends in its place.
LEMMA EscribeDetras ==
  ASSUME NEW p, NEW c \in Campos, c # "command_str", NEW linea,
         Len(p["command_str"]) \in Nat, Len(p["command_str"]) < MAX_STR
  PROVE  Escribe(p, c, linea)["command_str"] = p["command_str"]
  <1> DEFINE d == MAX_STR * (Lugar[c] - Lugar["command_str"])
  <1>1. /\ "command_str" \in Campos /\ Lugar["command_str"] = 0
        /\ Lugar[c] \in 0 .. 6 /\ Lugar[c] > 0
    BY CamposTodos, LugarForma
  <1>2. d \in Int /\ d >= MAX_STR /\ MAX_STR \in Nat
    BY <1>1, Distancia, LineasAssumption
  <1>3. Escribe(p, c, linea)["command_str"] =
          IF d >= 0 THEN IF Len(p["command_str"]) >= d
                         THEN SubSeq(p["command_str"], 1, d) \o linea
                         ELSE p["command_str"]
          ELSE IF Len(linea) + d >= 0 THEN SubSeq(linea, 1 - d, Len(linea))
          ELSE p["command_str"]
    BY <1>1 DEF Escribe
  <1> HIDE DEF d
  <1> QED BY <1>2, <1>3

\* The command is the first of all.
LEMMA EscribeComando ==
  ASSUME NEW p, NEW linea, Len(p["command_str"]) \in Nat
  PROVE  Escribe(p, "command_str", linea)["command_str"] = <<>> \o linea
  <1> DEFINE d == MAX_STR * (Lugar["command_str"] - Lugar["command_str"])
  <1>1. "command_str" \in Campos /\ Lugar["command_str"] = 0
    BY CamposTodos, LugarForma
  <1>2. d = 0
    BY <1>1, Distancia
  <1>3. Escribe(p, "command_str", linea)["command_str"] =
          IF d >= 0 THEN IF Len(p["command_str"]) >= d
                         THEN SubSeq(p["command_str"], 1, d) \o linea
                         ELSE p["command_str"]
          ELSE IF Len(linea) + d >= 0 THEN SubSeq(linea, 1 - d, Len(linea))
          ELSE p["command_str"]
    BY <1>1 DEF Escribe
  <1> HIDE DEF d
  <1>4. SubSeq(p["command_str"], 1, 0) = <<>> /\ Len(p["command_str"]) >= 0
    BY SubSeqEmpty
  <1>5. Escribe(p, "command_str", linea)["command_str"] = SubSeq(p["command_str"], 1, 0) \o linea
    <2>1. d >= 0 /\ Len(p["command_str"]) >= d
      BY <1>2, <1>4
    <2>2. Escribe(p, "command_str", linea)["command_str"] = SubSeq(p["command_str"], 1, d) \o linea
      BY <1>3, <2>1, Zenon
    <2> QED BY <1>2, <2>2, Zenon
  <1> QED BY <1>4, <1>5

\* The fields of a request, none of them twice.
LEMMA CamposForma ==
  ASSUME NEW com
  PROVE  /\ Len(CamposDe(com)) = Cuantas(com) /\ Cuantas(com) \in 2 .. 4
         /\ CamposDe(com) \in Seq(Campos)
         /\ CamposDe(com)[1] = "command_str"
         /\ \A x, y \in 1 .. Cuantas(com) : CamposDe(com)[x] = CamposDe(com)[y] => x = y
  <1> DEFINE S2 == <<"command_str", "client_user_name">>
             S3(f) == <<"command_str", "client_user_name", f>>
             S4(f, g) == <<"command_str", "client_user_name", f, g>>
             Bien(s, n) == /\ Len(s) = n /\ s \in Seq(Campos) /\ s[1] = "command_str"
                           /\ \A x, y \in 1 .. n : s[x] = s[y] => x = y
  <1>1. CONNECT # PUBLISH /\ CONNECT # DELETE /\ CONNECT # LIST_CONTENT
        /\ PUBLISH # DELETE /\ PUBLISH # LIST_CONTENT /\ DELETE # LIST_CONTENT
    BY DEF CONNECT, PUBLISH, DELETE, LIST_CONTENT
  <1>2. \/ CamposDe(com) = S4("user_ip", "user_port") /\ Cuantas(com) = 4
        \/ CamposDe(com) = S4("file_name", "description") /\ Cuantas(com) = 4
        \/ CamposDe(com) = S3("file_name") /\ Cuantas(com) = 3
        \/ CamposDe(com) = S3("user_name") /\ Cuantas(com) = 3
        \/ CamposDe(com) = S2 /\ Cuantas(com) = 2
    <2> DEFINE c == <<"command_str", "client_user_name">>
    <2>1. /\ c \o <<"user_ip", "user_port">> = S4("user_ip", "user_port")
          /\ c \o <<"file_name", "description">> = S4("file_name", "description")
      BY PegaDos
    <2>2. c \o <<"file_name">> = S3("file_name") /\ c \o <<"user_name">> = S3("user_name")
      BY PegaUno
    <2>3. c \o <<>> = S2
      OBVIOUS
    <2> HIDE DEF S2, S3, S4
    <2>4. CASE com = CONNECT
      BY <1>1, <2>1, <2>4 DEF CamposDe, Cuantas
    <2>5. CASE com = PUBLISH
      BY <1>1, <2>1, <2>5 DEF CamposDe, Cuantas
    <2>6. CASE com = DELETE
      BY <1>1, <2>2, <2>6 DEF CamposDe, Cuantas
    <2>7. CASE com = LIST_CONTENT
      BY <1>1, <2>2, <2>7 DEF CamposDe, Cuantas
    <2>8. CASE com \notin {CONNECT, PUBLISH, DELETE, LIST_CONTENT}
      BY <2>3, <2>8 DEF CamposDe, Cuantas
    <2> QED BY <2>4, <2>5, <2>6, <2>7, <2>8
  <1>3. Bien(S2, 2)
    BY CamposTodos
  <1>4. Bien(S3("file_name"), 3) /\ Bien(S3("user_name"), 3)
    BY CamposTodos
  <1>5. Bien(S4("user_ip", "user_port"), 4) /\ Bien(S4("file_name", "description"), 4)
    BY CamposTodos
  <1>6. Bien(CamposDe(com), Cuantas(com)) /\ Cuantas(com) \in 2 .. 4
    <2> HIDE DEF Bien, S2, S3, S4
    <2> QED BY <1>2, <1>3, <1>4, <1>5
  <1> QED BY <1>6

-------------------------------------------------------------------------------

\* How many strings the request has.
L == Len(cliente.sol)

\* The strings that the client writes.
LEMMA MensajesForma ==
  ASSUME cliente.sol \in Peticiones
  PROVE  /\ cliente.sol \in Seq(Seq(Bytes)) /\ L \in 2 .. 4 /\ L = Cuantas(cliente.sol[1])
         /\ Mensajes \in Seq(Seq(Bytes)) /\ Len(Mensajes) = L + 1
         /\ \A x \in 1 .. L : Mensajes[x] = cliente.sol[x]
         /\ Mensajes[L + 1] = FECHA
         /\ Len(cliente.sol[1]) < MAX_STR
         /\ \A x \in 1 .. L : cliente.sol[x] \in Seq(Bytes)
  <1>1. cliente.sol \in Seq(Seq(Letras)) /\ Letras \subseteq Bytes
    BY LineasAssumption DEF Bytes
  <1>2. cliente.sol \in Seq(Seq(Bytes))
    <2>1. Seq(Letras) \subseteq Seq(Bytes)
      BY <1>1
    <2> QED BY <1>1, <2>1
  <1>3. L = Cuantas(cliente.sol[1]) /\ Len(cliente.sol[1]) < MAX_STR /\ L \in 2 .. 4
    BY LineasAssumption, CamposForma DEF L
  <1> DEFINE s == cliente.sol
             F == FECHA
             m == Append(s, F)
  <1>4. F \in Seq(Bytes)
    BY FechaCabe
  <1>5. s \in Seq(Seq(Bytes)) /\ L = Len(s) /\ Mensajes = m
    BY <1>2 DEF L, Mensajes
  <1> HIDE DEF s, F
  <1>6. /\ m \in Seq(Seq(Bytes)) /\ Len(m) = Len(s) + 1 /\ m[Len(s) + 1] = F
        /\ \A x \in 1 .. Len(s) : m[x] = s[x] /\ s[x] \in Seq(Bytes)
    BY <1>4, <1>5
  <1> HIDE DEF m
  <1> QED BY <1>3, <1>5, <1>6 DEF s, F
===============================================================================
