---------------------------- MODULE LineasConversa ----------------------------
(***************************************************************************)
(* Proofs about Lineas: the server treats the request that its client      *)
(* wrote, or a clean cut of it, as long as the fields fit in their arrays, *)
(* and logs the date that was sent; the                                    *)
(* client takes for the answer what the server sent and all of it.  The    *)
(* inductive invariant places both programs on the same strings: the       *)
(* stream between them carries what one has written and the other has not  *)
(* read yet.                                                               *)
(***************************************************************************)
EXTENDS LineasProofs

\* The first n fields are the client's, and the others are as they were; of a
\* request that runs over its fields, the command.
Exactas(n) ==
  /\ pet["command_str"] = IF n = 0 THEN Viejo ELSE Escrito(1)
  /\ Caben => /\ \A x \in 1 .. n : pet[Orden[x]] = Escrito(x)
              /\ \A c \in Campos \ {Orden[x] : x \in 1 .. n} : pet[c] = Viejo

\* As Exactas, and field x is as it was or the beginning of the client's.
HastaCampo(x) ==
  Caben => /\ \A i \in 1 .. x - 1 : pet[Orden[i]] = Escrito(i)
           /\ pet[Orden[x]] = Viejo \/ IsPrefix(pet[Orden[x]], Escrito(x))
           /\ \A c \in Campos \ {Orden[i] : i \in 1 .. x} : pet[c] = Viejo

\* The client died before it had written the request, and that is all there was.
PetCortada ==
  ~cliente.entera /\ cliente.pc = "muerto" /\ \E x \in 1 .. L : HastaCampo(x)
Cortada == PetCortada /\ red = <<>> /\ servidor.buf = <<>>

\* The server has read b bytes of string k, and the stream has what follows.
Por(k, b) ==
  /\ Tubo(red, Mensajes, k, b, cliente.k, cliente.j)
  /\ servidor.buf = Leido(Mensajes[k], b)

\* What the client has written, in each of its states.
ClienteInv ==
  /\ cliente.sol \in Peticiones
  /\ cliente.entera \in BOOLEAN
  /\ cliente.k \in 1 .. L + 2 /\ cliente.j \in Nat
  /\ cliente.k <= L + 1 => cliente.j <= Len(Mensajes[cliente.k])
  /\ ~cliente.entera => cliente.k <= L \/ (cliente.k = L + 1 /\ cliente.j = 0)
  /\ cliente.entera => cliente.k > L
  /\ cliente.pc = "pide" => ~cliente.entera
  /\ cliente.pc \in {"lee", "fecha", "fin"} => cliente.entera
  /\ cliente.pc = "fin" => cliente.k = L + 2
  /\ fin = "abierto" <=> cliente.pc \in {"pide", "lee", "fecha"}

\* What the server has made of it, in each of its own.
PetInv ==
  /\ servidor.pc = "peticion" =>
       \/ servidor.k \in 1 .. L /\ Exactas(servidor.k - 1) /\ \E b : Por(servidor.k, b)
       \/ Cortada
  /\ servidor.pc \in {"trata", "envia"} => (Exactas(L) /\ Por(L + 1, 0)) \/ Cortada
  /\ servidor.pc = "fecha" => (Exactas(L) /\ \E b : Por(L + 1, b)) \/ Cortada
  /\ servidor.pc \in {"log", "registrada", "fin"} => Exactas(L) \/ PetCortada
  /\ servidor.pc = "roto" => (\E x \in 0 .. L : Exactas(x)) \/ PetCortada

\* date_hour, before and after it is read.
FechaInv ==
  /\ servidor.pc \notin {"log", "registrada"} => fecha = SinFecha
  /\ servidor.pc \in {"log", "registrada"} =>
       /\ cliente.pc = "muerto" \/ fecha = FECHA
       /\ fecha = SinFecha \/ IsPrefix(fecha, FECHA)

\* The inductive invariant of the request and its date.
ConversaInv == LinInv /\ ClienteInv /\ PetInv /\ FechaInv

-------------------------------------------------------------------------------
(* The client. *)

LEMMA InitPet == Init => ConversaInv
  <1> SUFFICES ASSUME Init PROVE ConversaInv
    OBVIOUS
  <1>1. LinInv
    BY InitLin
  <1>2. /\ cliente.sol \in Peticiones /\ cliente.k = 1 /\ cliente.j = 0
        /\ cliente.entera = FALSE /\ cliente.pc = "pide" /\ fin = "abierto"
    BY DEF Init
  <1>3. servidor.pc = "peticion" /\ servidor.k = 1 /\ servidor.buf = <<>>
    BY DEF Init
  <1>4. /\ \A c \in Campos : pet[c] = Viejo
        /\ red = <<>> /\ fecha = SinFecha
    BY DEF Init
  <1>5. /\ L \in 2 .. 4 /\ Mensajes \in Seq(Seq(Bytes)) /\ Len(Mensajes) = L + 1
        /\ \A x \in 1 .. L + 1 : Len(Mensajes[x]) \in Nat
    BY <1>2, MensajesForma
  <1>6. ClienteInv
    <2>1. 1 \in 1 .. L + 2 /\ 1 <= L /\ 1 \in 1 .. L + 1 /\ 0 \in Nat
      BY <1>5
    <2>2. 0 <= Len(Mensajes[1])
      BY <1>5, <2>1
    <2> QED BY <1>2, <2>1, <2>2 DEF ClienteInv
  <1>7. Por(1, 0)
    BY <1>2, <1>3, <1>4, <1>5, TuboInicial, LeidoNada DEF Por
  <1>8. Exactas(0)
    BY <1>4, CamposTodos DEF Exactas
  <1>9. PetInv
    BY <1>3, <1>5, <1>7, <1>8 DEF PetInv
  <1>10. FechaInv
    BY <1>3, <1>4 DEF FechaInv
  <1> QED BY <1>1, <1>6, <1>9, <1>10 DEF ConversaInv

LEMMA EscribePet ==
  ASSUME ConversaInv, write_string
  PROVE  ClienteInv' /\ PetInv' /\ FechaInv'
  <1> DEFINE k == cliente.k
             j == cliente.j
             M == Mensajes
             c == Cadena(M[k])
  <1>1. /\ cliente.sol \in Peticiones /\ cliente.entera \in BOOLEAN
        /\ k \in 1 .. L + 2 /\ j \in Nat
        /\ k <= L + 1 => j <= Len(M[k])
        /\ ~cliente.entera => k <= L \/ (k = L + 1 /\ j = 0)
        /\ cliente.entera => k > L
        /\ cliente.pc = "pide" => ~cliente.entera
        /\ cliente.pc = "fecha" => cliente.entera
        /\ fin = "abierto" /\ cliente.pc \in {"pide", "fecha"}
    BY DEF ConversaInv, ClienteInv, write_string
  <1>2. /\ L \in 2 .. 4 /\ M \in Seq(Seq(Bytes)) /\ Len(M) = L + 1
    BY <1>1, MensajesForma
  <1>3. k \in 1 .. Len(M) /\ (cliente.pc = "pide" => k <= L)
    <2>1. CASE cliente.pc = "pide"
      <3>1. ~(k > L + 0)
        BY <2>1 DEF write_string, Acabada, L
      <3> QED BY <1>1, <1>2, <3>1
    <2>2. CASE cliente.pc = "fecha"
      <3>1. ~(k > L + 1) /\ cliente.pc # "pide"
        BY <2>2 DEF write_string, Acabada, L
      <3> QED BY <1>1, <1>2, <3>1
    <2> QED BY <1>1, <2>1, <2>2
  <1>4. M[k] \in Seq(Bytes) /\ Len(M[k]) \in Nat /\ j <= Len(M[k])
    BY <1>1, <1>2, <1>3
  <1>5. c \in Flujos /\ Len(c) = Len(M[k]) + 1 /\ j + 1 \in 1 .. Len(c)
    BY <1>1, <1>4, CadenaForma
  <1>6. /\ red' = Append(red, c[j + 1])
        /\ UNCHANGED <<fin, servidor, pet, fecha>>
    BY DEF write_string
  <1>7. /\ cliente'.sol = cliente.sol /\ cliente'.pc = cliente.pc
        /\ cliente'.entera = cliente.entera
        /\ cliente'.k = IF j + 1 = Len(c) THEN k + 1 ELSE k
        /\ cliente'.j = IF j + 1 = Len(c) THEN 0 ELSE j + 1
    BY DEF write_string, ConversaInv, LinInv
  <1>8. Mensajes' = M /\ L' = L /\ Orden' = Orden /\ cliente'.sol \in Peticiones
    BY <1>1, <1>7 DEF Mensajes, L, Orden
  <1> HIDE DEF k, j, M, c
  <1>9. ClienteInv'
    <2>1. /\ cliente'.k \in 1 .. L + 2 /\ cliente'.j \in Nat
          /\ cliente.pc = "pide" => cliente'.k <= L \/ (cliente'.k = L + 1 /\ cliente'.j = 0)
          /\ cliente.pc = "fecha" => cliente'.k > L
      <3>1. CASE j + 1 = Len(c)
        <4>1. cliente'.k = k + 1 /\ cliente'.j = 0
          BY <1>7, <3>1
        <4> QED BY <1>1, <1>2, <1>3, <4>1
      <3>2. CASE j + 1 # Len(c)
        <4>1. cliente'.k = k /\ cliente'.j = j + 1
          BY <1>7, <3>2
        <4> QED BY <1>1, <1>2, <1>3, <4>1
      <3> QED BY <3>1, <3>2
    <2>2. cliente'.k <= L + 1 => cliente'.j <= Len(M[cliente'.k])
      <3>1. CASE j + 1 = Len(c)
        <4>1. cliente'.k <= L + 1 => Len(M[cliente'.k]) \in Nat
          BY <1>2, <2>1
        <4> QED BY <1>7, <3>1, <4>1
      <3>2. CASE j + 1 # Len(c)
        <4>1. j + 1 <= Len(M[k])
          BY <1>1, <1>4, <1>5, <3>2
        <4> QED BY <1>7, <3>2, <4>1
      <3> QED BY <3>1, <3>2
    <2> QED BY <1>1, <1>6, <1>7, <1>8, <2>1, <2>2 DEF ClienteInv
  <1>10. ASSUME NEW x, NEW b, Tubo(red, M, x, b, k, j)
         PROVE  Tubo(red', M, x, b, cliente'.k, cliente'.j)
    <2>1. red \in Flujos /\ Len(red) \in Nat /\ c[j + 1] \in Bytes \cup {NUL}
      BY <1>5, <1>10 DEF Tubo, Flujos
    <2>2. /\ red' \in Flujos /\ Len(red') = Len(red) + 1
          /\ \A n \in 1 .. Len(red) : red'[n] = red[n]
          /\ red'[Len(red) + 1] = c[j + 1]
      BY <1>6, <2>1 DEF Flujos
    <2>3. \A n \in 1 .. 1 : n = 1
      OBVIOUS
    <2>4. 1 \in 1 .. Len(M[k]) + 1 - j
      BY <1>1, <1>4
    <2>5. Sigue(red', red, M, k, j, 1)
      BY <2>2, <2>3, <2>4 DEF Sigue, c
    <2>6. IF 1 = Len(M[k]) + 1 - j THEN Tubo(red', M, x, b, k + 1, 0)
          ELSE Tubo(red', M, x, b, k, j + 1)
      BY <1>3, <1>4, <1>10, <2>5, TuboEscribe
    <2>7. (1 = Len(M[k]) + 1 - j) <=> (j + 1 = Len(c))
      BY <1>1, <1>4, <1>5
    <2> QED BY <1>7, <2>6, <2>7
  <1>11. ASSUME NEW x, NEW b, Por(x, b) PROVE Por(x, b)'
    BY <1>6, <1>8, <1>10, <1>11 DEF Por, k, j, M
  <1>12. ASSUME NEW n, Exactas(n) PROVE Exactas(n)'
    BY <1>6, <1>7, <1>8, <1>12 DEF Exactas, Escrito, Caben
  <1>13. ~PetCortada /\ ~Cortada
    BY <1>1 DEF PetCortada, Cortada
  <1>14. PetInv'
    BY <1>6, <1>8, <1>11, <1>12, <1>13 DEF ConversaInv, PetInv
  <1>15. FechaInv'
    BY <1>1, <1>6, <1>7 DEF ConversaInv, FechaInv
  <1> QED BY <1>9, <1>14, <1>15

\* The steps of a client that writes nothing.
LEMMA ClientePasa ==
  ASSUME ConversaInv, UNCHANGED <<red, servidor, pet, fecha>>,
         cliente.pc \notin {"fin", "muerto"},
         cliente'.sol = cliente.sol, cliente'.k = cliente.k, cliente'.j = cliente.j
  PROVE  PetInv' /\ FechaInv'
  <1>1. Mensajes' = Mensajes /\ L' = L /\ Orden' = Orden
    BY DEF Mensajes, L, Orden
  <1>2. ASSUME NEW x, NEW b, Por(x, b) PROVE Por(x, b)'
    BY <1>1, <1>2 DEF Por
  <1>3. ASSUME NEW n, Exactas(n) PROVE Exactas(n)'
    BY <1>1, <1>3 DEF Exactas, Escrito, Caben
  <1>4. ~PetCortada /\ ~Cortada
    BY DEF PetCortada, Cortada
  <1>5. PetInv'
    BY <1>1, <1>2, <1>3, <1>4 DEF ConversaInv, PetInv
  <1>6. FechaInv'
    BY DEF ConversaInv, FechaInv
  <1> QED BY <1>5, <1>6

LEMMA EsperaPet ==
  ASSUME ConversaInv, EsperaRespuesta
  PROVE  ClienteInv' /\ PetInv' /\ FechaInv'
  <1>1. /\ cliente.pc = "pide" /\ cliente.k > L
        /\ UNCHANGED <<red, fin, servidor, pet, fecha>>
    BY DEF EsperaRespuesta, Acabada, L, ConversaInv, ClienteInv
  <1>2. /\ cliente'.sol = cliente.sol /\ cliente'.k = cliente.k /\ cliente'.j = cliente.j
        /\ cliente'.pc = "lee" /\ cliente'.entera = TRUE
    BY DEF EsperaRespuesta, ConversaInv, LinInv
  <1>3. Mensajes' = Mensajes /\ L' = L
    BY <1>2 DEF Mensajes, L
  <1>4. ClienteInv'
    BY <1>1, <1>2, <1>3 DEF ClienteInv, ConversaInv
  <1> QED BY <1>1, <1>2, <1>4, ClientePasa

LEMMA LeePet == ASSUME ConversaInv, read_string PROVE ClienteInv' /\ PetInv' /\ FechaInv'
  <1>1. cliente.pc = "lee" /\ UNCHANGED <<red, fin, servidor, pet, fecha>>
    BY DEF read_string
  <1>2. /\ cliente'.sol = cliente.sol /\ cliente'.k = cliente.k /\ cliente'.j = cliente.j
        /\ cliente'.pc \in {"lee", "fecha"} /\ cliente'.entera = cliente.entera
    BY <1>1 DEF read_string, AlFinally, ConversaInv, LinInv
  <1>3. Mensajes' = Mensajes /\ L' = L
    BY <1>2 DEF Mensajes, L
  <1>4. ClienteInv'
    BY <1>1, <1>2, <1>3 DEF ClienteInv, ConversaInv
  <1> QED BY <1>1, <1>2, <1>4, ClientePasa

LEMMA CierraPet == ASSUME ConversaInv, Cierra PROVE ClienteInv' /\ PetInv' /\ FechaInv'
  <1>1. /\ cliente.pc = "fecha" /\ cliente.k > L + 1
        /\ UNCHANGED <<red, servidor, pet, fecha>> /\ fin' # "abierto"
    BY DEF Cierra, Cierre, Acabada, L
  <1>2. /\ cliente'.sol = cliente.sol /\ cliente'.k = cliente.k /\ cliente'.j = cliente.j
        /\ cliente'.pc = "fin" /\ cliente'.entera = cliente.entera
    BY DEF Cierra, ConversaInv, LinInv
  <1>3. Mensajes' = Mensajes /\ L' = L /\ L \in Nat
    BY <1>2, MensajesForma DEF Mensajes, L, ConversaInv, ClienteInv
  <1>4. ClienteInv'
    BY <1>1, <1>2, <1>3 DEF ClienteInv, ConversaInv
  <1> QED BY <1>1, <1>2, <1>4, ClientePasa

LEMMA MuerePet == ASSUME ConversaInv, Muere PROVE ClienteInv' /\ PetInv' /\ FechaInv'
  <1>1. /\ cliente.pc \in {"pide", "lee", "fecha"}
        /\ UNCHANGED <<red, servidor, pet, fecha>> /\ fin' # "abierto"
    BY DEF Muere, Cierre
  <1>2. /\ cliente'.sol = cliente.sol /\ cliente'.k = cliente.k /\ cliente'.j = cliente.j
        /\ cliente'.pc = "muerto" /\ cliente'.entera = cliente.entera
    BY DEF Muere, ConversaInv, LinInv
  <1>3. Mensajes' = Mensajes /\ L' = L
    BY <1>2 DEF Mensajes, L
  <1>4. ClienteInv'
    BY <1>1, <1>2, <1>3 DEF ClienteInv, ConversaInv
  <1> QED BY <1>1, <1>2, <1>4, ClientePasa

-------------------------------------------------------------------------------
(* The server. *)

\* Its steps leave the client alone.
LEMMA ClienteQuieto ==
  ASSUME ConversaInv, UNCHANGED <<cliente, fin>>
  PROVE  ClienteInv' /\ Mensajes' = Mensajes /\ L' = L /\ Orden' = Orden
         /\ Caben' = Caben /\ \A i : Escrito(i)' = Escrito(i)
  <1>1. Mensajes' = Mensajes /\ L' = L /\ Orden' = Orden /\ Caben' = Caben
    BY DEF Mensajes, L, Orden, Caben
  <1>2. ClienteInv'
    BY <1>1 DEF ConversaInv, ClienteInv
  <1> QED BY <1>1, <1>2 DEF Escrito

\* Its steps that leave the stream and the struct alone.
LEMMA ServidorPasa ==
  ASSUME ConversaInv, UNCHANGED <<cliente, fin, red, pet, fecha>>,
         servidor'.buf = servidor.buf,
         \/ servidor.pc = "peticion" /\ servidor'.pc = "roto"
         \/ servidor.pc = "fecha" /\ servidor'.pc = "fin"
         \/ servidor.pc = "trata" /\ servidor'.pc = "envia"
         \/ servidor.pc = "envia" /\ servidor'.pc \in {"envia", "fin", "fecha"}
         \/ servidor.pc = "log" /\ servidor'.pc = "registrada"
  PROVE  ClienteInv' /\ PetInv' /\ FechaInv'
  <1>1. ClienteInv' /\ Mensajes' = Mensajes /\ L' = L /\ Orden' = Orden
    BY ClienteQuieto
  <1>2. ASSUME NEW x, NEW b, Por(x, b) PROVE Por(x, b)'
    BY <1>1, <1>2 DEF Por
  <1>3. ASSUME NEW n, Exactas(n) PROVE Exactas(n)'
    BY <1>1, <1>3 DEF Exactas, Escrito, Caben
  <1>4. PetCortada => PetCortada'
    BY <1>1 DEF PetCortada, HastaCampo, Escrito, Caben
  <1>5. Cortada => PetCortada /\ Cortada'
    BY <1>4 DEF Cortada
  <1>6. PetInv'
    <2>1. ASSUME servidor.pc = "peticion"
          PROVE  (\E x \in 0 .. L : Exactas(x)) \/ PetCortada
      <3>1. L \in Nat /\ \A k \in 1 .. L : k - 1 \in 0 .. L
        <4>1. cliente.sol \in Peticiones
          BY DEF ConversaInv, ClienteInv
        <4>2. L \in 2 .. 4
          BY <4>1, MensajesForma
        <4> QED BY <4>2
      <3>2. \A k : Exactas(k - 1) /\ k - 1 \in 0 .. L => \E x \in 0 .. L : Exactas(x)
        OBVIOUS
      <3> QED BY <1>5, <2>1, <3>1, <3>2 DEF ConversaInv, PetInv
    <2>2. (\E x \in 0 .. L : Exactas(x)) => (\E x \in 0 .. L : Exactas(x))'
      BY <1>1, <1>3
    <2> QED BY <1>1, <1>2, <1>3, <1>4, <1>5, <2>1, <2>2 DEF ConversaInv, PetInv
  <1>7. FechaInv'
    BY DEF ConversaInv, FechaInv
  <1> QED BY <1>1, <1>6, <1>7

\* The byte of the stream.
LEMMA LeeByte ==
  ASSUME ConversaInv, NEW x, NEW b, Por(x, b), red # <<>>, red' = Tail(red),
         UNCHANGED <<cliente, fin>>
  PROVE  /\ x \in 1 .. L + 1 /\ b \in 0 .. Len(Mensajes[x]) /\ Mensajes[x] \in Seq(Bytes)
         /\ Head(red) = NUL =>
              /\ servidor.buf = Cabe(Mensajes[x])
              /\ Tubo(red', Mensajes', x + 1, 0, cliente'.k, cliente'.j)
         /\ Head(red) # NUL =>
              /\ (IF Len(servidor.buf) < MAX_MSG - 1 THEN Append(servidor.buf, Head(red))
                  ELSE servidor.buf) = Leido(Mensajes'[x], b + 1)
              /\ Tubo(red', Mensajes', x, b + 1, cliente'.k, cliente'.j)
  <1> DEFINE M == Mensajes
  <1>1. Tubo(red, M, x, b, cliente.k, cliente.j) /\ servidor.buf = Leido(M[x], b)
    BY DEF Por
  <1>2. M \in Seq(Seq(Bytes)) /\ Len(M) = L + 1 /\ Mensajes' = M
    BY ClienteQuieto, MensajesForma DEF ConversaInv, ClienteInv
  <1> HIDE DEF M
  <1>3. /\ x \in 1 .. Len(M) /\ b \in 0 .. Len(M[x])
        /\ Head(red) = NUL => /\ b = Len(M[x])
                              /\ Tubo(Tail(red), M, x + 1, 0, cliente.k, cliente.j)
        /\ Head(red) # NUL => /\ b < Len(M[x]) /\ Head(red) = M[x][b + 1]
                              /\ Tubo(Tail(red), M, x, b + 1, cliente.k, cliente.j)
    BY <1>1, TuboLee
  <1>4. M[x] \in Seq(Bytes) /\ Len(M[x]) \in Nat
    BY <1>2, <1>3
  <1>5. Head(red) = NUL => servidor.buf = Cabe(M[x])
    BY <1>1, <1>3, LeidoTodo
  <1>6. Head(red) # NUL =>
          Leido(M[x], b + 1) = IF Len(servidor.buf) < MAX_MSG - 1
                               THEN Append(servidor.buf, Head(red)) ELSE servidor.buf
    <2> SUFFICES ASSUME Head(red) # NUL
                 PROVE  Leido(M[x], b + 1) = IF Len(servidor.buf) < MAX_MSG - 1
                               THEN Append(servidor.buf, Head(red)) ELSE servidor.buf
      OBVIOUS
    <2>1. b \in 0 .. Len(M[x]) - 1 /\ Head(red) = M[x][b + 1]
      BY <1>3, <1>4
    <2> QED BY <1>1, <1>4, <2>1, LeidoSigue
  <1> QED BY <1>2, <1>3, <1>4, <1>5, <1>6 DEF M

\* An empty stream: the client has written no more.
LEMMA NoHayMas ==
  ASSUME ConversaInv, NEW x, NEW b, Por(x, b), red = <<>>
  PROVE  cliente.k = x /\ cliente.j = b
  BY TuboVacio DEF Por

\* The command that read_to_pet looks at once it has read a field is the client's.
LEMMA OrdenDelServidor ==
  ASSUME ConversaInv
  PROVE  /\ Escrito(1) = cliente.sol[1] /\ CamposDe(Escrito(1)) = Orden
         /\ Orden[1] = "command_str"
         /\ Escrito(1) \in Seq(Bytes) /\ Len(Escrito(1)) < MAX_STR
  <1> DEFINE s == cliente.sol
  <1>1. s \in Seq(Seq(Bytes)) /\ L \in 2 .. 4 /\ Len(s[1]) < MAX_STR /\ L = Len(s)
    BY MensajesForma DEF ConversaInv, ClienteInv, L
  <1>2. s[1] \in Seq(Bytes) /\ Len(s[1]) < MAX_MSG
    BY <1>1, LineasAssumption
  <1>3. SubSeq(s[1], 1, Len(s[1])) = s[1]
    BY <1>2, SubSeqFull
  <1>4. Cabe(s[1]) = s[1]
    BY <1>2, <1>3 DEF Cabe
  <1> QED BY <1>1, <1>2, <1>4, CamposForma DEF Orden, Escrito

LEMMA CampoQueToca ==
  ASSUME ConversaInv, servidor.k \in 1 .. L, Exactas(servidor.k - 1)
  PROVE  CamposDe(pet["command_str"])[servidor.k] = Orden[servidor.k]
  <1>1. CASE servidor.k = 1
    BY <1>1, CamposForma DEF Orden
  <1>2. CASE servidor.k # 1
    <2>1. L \in 2 .. 4
      BY MensajesForma DEF ConversaInv, ClienteInv
    <2>2. servidor.k - 1 # 0
      BY <1>2, <2>1
    <2>3. pet["command_str"] = Escrito(1)
      BY <2>2 DEF Exactas
    <2> QED BY <2>3, OrdenDelServidor
  <1> QED BY <1>1, <1>2

\* The fields of the client's command.
LEMMA OrdenForma ==
  ASSUME ConversaInv
  PROVE  /\ L \in 2 .. 4 /\ Len(Orden) = L
         /\ \A x \in 1 .. L : Orden[x] \in Campos
         /\ \A x, y \in 1 .. L : Orden[x] = Orden[y] => x = y
  <1>1. L \in 2 .. 4 /\ L = Cuantas(cliente.sol[1])
    BY MensajesForma DEF ConversaInv, ClienteInv
  <1>2. /\ Len(Orden) = L /\ Orden \in Seq(Campos)
        /\ \A x, y \in 1 .. L : Orden[x] = Orden[y] => x = y
    BY <1>1, CamposForma DEF Orden
  <1> QED BY <1>1, <1>2

\* Fields that fit are kept whole.
LEMMA EscritoEntero ==
  ASSUME ConversaInv, Caben, NEW x \in 1 .. L
  PROVE  /\ Escrito(x) = cliente.sol[x] /\ Escrito(x) \in Seq(Bytes)
         /\ Len(Escrito(x)) \in Nat /\ Len(Escrito(x)) < MAX_STR
  <1>1. /\ cliente.sol \in Seq(Seq(Bytes)) /\ L = Len(cliente.sol)
        /\ cliente.sol[x] \in Seq(Bytes)
    BY MensajesForma DEF ConversaInv, ClienteInv, L
  <1>2. x \in DOMAIN cliente.sol
    BY <1>1
  <1>3. /\ Len(cliente.sol[x]) \in Nat /\ Len(cliente.sol[x]) < MAX_STR
        /\ Len(cliente.sol[x]) < MAX_MSG
    BY <1>1, <1>2, LineasAssumption DEF Caben
  <1>4. SubSeq(cliente.sol[x], 1, Len(cliente.sol[x])) = cliente.sol[x]
    BY <1>1, SubSeqFull
  <1>5. Escrito(x) = cliente.sol[x]
    BY <1>3, <1>4 DEF Escrito, Cabe
  <1> QED BY <1>1, <1>3, <1>5

\* So no field is longer than its array.
LEMMA ExactasCaben ==
  ASSUME ConversaInv, Caben, NEW n \in 0 .. L, Exactas(n), NEW c \in Campos
  PROVE  Len(pet[c]) \in Nat /\ Len(pet[c]) < MAX_STR
  <1>1. L \in 2 .. 4
    BY OrdenForma
  <1>2. CASE c \in {Orden[x] : x \in 1 .. n}
    <2>1. PICK x \in 1 .. n : c = Orden[x]
      BY <1>2
    <2>2. x \in 1 .. L /\ pet[c] = Escrito(x)
      BY <1>1, <2>1 DEF Exactas
    <2> QED BY <2>2, EscritoEntero
  <1>3. CASE c \notin {Orden[x] : x \in 1 .. n}
    <2>1. pet[c] = Viejo
      BY <1>3 DEF Exactas
    <2> QED BY <2>1, LineasAssumption
  <1> QED BY <1>2, <1>3

\* Nor is one that was cut.
LEMMA CortadaCabe ==
  ASSUME ConversaInv, Caben, NEW n \in 1 .. L, HastaCampo(n), NEW c \in Campos
  PROVE  Len(pet[c]) < MAX_STR
  <1>1. L \in 2 .. 4
    BY OrdenForma
  <1>2. CASE c \in {Orden[i] : i \in 1 .. n}
    <2>1. PICK i \in 1 .. n : c = Orden[i]
      BY <1>2
    <2>2. /\ i \in 1 .. L
          /\ \/ pet[c] = Escrito(i) \/ pet[c] = Viejo
             \/ IsPrefix(pet[c], Escrito(i))
      BY <1>1, <2>1 DEF HastaCampo
    <2>3. /\ Len(Escrito(i)) \in Nat /\ Len(Escrito(i)) < MAX_STR
          /\ Len(Viejo) < MAX_STR /\ MAX_STR \in Nat
      BY <2>2, EscritoEntero, LineasAssumption
    <2>4. CASE pet[c] = Escrito(i) \/ pet[c] = Viejo
      BY <2>3, <2>4
    <2>5. CASE IsPrefix(pet[c], Escrito(i))
      BY <2>3, <2>5 DEF IsPrefix
    <2> QED BY <2>2, <2>4, <2>5
  <1>3. CASE c \notin {Orden[i] : i \in 1 .. n}
    <2>1. pet[c] = Viejo
      BY <1>3 DEF HastaCampo
    <2> QED BY <2>1, LineasAssumption
  <1> QED BY <1>2, <1>3

\* A field goes to its place.
LEMMA AnotaCampo ==
  ASSUME ConversaInv, NEW k \in 1 .. L, Exactas(k - 1), NEW S, Escrito(k) \in Seq(S),
         pet' = Escribe(pet, Orden[k], Escrito(k)), UNCHANGED <<cliente, fin>>
  PROVE  Exactas(k)'
  <1>1. /\ L \in 2 .. 4 /\ \A x \in 1 .. L : Orden[x] \in Campos
        /\ \A x, y \in 1 .. L : Orden[x] = Orden[y] => x = y
    BY OrdenForma
  <1>2. Orden' = Orden /\ Caben' = Caben /\ \A i : Escrito(i)' = Escrito(i)
    BY ClienteQuieto
  <1>3. DOMAIN pet = Campos /\ pet = [x \in Campos |-> pet[x]]
    BY DEF ConversaInv, LinInv, TypeOK
  <1>4. /\ \A x \in 1 .. k - 1 : Caben => pet[Orden[x]] = Escrito(x)
        /\ \A c \in Campos \ {Orden[x] : x \in 1 .. k - 1} : Caben => pet[c] = Viejo
    BY DEF Exactas
  <1>5. pet'["command_str"] = Escrito(1)
    <2>1. CASE k = 1
      <3>1. Orden[k] = "command_str"
        BY <2>1, OrdenDelServidor
      <3>2. Len(pet["command_str"]) \in Nat
        BY <2>1, LineasAssumption DEF Exactas
      <3>3. <<>> \o Escrito(1) = Escrito(1)
        BY OrdenDelServidor
      <3> QED BY <2>1, <3>1, <3>2, <3>3, EscribeComando
    <2>2. CASE k # 1
      <3>1. Orden[k] \in Campos /\ Orden[k] # "command_str" /\ k - 1 # 0
        BY <1>1, <2>2, OrdenDelServidor
      <3>2. pet["command_str"] = Escrito(1)
        BY <3>1 DEF Exactas
      <3>3. Len(pet["command_str"]) \in Nat /\ Len(pet["command_str"]) < MAX_STR
        BY <3>2, OrdenDelServidor
      <3> QED BY <3>1, <3>2, <3>3, EscribeDetras
    <2> QED BY <2>1, <2>2
  <1>6. CASE Caben
    <2>1. pet' = [pet EXCEPT ![Orden[k]] = Escrito(k)]
      <3>1. /\ \A x \in Campos : Len(pet[x]) \in Nat /\ Len(pet[x]) < MAX_STR
            /\ Orden[k] \in Campos
        <4>1. k - 1 \in 0 .. L
          BY <1>1
        <4> QED BY <1>1, <1>6, <4>1, ExactasCaben
      <3>2. Escrito(k) \in Seq(Bytes) /\ Len(Escrito(k)) < MAX_STR
        BY <1>6, EscritoEntero
      <3>3. ASSUME NEW c \in Campos, NEW linea \in Seq(Bytes), Len(linea) < MAX_STR
            PROVE  Escribe(pet, c, linea) = [pet EXCEPT ![c] = linea]
        <4>1. /\ DOMAIN pet = Campos /\ Len(linea) < MAX_STR
              /\ \A x \in Campos : Len(pet[x]) \in Nat /\ Len(pet[x]) < MAX_STR
          BY <1>3, <3>1, <3>3
        <4> QED BY <1>3, <4>1, EscribeCabe
      <3> QED BY <3>1, <3>2, <3>3
    <2>2. ASSUME NEW x \in 1 .. k PROVE pet'[Orden[x]] = Escrito(x)
      <3>1. x \in 1 .. L /\ (x = k \/ x \in 1 .. k - 1)
        BY <1>1
      <3>2. Orden[x] \in Campos /\ (Orden[x] = Orden[k] => x = k)
        BY <1>1, <3>1
      <3> QED BY <1>3, <1>4, <1>6, <2>1, <3>1, <3>2
    <2>3. ASSUME NEW c \in Campos \ {Orden[x] : x \in 1 .. k} PROVE pet'[c] = Viejo
      <3>1. k \in 1 .. k /\ \A x \in 1 .. k - 1 : x \in 1 .. k
        BY <1>1
      <3>2. c # Orden[k] /\ c \in Campos \ {Orden[x] : x \in 1 .. k - 1}
        BY <3>1
      <3> QED BY <1>3, <1>4, <1>6, <2>1, <3>2
    <2>4. k # 0
      BY <1>1
    <2> QED BY <1>2, <1>5, <2>2, <2>3, <2>4 DEF Exactas
  <1>7. CASE ~Caben
    <2>1. k # 0
      BY <1>1
    <2> QED BY <1>2, <1>5, <1>7, <2>1 DEF Exactas
  <1> QED BY <1>6, <1>7

\* A field that was cut goes to its place, or nothing does.
LEMMA AnotaCortado ==
  ASSUME ConversaInv, NEW k \in 1 .. L, Exactas(k - 1), UNCHANGED <<cliente, fin>>,
         NEW S, NEW linea \in Seq(S), IsPrefix(linea, Escrito(k)),
         \/ pet' = Escribe(pet, Orden[k], linea)
         \/ pet' = pet
  PROVE  HastaCampo(k)'
  <1>1. /\ L \in 2 .. 4 /\ \A x \in 1 .. L : Orden[x] \in Campos
        /\ \A x, y \in 1 .. L : Orden[x] = Orden[y] => x = y
    BY OrdenForma
  <1>2. Orden' = Orden /\ Caben' = Caben /\ \A i : Escrito(i)' = Escrito(i)
    BY ClienteQuieto
  <1> SUFFICES ASSUME Caben PROVE HastaCampo(k)'
    BY <1>2 DEF HastaCampo
  <1>3. DOMAIN pet = Campos /\ pet = [x \in Campos |-> pet[x]]
    BY DEF ConversaInv, LinInv, TypeOK
  <1>4. /\ \A x \in 1 .. k - 1 : pet[Orden[x]] = Escrito(x)
        /\ \A c \in Campos \ {Orden[x] : x \in 1 .. k - 1} : pet[c] = Viejo
    BY DEF Exactas
  <1>5. \/ pet' = [pet EXCEPT ![Orden[k]] = linea]
        \/ pet' = pet
    <2>1. /\ \A x \in Campos : Len(pet[x]) \in Nat /\ Len(pet[x]) < MAX_STR
          /\ Orden[k] \in Campos
      <3>1. k - 1 \in 0 .. L
        BY <1>1
      <3> QED BY <1>1, <3>1, ExactasCaben
    <2>2. Len(linea) < MAX_STR
      <3>1. Len(Escrito(k)) \in Nat /\ Len(Escrito(k)) < MAX_STR /\ MAX_STR \in Nat
        BY EscritoEntero, LineasAssumption
      <3>2. Len(linea) <= Len(Escrito(k)) /\ Len(linea) \in Nat
        BY DEF IsPrefix
      <3> QED BY <3>1, <3>2
    <2> QED BY <1>3, <2>1, <2>2, EscribeCabe
  <1>6. ASSUME NEW x \in 1 .. k - 1 PROVE pet'[Orden[x]] = Escrito(x)
    <2>1. x \in 1 .. L /\ x # k
      BY <1>1
    <2>2. Orden[x] \in Campos /\ Orden[x] # Orden[k]
      BY <1>1, <2>1
    <2> QED BY <1>3, <1>4, <1>5, <2>2
  <1>7. pet'[Orden[k]] = Viejo \/ IsPrefix(pet'[Orden[k]], Escrito(k))
    <2>1. Orden[k] \in Campos \ {Orden[x] : x \in 1 .. k - 1}
      <3>1. \A x \in 1 .. k - 1 : x \in 1 .. L /\ x # k
        BY <1>1
      <3> QED BY <1>1, <3>1
    <2> QED BY <1>3, <1>4, <1>5, <2>1
  <1>8. ASSUME NEW c \in Campos \ {Orden[x] : x \in 1 .. k} PROVE pet'[c] = Viejo
    <2>1. k \in 1 .. k /\ \A x \in 1 .. k - 1 : x \in 1 .. k
      BY <1>1
    <2>2. c # Orden[k] /\ c \in Campos \ {Orden[x] : x \in 1 .. k - 1}
      BY <2>1
    <2> QED BY <1>3, <1>4, <1>5, <2>2
  <1> QED BY <1>2, <1>6, <1>7, <1>8 DEF HastaCampo

\* The end of a line of the request, that came with its NUL.
LEMMA FinDeCampo ==
  ASSUME ConversaInv, servidor.pc = "peticion", servidor.k \in 1 .. L, Exactas(servidor.k - 1),
         servidor.buf = Escrito(servidor.k), Guarda(servidor.buf, TRUE),
         Tubo(red', Mensajes', servidor.k + 1, 0, cliente'.k, cliente'.j),
         UNCHANGED <<cliente, fin>>
  PROVE  PetInv' /\ FechaInv'
  <1>0. PICK k \in 1 .. L : k = servidor.k
    OBVIOUS
  <1> DEFINE campo == CamposDe(pet["command_str"])[k]
  <1>1. campo = Orden[k] /\ L \in 2 .. 4 /\ Len(Orden) = L
    BY <1>0, CampoQueToca, OrdenForma
  <1>2. /\ pet' = Escribe(pet, campo, servidor.buf)
        /\ servidor'.buf = <<>> /\ servidor'.k = k + 1
        /\ servidor'.pc \in {IF k = Len(CamposDe(pet'["command_str"])) THEN "trata"
                             ELSE "peticion", "roto"}
        /\ fecha' = fecha
    BY <1>0 DEF Guarda, Anota, ConversaInv, LinInv
  <1>3. Mensajes' = Mensajes /\ L' = L /\ Orden' = Orden /\ Caben' = Caben /\ \A i : Escrito(i)' = Escrito(i)
    BY ClienteQuieto
  <1> HIDE DEF campo
  <1>4. Exactas(k)'
    <2>1. Exactas(k - 1) /\ pet' = Escribe(pet, Orden[k], Escrito(k))
      BY <1>0, <1>1, <1>2
    <2>2. PICK S : Escrito(k) \in Seq(S)
      BY <1>0 DEF ConversaInv, LinInv, Linea
    <2> QED BY <1>1, <2>1, <2>2, AnotaCampo
  <1>5. CamposDe(pet'["command_str"]) = Orden
    <2>1. k # 0
      BY <1>1
    <2>2. pet'["command_str"] = Escrito(1)
      BY <1>3, <1>4, <2>1, OrdenDelServidor DEF Exactas
    <2> QED BY <2>2, OrdenDelServidor
  <1>6. Por(k + 1, 0)'
    <2>1. servidor'.buf = Leido(Mensajes'[k + 1], 0)
      BY <1>2, LeidoNada
    <2> QED BY <1>0, <2>1 DEF Por
  <1>7. PetInv'
    <2>0. CASE servidor'.pc = "roto"
      <3>1. k \in 0 .. L
        BY <1>1
      <3> QED BY <1>3, <1>4, <2>0, <3>1 DEF PetInv
    <2>1. CASE servidor'.pc # "roto" /\ k = L
      <3>1. servidor'.pc = "trata" /\ k + 1 = L + 1
        BY <1>1, <1>2, <1>5, <2>1
      <3> QED BY <1>3, <1>4, <1>6, <2>1, <3>1 DEF PetInv
    <2>2. CASE servidor'.pc # "roto" /\ k # L
      <3>1. servidor'.pc = "peticion" /\ k + 1 \in 1 .. L /\ (k + 1) - 1 = k
        BY <1>1, <1>2, <1>5, <2>2
      <3>2. Exactas((k + 1) - 1)'
        BY <1>4, <3>1
      <3> QED BY <1>2, <1>3, <1>6, <3>1, <3>2 DEF PetInv
    <2> QED BY <2>0, <2>1, <2>2
  <1>8. FechaInv'
    BY <1>2 DEF FechaInv, ConversaInv
  <1> QED BY <1>7, <1>8

LEMMA LeePeticion ==
  ASSUME ConversaInv, readLine, servidor.pc = "peticion"
  PROVE  PetInv' /\ FechaInv'
  <1>1. red # <<>> /\ red' = Tail(red) /\ UNCHANGED <<cliente, fin>>
    BY DEF readLine
  <1>2. servidor.k \in 1 .. L /\ Exactas(servidor.k - 1)
    BY <1>1 DEF ConversaInv, PetInv, Cortada
  <1>3. PICK b : Por(servidor.k, b)
    BY <1>1 DEF ConversaInv, PetInv, Cortada
  <1>4. PICK k \in 1 .. L : k = servidor.k
    BY <1>2
  <1>5. L \in 2 .. 4 /\ Mensajes[k] = cliente.sol[k]
    BY MensajesForma DEF ConversaInv, ClienteInv
  <1>6. /\ Head(red) = NUL =>
             /\ servidor.buf = Escrito(k)
             /\ Tubo(red', Mensajes', k + 1, 0, cliente'.k, cliente'.j)
        /\ Head(red) # NUL =>
             /\ (IF Len(servidor.buf) < MAX_MSG - 1 THEN Append(servidor.buf, Head(red))
                 ELSE servidor.buf) = Leido(Mensajes'[k], b + 1)
             /\ Tubo(red', Mensajes', k, b + 1, cliente'.k, cliente'.j)
    BY <1>1, <1>3, <1>4, <1>5, LeeByte DEF Escrito
  <1>7. CASE Head(red) = NUL
    <2>1. Guarda(servidor.buf, TRUE)
      BY <1>7 DEF readLine
    <2> QED BY <1>1, <1>2, <1>4, <1>6, <1>7, <2>1, FinDeCampo
  <1>8. CASE Head(red) # NUL
    <2>1. /\ servidor' = IF Len(servidor.buf) < MAX_MSG - 1
                         THEN [servidor EXCEPT !.buf = Append(@, Head(red))]
                         ELSE servidor
          /\ UNCHANGED <<pet, fecha>>
      BY <1>8 DEF readLine
    <2>2. /\ servidor'.pc = "peticion" /\ servidor'.k = k
          /\ servidor'.buf = IF Len(servidor.buf) < MAX_MSG - 1
                             THEN Append(servidor.buf, Head(red)) ELSE servidor.buf
      BY <1>4, <2>1 DEF ConversaInv, LinInv
    <2>3. Por(k, b + 1)'
      BY <1>6, <1>8, <2>2 DEF Por
    <2>4. L' = L /\ Orden' = Orden /\ Caben' = Caben /\ \A i : Escrito(i)' = Escrito(i)
      BY <1>1, ClienteQuieto
    <2>5. Exactas(k - 1)'
      BY <1>2, <1>4, <2>1, <2>4 DEF Exactas
    <2>6. PetInv'
      BY <2>2, <2>3, <2>4, <2>5 DEF PetInv
    <2> QED BY <2>1, <2>2, <2>6 DEF FechaInv, ConversaInv
  <1> QED BY <1>7, <1>8

LEMMA LeeFecha ==
  ASSUME ConversaInv, readLine, servidor.pc = "fecha"
  PROVE  PetInv' /\ FechaInv'
  <1>1. red # <<>> /\ red' = Tail(red) /\ UNCHANGED <<cliente, fin>>
    BY DEF readLine
  <1>2. Exactas(L) /\ fecha = SinFecha
    BY <1>1 DEF ConversaInv, PetInv, FechaInv, Cortada
  <1>3. PICK b : Por(L + 1, b)
    BY <1>1 DEF ConversaInv, PetInv, Cortada
  <1>4. L \in 2 .. 4 /\ Mensajes[L + 1] = FECHA
    BY MensajesForma DEF ConversaInv, ClienteInv
  <1>5. /\ L' = L /\ Mensajes' = Mensajes /\ Orden' = Orden
        /\ Caben' = Caben /\ \A i : Escrito(i)' = Escrito(i)
    BY <1>1, ClienteQuieto
  <1>6. /\ Head(red) = NUL => servidor.buf = FECHA
        /\ Head(red) # NUL =>
             /\ (IF Len(servidor.buf) < MAX_MSG - 1 THEN Append(servidor.buf, Head(red))
                 ELSE servidor.buf) = Leido(Mensajes'[L + 1], b + 1)
             /\ Tubo(red', Mensajes', L + 1, b + 1, cliente'.k, cliente'.j)
    BY <1>1, <1>3, <1>4, LeeByte, FechaCabe
  <1>7. CASE Head(red) = NUL
    <2>1. Guarda(servidor.buf, TRUE)
      BY <1>7 DEF readLine
    <2>2. fecha' = FECHA /\ servidor'.pc = "log" /\ pet' = pet
      BY <1>6, <1>7, <2>1 DEF Guarda, Anota, ConversaInv, LinInv
    <2>3. Exactas(L)'
      BY <1>2, <1>5, <2>2 DEF Exactas
    <2>4. IsPrefix(FECHA, FECHA)
      BY FechaCabe, PrefijoDeSi
    <2> QED BY <2>2, <2>3, <2>4 DEF PetInv, FechaInv
  <1>8. CASE Head(red) # NUL
    <2>1. /\ servidor' = IF Len(servidor.buf) < MAX_MSG - 1
                         THEN [servidor EXCEPT !.buf = Append(@, Head(red))]
                         ELSE servidor
          /\ UNCHANGED <<pet, fecha>>
      BY <1>8 DEF readLine
    <2>2. /\ servidor'.pc = "fecha"
          /\ servidor'.buf = IF Len(servidor.buf) < MAX_MSG - 1
                             THEN Append(servidor.buf, Head(red)) ELSE servidor.buf
      BY <2>1 DEF ConversaInv, LinInv
    <2>3. Por(L + 1, b + 1)'
      BY <1>5, <1>6, <1>8, <2>2 DEF Por
    <2>4. Exactas(L)'
      BY <1>2, <1>5, <2>1 DEF Exactas
    <2>5. PetInv'
      BY <1>5, <2>2, <2>3, <2>4 DEF PetInv
    <2> QED BY <1>2, <2>1, <2>2, <2>5 DEF FechaInv
  <1> QED BY <1>7, <1>8

\* The stream ends.  If it was in the request, the client died.
LEMMA FinPeticion ==
  ASSUME ConversaInv, FinDeFichero, servidor.pc = "peticion"
  PROVE  PetInv' /\ FechaInv'
  <1>1. /\ red = <<>> /\ red' = <<>> /\ fin = "fin" /\ UNCHANGED <<cliente, fin>>
        /\ Guarda(servidor.buf, servidor.buf # <<>>)
    BY DEF FinDeFichero
  <1>2. L' = L /\ Orden' = Orden /\ Caben' = Caben /\ \A i : Escrito(i)' = Escrito(i)
    BY <1>1, ClienteQuieto
  <1>3. /\ pet' = IF servidor.buf # <<>>
                  THEN Escribe(pet, CamposDe(pet["command_str"])[servidor.k], servidor.buf)
                  ELSE pet
        /\ servidor'.buf = <<>> /\ servidor'.pc \in {"peticion", "trata", "roto"}
        /\ fecha' = fecha
    BY <1>1 DEF Guarda, Anota, ConversaInv, LinInv
  <1>4. FechaInv'
    BY <1>3 DEF FechaInv, ConversaInv
  <1>5. Cortada'
    <2>1. CASE Cortada
      <3>1. pet' = pet
        BY <1>3, <2>1 DEF Cortada
      <3> QED BY <1>1, <1>2, <1>3, <2>1, <3>1 DEF Cortada, PetCortada, HastaCampo
    <2>2. CASE ~Cortada
      <3>1. servidor.k \in 1 .. L /\ Exactas(servidor.k - 1)
        BY <2>2 DEF ConversaInv, PetInv
      <3>2. PICK b : Por(servidor.k, b)
        BY <2>2 DEF ConversaInv, PetInv
      <3>3. PICK k \in 1 .. L : k = servidor.k
        BY <3>1
      <3>4. cliente.k = k /\ cliente.j = b
        BY <1>1, <3>2, <3>3, NoHayMas
      <3>5. /\ L \in 2 .. 4 /\ Mensajes[k] = cliente.sol[k] /\ cliente.sol[k] \in Seq(Bytes)
        BY MensajesForma DEF ConversaInv, ClienteInv
      <3>6. b \in 0 .. Len(cliente.sol[k])
        BY <3>4, <3>5 DEF ConversaInv, ClienteInv
      <3>7. cliente.pc = "muerto" /\ ~cliente.entera
        BY <1>1, <3>4, <3>5 DEF ConversaInv, ClienteInv, LinInv, TypeOK
      <3>8. IsPrefix(servidor.buf, Escrito(k))
        BY <3>2, <3>3, <3>5, <3>6, LeidoPrefijo DEF Por, Escrito
      <3>9. CamposDe(pet["command_str"])[k] = Orden[k]
        BY <3>1, <3>3, CampoQueToca
      <3>10. HastaCampo(k)'
        <4>1. PICK S : servidor.buf \in Seq(S)
          BY DEF ConversaInv, LinInv, Linea
        <4>2. pet' = Escribe(pet, Orden[k], servidor.buf) \/ pet' = pet
          BY <1>3, <3>3, <3>9
        <4>3. Exactas(k - 1)
          BY <3>1, <3>3
        <4> QED BY <1>1, <3>8, <4>1, <4>2, <4>3, AnotaCortado
      <3> QED BY <1>1, <1>2, <1>3, <3>7, <3>10 DEF Cortada, PetCortada
    <2> QED BY <2>1, <2>2
  <1>6. PetCortada'
    BY <1>5 DEF Cortada
  <1> QED BY <1>3, <1>4, <1>5, <1>6 DEF PetInv

LEMMA FinFecha ==
  ASSUME ConversaInv, FinDeFichero, servidor.pc = "fecha"
  PROVE  PetInv' /\ FechaInv'
  <1>1. /\ red = <<>> /\ red' = <<>> /\ fin = "fin" /\ UNCHANGED <<cliente, fin>>
        /\ Guarda(servidor.buf, servidor.buf # <<>>)
    BY DEF FinDeFichero
  <1>2. L' = L /\ Orden' = Orden /\ Caben' = Caben /\ \A i : Escrito(i)' = Escrito(i)
    BY <1>1, ClienteQuieto
  <1>3. /\ fecha = SinFecha
        /\ fecha' = IF servidor.buf # <<>> THEN servidor.buf ELSE SinFecha
        /\ servidor'.pc = "log" /\ pet' = pet
    BY <1>1 DEF Guarda, Anota, ConversaInv, LinInv, FechaInv
  <1>4. CASE Cortada
    <2>1. fecha' = SinFecha /\ cliente'.pc = "muerto"
      BY <1>1, <1>3, <1>4 DEF Cortada, PetCortada
    <2>2. PetCortada'
      BY <1>1, <1>2, <1>3, <1>4 DEF Cortada, PetCortada, HastaCampo
    <2> QED BY <1>3, <2>1, <2>2 DEF PetInv, FechaInv
  <1>5. CASE ~Cortada
    <2>1. Exactas(L)
      BY <1>5 DEF ConversaInv, PetInv
    <2>2. PICK b : Por(L + 1, b)
      BY <1>5 DEF ConversaInv, PetInv
    <2>3. L \in 2 .. 4 /\ Mensajes[L + 1] = FECHA
      BY MensajesForma DEF ConversaInv, ClienteInv
    <2>4. cliente.k = L + 1 /\ cliente.j = b
      BY <1>1, <2>2, NoHayMas
    <2>5. b \in 0 .. Len(FECHA)
      <3>1. L + 1 <= L + 1
        BY <2>3
      <3>2. b \in Nat /\ b <= Len(FECHA)
        BY <2>3, <2>4, <3>1 DEF ConversaInv, ClienteInv
      <3> QED BY <3>2, FechaCabe
    <2>6. IsPrefix(servidor.buf, FECHA)
      BY <2>2, <2>3, <2>5, LeidoPrefijo, FechaCabe DEF Por
    <2>7. cliente.pc = "muerto"
      BY <1>1, <2>3, <2>4 DEF ConversaInv, ClienteInv, LinInv, TypeOK
    <2>8. Exactas(L)'
      BY <1>2, <1>3, <2>1 DEF Exactas
    <2> QED BY <1>1, <1>3, <2>6, <2>7, <2>8 DEF PetInv, FechaInv
  <1> QED BY <1>4, <1>5

LEMMA StepPet == ConversaInv /\ [Next]_vars => ConversaInv'
  <1> SUFFICES ASSUME ConversaInv, [Next]_vars PROVE ConversaInv'
    OBVIOUS
  <1>1. LinInv'
    BY StepLin DEF ConversaInv
  <1>2. CASE write_string
    BY <1>1, <1>2, EscribePet DEF ConversaInv
  <1>3. CASE EsperaRespuesta
    BY <1>1, <1>3, EsperaPet DEF ConversaInv
  <1>4. CASE read_string
    BY <1>1, <1>4, LeePet DEF ConversaInv
  <1>5. CASE Cierra
    BY <1>1, <1>5, CierraPet DEF ConversaInv
  <1>6. CASE Muere
    BY <1>1, <1>6, MuerePet DEF ConversaInv
  <1>7. CASE readLine
    <2>1. UNCHANGED <<cliente, fin>> /\ servidor.pc \in {"peticion", "fecha"}
      BY <1>7 DEF readLine, Leyendo
    <2> QED BY <1>1, <1>7, <2>1, ClienteQuieto, LeePeticion, LeeFecha DEF ConversaInv
  <1>8. CASE FinDeFichero
    <2>1. UNCHANGED <<cliente, fin>> /\ servidor.pc \in {"peticion", "fecha"}
      BY <1>8 DEF FinDeFichero, Leyendo
    <2> QED BY <1>1, <1>8, <2>1, ClienteQuieto, FinPeticion, FinFecha DEF ConversaInv
  <1>9. ASSUME \/ ErrorLectura \/ Responde \/ sendMessage \/ ErrorEscritura
               \/ EsperaFecha \/ Registra
        PROVE  ConversaInv'
    <2>1. /\ UNCHANGED <<cliente, fin, red, pet, fecha>>
          /\ servidor'.buf = servidor.buf
      BY <1>9 DEF ErrorLectura, Responde, sendMessage, Avanza, ErrorEscritura, EsperaFecha,
                  Registra, ConversaInv, LinInv
    <2>2. \/ servidor.pc = "peticion" /\ servidor'.pc = "roto"
          \/ servidor.pc = "fecha" /\ servidor'.pc = "fin"
          \/ servidor.pc = "trata" /\ servidor'.pc = "envia"
          \/ servidor.pc = "envia" /\ servidor'.pc \in {"envia", "fin", "fecha"}
          \/ servidor.pc = "log" /\ servidor'.pc = "registrada"
      BY <1>9 DEF ErrorLectura, Leyendo, Responde, sendMessage, Avanza, ErrorEscritura,
                  EsperaFecha, Registra, ConversaInv, LinInv
    <2> QED BY <1>1, <2>1, <2>2, ServidorPasa DEF ConversaInv
  <1>10. CASE UNCHANGED vars
    <2>1. UNCHANGED <<cliente, fin, red, pet, fecha, servidor>>
      BY <1>10 DEF vars
    <2>2. ClienteInv' /\ Mensajes' = Mensajes /\ L' = L /\ Orden' = Orden
      BY <2>1, ClienteQuieto
    <2>3. ASSUME NEW x, NEW b, Por(x, b) PROVE Por(x, b)'
      BY <2>1, <2>2, <2>3 DEF Por
    <2>4. ASSUME NEW n, Exactas(n) PROVE Exactas(n)'
      BY <2>1, <2>2, <2>4 DEF Exactas, Escrito, Caben
    <2>5. ASSUME NEW x, HastaCampo(x) PROVE HastaCampo(x)'
      BY <2>1, <2>2, <2>5 DEF HastaCampo, Escrito, Caben
    <2>6. (PetCortada => PetCortada') /\ (Cortada => Cortada')
      BY <2>1, <2>2, <2>5 DEF PetCortada, Cortada
    <2>7. PetInv'
      BY <2>1, <2>2, <2>3, <2>4, <2>6 DEF ConversaInv, PetInv
    <2>8. FechaInv'
      BY <2>1 DEF ConversaInv, FechaInv
    <2> QED BY <1>1, <2>2, <2>7, <2>8 DEF ConversaInv
  <1> QED BY <1>2, <1>3, <1>4, <1>5, <1>6, <1>7, <1>8, <1>9, <1>10
          DEF Next, ClientePaso, ServidorPaso

\* Whatever pieces the stream comes in, read_to_pet takes no byte of the date
\* with a request that was written whole, and puts each field of it in its place
\* and leaves the others alone, if each one is shorter than its array.
THEOREM LaPeticionEsExacta == Spec => []PeticionExacta
  <1>1. ConversaInv => PeticionExacta
    <2> SUFFICES ASSUME ConversaInv, servidor.pc \notin {"peticion", "roto"}, cliente.entera
                 PROVE  /\ Len(Orden) = Len(cliente.sol)
                        /\ servidor.pc \in {"trata", "envia"} => IsPrefix(red, Cadena(FECHA))
                        /\ Caben =>
                             /\ \A i \in DOMAIN Orden : pet[Orden[i]] = cliente.sol[i]
                             /\ \A c \in Campos \ ToSet(Orden) : pet[c] = Viejo
      BY DEF PeticionExacta
    <2>1. ~PetCortada /\ ~Cortada
      BY DEF PetCortada, Cortada
    <2>2. Exactas(L)
      <3>1. servidor.pc \in {"trata", "envia", "fecha", "log", "fin", "registrada"}
        BY DEF ConversaInv, LinInv, TypeOK, Acabado
      <3> QED BY <2>1, <3>1 DEF ConversaInv, PetInv
    <2>3. /\ Len(Orden) = L /\ L \in Nat /\ DOMAIN Orden = 1 .. L
          /\ ToSet(Orden) = {Orden[x] : x \in 1 .. L}
      <3>1. Orden \in Seq(Campos)
        BY CamposForma DEF Orden
      <3>2. Len(Orden) = L /\ L \in Nat
        BY OrdenForma
      <3> QED BY <3>1, <3>2 DEF ToSet
    <2>4. servidor.pc \in {"trata", "envia"} => IsPrefix(red, Cadena(FECHA))
      <3>1. Len(Mensajes) = L + 1 /\ Mensajes[L + 1] = FECHA
        BY MensajesForma DEF ConversaInv, ClienteInv
      <3>2. servidor.pc \in {"trata", "envia"} => Por(L + 1, 0)
        BY <2>1 DEF ConversaInv, PetInv
      <3> QED BY <3>1, <3>2, TuboUltima DEF Por
    <2>5. ASSUME Caben, NEW i \in 1 .. L PROVE pet[Orden[i]] = cliente.sol[i]
      BY <2>2, <2>5, EscritoEntero DEF Exactas
    <2> QED BY <2>2, <2>3, <2>4, <2>5 DEF Exactas, L
  <1> QED BY InitPet, StepPet, <1>1, PTL DEF Spec

\* A request whose fields are shorter than their arrays and whose client dies is
\* the client's up to some field, that field is the beginning of the client's or
\* what it was, and the rest is what it was.
THEOREM ElCorteEsLimpio == Spec => []CorteLimpio
  <1>1. ConversaInv => CorteLimpio
    <2> SUFFICES ASSUME ConversaInv, servidor.pc \notin {"peticion", "roto"}, ~cliente.entera,
                        Caben
                 PROVE  \E x \in 1 .. L : HastaCampo(x)
      <3>1. ASSUME ConversaInv, Caben, NEW x \in 1 .. L, HastaCampo(x)
            PROVE  /\ \A i \in 1 .. x - 1 : pet[Orden[i]] = cliente.sol[i]
                   /\ pet[Orden[x]] = Viejo \/ IsPrefix(pet[Orden[x]], cliente.sol[x])
                   /\ \A c \in Campos \ {Orden[i] : i \in 1 .. x} : pet[c] = Viejo
        <4>1. L \in 2 .. 4
          BY <3>1, OrdenForma
        <4>2. \A i \in 1 .. x : Escrito(i) = cliente.sol[i]
          BY <3>1, <4>1, EscritoEntero
        <4>3. x \in 1 .. x /\ \A i \in 1 .. x - 1 : i \in 1 .. x
          BY <4>1
        <4> QED BY <3>1, <4>2, <4>3 DEF HastaCampo
      <3> QED BY <3>1 DEF CorteLimpio, L
    <2>1. CASE PetCortada
      BY <2>1 DEF PetCortada
    <2>2. CASE ~PetCortada
      <3>1. Exactas(L)
        <4>1. servidor.pc \in {"trata", "envia", "fecha", "log", "fin", "registrada"}
          BY DEF ConversaInv, LinInv, TypeOK, Acabado
        <4>2. ~Cortada
          BY <2>2 DEF Cortada
        <4> QED BY <2>2, <4>1, <4>2 DEF ConversaInv, PetInv
      <3>2. L \in 1 .. L /\ \A i \in 1 .. L - 1 : i \in 1 .. L
        BY OrdenForma
      <3>3. Escrito(L) \in Seq(Bytes)
        BY <3>2, EscritoEntero
      <3>4. IsPrefix(Escrito(L), Escrito(L))
        BY <3>3, PrefijoDeSi
      <3>5. HastaCampo(L)
        BY <3>1, <3>2, <3>4 DEF Exactas, HastaCampo
      <3> QED BY <3>2, <3>5
    <2> QED BY <2>1, <2>2
  <1> QED BY InitPet, StepPet, <1>1, PTL DEF Spec

\* No field of struct peticion, and no date, is longer than its array.
SinDesbordar ==
  /\ Caben => CamposEnteros
  /\ fecha # SinFecha => Len(fecha) < MAX_FECHA

\* A request whose fields are shorter than their arrays overruns none, whole or
\* cut anywhere; and the date of these clients never overruns date_hour.
THEOREM NingunCampoDesborda == Spec => []SinDesbordar
  <1>1. ConversaInv => SinDesbordar
    <2> SUFFICES ASSUME ConversaInv PROVE SinDesbordar
      OBVIOUS
    <2>1. L \in 2 .. 4
      BY OrdenForma
    <2>2. \/ \E n \in 0 .. L : Exactas(n)
          \/ \E n \in 1 .. L : HastaCampo(n)
      <3>1. servidor.pc \in {"peticion", "trata", "envia", "fecha", "log"} \cup Acabado
        BY DEF ConversaInv, LinInv, TypeOK
      <3>2. Cortada => PetCortada
        BY DEF Cortada
      <3>3. PetCortada => \E n \in 1 .. L : HastaCampo(n)
        BY DEF PetCortada
      <3>4. L \in 0 .. L /\ \A k \in 1 .. L : k - 1 \in 0 .. L
        BY <2>1
      <3>5. (\E n \in 0 .. L : Exactas(n)) \/ PetCortada
        BY <3>1, <3>2, <3>4 DEF ConversaInv, PetInv, Acabado
      <3> QED BY <3>3, <3>5
    <2>3. ASSUME Caben, NEW c \in Campos PROVE Len(pet[c]) < MAX_STR
      BY <2>2, <2>3, ExactasCaben, CortadaCabe
    <2>4. ASSUME fecha # SinFecha PROVE Len(fecha) < MAX_FECHA
      <3>1. IsPrefix(fecha, FECHA)
        BY <2>4 DEF ConversaInv, FechaInv
      <3>2. Len(fecha) <= Len(FECHA)
        BY <3>1 DEF IsPrefix
      <3> QED BY <3>2, FechaCabe, LineasAssumption
    <2> QED BY <2>3, <2>4 DEF SinDesbordar, CamposEnteros
  <1> QED BY InitPet, StepPet, <1>1, PTL DEF Spec

\* The log gets the date of the client, or the beginning of it, or none.
THEOREM LaFechaEsFiel == Spec => []FechaFiel
  <1>1. ConversaInv => FechaFiel
    BY DEF ConversaInv, FechaInv, FechaFiel
  <1> QED BY InitPet, StepPet, <1>1, PTL DEF Spec

-------------------------------------------------------------------------------
LEMMA Tripleta ==
  ASSUME NEW T, NEW a \in T, NEW b \in T, NEW c \in T
  PROVE  /\ \A y \in 1 .. 3 : <<a, b, c>>[y] \in T
         /\ \A y \in 1 .. 2 : <<a, b>>[y] \in T
  <1>1. 1 .. 3 = {1, 2, 3} /\ 1 .. 2 = {1, 2}
    OBVIOUS
  <1>2. <<a, b, c>>[1] = a /\ <<a, b, c>>[2] = b /\ <<a, b, c>>[3] = c
    OBVIOUS
  <1>3. <<a, b>>[1] = a /\ <<a, b>>[2] = b
    OBVIOUS
  <1> QED BY <1>1, <1>2, <1>3

\* The strings of an answer and of a listing.
LEMMA EntradasForma ==
  ASSUME NEW com, NEW l \in Seq(Seq(Letras))
  PROVE  /\ Entradas(com, l) \in Seq(Seq(Bytes))
         /\ Len(Entradas(com, l)) = Ancho(com) * Len(l)
  <1> DEFINE w == Ancho(com)
             N == w * Len(l)
             e(x) == Entrada(com, l[((x - 1) \div w) + 1])[((x - 1) % w) + 1]
             f == [x \in 1 .. N |-> e(x)]
  <1>1. w \in {2, 3} /\ Len(l) \in Nat /\ N \in Nat
    BY DEF Ancho
  <1>2. ASSUME NEW s \in Seq(Letras), NEW y \in 1 .. w
        PROVE  Entrada(com, s)[y] \in Seq(Bytes)
    <2>1. s \in Seq(Bytes) /\ <<"ip">> \in Seq(Bytes) /\ <<"puerto">> \in Seq(Bytes)
          /\ <<"texto">> \in Seq(Bytes)
      <3>1. Letras \subseteq Bytes /\ {"ip", "puerto", "texto"} \subseteq Bytes
        BY DEF Bytes
      <3> QED BY <3>1
    <2>2. CASE com = LIST_USERS
      <3>1. y \in 1 .. 3 /\ Entrada(com, s) = <<s, <<"ip">>, <<"puerto">>>>
        BY <2>2 DEF Ancho, Entrada
      <3> QED BY <2>1, <3>1, Tripleta, Zenon
    <2>3. CASE com # LIST_USERS
      <3>1. y \in 1 .. 2 /\ Entrada(com, s) = <<s, <<"texto">>>>
        BY <2>3 DEF Ancho, Entrada
      <3> QED BY <2>1, <3>1, Tripleta, Zenon
    <2> QED BY <2>2, <2>3
  <1>3. ASSUME NEW x \in 1 .. N PROVE e(x) \in Seq(Bytes)
    <2>1. /\ ((x - 1) \div w) + 1 \in 1 .. Len(l)
          /\ ((x - 1) % w) + 1 \in 1 .. w
      <3>1. CASE w = 2
        BY <1>1, <3>1
      <3>2. CASE w = 3
        BY <1>1, <3>2
      <3> QED BY <1>1, <3>1, <3>2
    <2>2. l[((x - 1) \div w) + 1] \in Seq(Letras)
      BY <2>1
    <2> QED BY <1>2, <2>1, <2>2
  <1>4. Entradas(com, l) = f
    BY DEF Entradas
  <1>5. f \in [1 .. N -> Seq(Bytes)]
    BY <1>3
  <1>6. f \in Seq(Seq(Bytes)) /\ DOMAIN f = 1 .. N
    <2> DEFINE T == Seq(Bytes)
    <2> HIDE DEF f, N, T
    <2>1. f \in [1 .. N -> T] /\ N \in Nat
      BY <1>1, <1>5 DEF T
    <2>2. Seq(T) = UNION {[1 .. n -> T] : n \in Nat}
      BY SeqDef
    <2>3. f \in Seq(T)
      BY <2>1, <2>2, Zenon
    <2>4. DOMAIN f = 1 .. N
      BY <2>1, Zenon
    <2> QED BY <2>3, <2>4 DEF T
  <1> HIDE DEF f, N, w
  <1> QED BY <1>1, <1>4, <1>6 DEF N, w

\* The client knows when it has read the whole of an answer.
LEMMA RespuestaForma ==
  ASSUME NEW com, NEW r \in Respuestas(com)
  PROVE  /\ r \in Seq(Seq(Bytes)) /\ Len(r) >= 1
         /\ \A l \in Seq(Seq(Bytes)) :
              /\ Len(l) \in 1 .. Len(r) /\ (\A x \in 1 .. Len(l) : l[x] = r[x])
              /\ Len(l) = PorLeer(com, l)
              => Len(l) = Len(r)
  <1>1. /\ Len(Digito) = 5 /\ DOMAIN Digito = 1 .. 5
        /\ \A i \in 1 .. 5 : Digito[i] \in Seq(Bytes)
        /\ \A i, k \in 1 .. 5 : Digito[i] = Digito[k] => i = k
    BY DEF Digito, Bytes
  <1>2. ASSUME NEW s \in 1 .. 5, r = <<Digito[s]>>, s # 1 \/ com \notin Listados
        PROVE  /\ r \in Seq(Seq(Bytes)) /\ Len(r) >= 1
               /\ \A l : Len(l) \in 1 .. Len(r) => Len(l) = Len(r)
    <2>1. PICK d \in Seq(Bytes) : d = Digito[s]
      BY <1>1
    <2>2. <<d>> \in Seq(Seq(Bytes)) /\ Len(<<d>>) = 1
      OBVIOUS
    <2>3. r = <<d>>
      BY <1>2, <2>1
    <2>4. Len(r) = 1 /\ r \in Seq(Seq(Bytes))
      BY <2>2, <2>3, Zenon
    <2>5. \A n \in 1 .. 1 : n = 1
      OBVIOUS
    <2>6. 1 >= 1
      OBVIOUS
    <2> QED BY <2>4, <2>5, <2>6, Zenon
  <1>3. ASSUME com \in Listados, NEW n \in Listas,
               r = <<Digito[1], Digito[Len(n) + 1]>> \o Entradas(com, n)
        PROVE  /\ r \in Seq(Seq(Bytes)) /\ Len(r) >= 1
               /\ \A l \in Seq(Seq(Bytes)) :
                    /\ Len(l) \in 1 .. Len(r) /\ (\A x \in 1 .. Len(l) : l[x] = r[x])
                    /\ Len(l) = PorLeer(com, l)
                    => Len(l) = Len(r)
    <2>0. Len(n) + 1 \in 1 .. 5
      <3>1. Len(n) < 5 /\ n \in Seq(Seq(Letras))
        BY <1>1, LineasAssumption
      <3>2. Len(n) \in Nat
        BY <3>1, LenProperties
      <3> QED BY <3>1, <3>2
    <2> DEFINE c == <<Digito[1], Digito[Len(n) + 1]>>
               e == Entradas(com, n)
               w == Ancho(com)
    <2>1. n \in Seq(Seq(Letras)) /\ Len(n) \in 0 .. 4
      <3>1. Len(n) < 5 /\ n \in Seq(Seq(Letras))
        BY <1>1, LineasAssumption
      <3>2. PICK z \in Nat : z = Len(n)
        BY <3>1, LenProperties
      <3>3. z < 5 => z \in 0 .. 4
        OBVIOUS
      <3> QED BY <3>1, <3>2, <3>3
    <2>2. e \in Seq(Seq(Bytes)) /\ Len(e) = w * Len(n) /\ w \in {2, 3}
      BY <2>1, EntradasForma DEF Ancho
    <2>3. c \in Seq(Seq(Bytes)) /\ Len(c) = 2 /\ c[1] = Digito[1]
          /\ c[2] = Digito[Len(n) + 1]
      <3>1. PICK d \in Seq(Bytes), g \in Seq(Bytes) : d = Digito[1] /\ g = Digito[Len(n) + 1]
        <4>1. 1 \in 1 .. 5
          OBVIOUS
        <4> QED BY <1>1, <2>0, <4>1, Zenon
      <3>2. /\ <<d, g>> \in Seq(Seq(Bytes)) /\ Len(<<d, g>>) = 2
            /\ <<d, g>>[1] = d /\ <<d, g>>[2] = g
        OBVIOUS
      <3>3. c = <<d, g>>
        BY <3>1
      <3> QED BY <3>1, <3>2, <3>3, Zenon
    <2> HIDE DEF c, e
    <2>4. /\ r \in Seq(Seq(Bytes)) /\ Len(r) = 2 + w * Len(n)
          /\ r[1] = c[1] /\ r[2] = c[2]
      <3>1. r = c \o e /\ Len(e) \in Nat
        BY <1>3, <2>2 DEF c, e
      <3>2. /\ c \o e \in Seq(Seq(Bytes)) /\ Len(c \o e) = 2 + Len(e)
            /\ (c \o e)[1] = c[1] /\ (c \o e)[2] = c[2]
        <4>1. /\ c \o e \in Seq(Seq(Bytes)) /\ Len(c \o e) = Len(c) + Len(e)
              /\ \A i \in 1 .. Len(c) + Len(e) :
                   (c \o e)[i] = IF i <= Len(c) THEN c[i] ELSE e[i - Len(c)]
          BY <2>2, <2>3, ConcatProperties
        <4>2. Len(c) = 2 /\ 1 \in 1 .. Len(c) + Len(e) /\ 2 \in 1 .. Len(c) + Len(e)
          BY <2>3, <3>1
        <4> QED BY <4>1, <4>2
      <3> QED BY <2>2, <3>1, <3>2
    <2>5. Len(r) \in Nat /\ Len(r) >= 2
      <3>1. w * Len(n) \in Nat
        BY <2>1, <2>2
      <3> QED BY <2>4, <3>1
    <2>6. ASSUME NEW l \in Seq(Seq(Bytes)), Len(l) \in 1 .. Len(r),
                 \A x \in 1 .. Len(l) : l[x] = r[x], Len(l) = PorLeer(com, l)
          PROVE  Len(l) = Len(r)
      <3>1. l[1] = Digito[1]
        BY <2>3, <2>4, <2>6
      <3>2. Len(l) # 1
        BY <1>3, <2>6, <3>1 DEF PorLeer
      <3>3. l[2] = Digito[Len(n) + 1]
        <4>1. 2 \in 1 .. Len(l)
          BY <2>5, <2>6, <3>2
        <4> QED BY <2>3, <2>4, <2>6, <4>1
      <3>4. (CHOOSE i \in DOMAIN Digito : Digito[i] = l[2]) = Len(n) + 1
        <4>1. Len(n) + 1 \in 1 .. 5
          BY <2>0
        <4>2. \A i \in DOMAIN Digito : Digito[i] = l[2] <=> i = Len(n) + 1
          BY <1>1, <3>3, <4>1
        <4> QED BY <1>1, <4>1, <4>2
      <3>5. PorLeer(com, l) = 2 + w * ((CHOOSE i \in DOMAIN Digito : Digito[i] = l[2]) - 1)
        BY <1>3, <3>1, <3>2 DEF PorLeer
      <3>6. (Len(n) + 1) - 1 = Len(n)
        BY <2>1
      <3> QED BY <2>4, <2>6, <3>4, <3>5, <3>6
    <2> QED BY <2>4, <2>5, <2>6
  <1>4. \/ \E s \in 1 .. 5 : r = <<Digito[s]>> /\ (s # 1 \/ com \notin Listados)
        \/ com \in Listados /\ \E n \in Listas :
             r = <<Digito[1], Digito[Len(n) + 1]>> \o Entradas(com, n)
    <2>1. 1 \in 1 .. 5 /\ \A s \in 2 .. 5 : s \in 1 .. 5 /\ s # 1
      OBVIOUS
    <2> QED BY <2>1, Zenon DEF Respuestas
  <1> QED BY <1>2, <1>3, <1>4

\* The sequence a is the beginning of b.
Empieza(a, b) == Len(a) <= Len(b) /\ \A x \in 1 .. Len(a) : a[x] = b[x]

LEMMA EmpiezaPrefijo ==
  ASSUME NEW S, NEW a \in Seq(S), NEW b \in Seq(S), Empieza(a, b)
  PROVE  IsPrefix(a, b) /\ (Len(a) = Len(b) => a = b)
  <1>1. Len(a) \in Nat /\ Len(b) \in Nat /\ Len(a) <= Len(b)
        /\ \A x \in 1 .. Len(a) : a[x] = b[x]
    BY DEF Empieza
  <1>2. SubSeq(a, 1, Len(a)) = a
    BY SubSeqFull
  <1>3. CASE Len(a) = 0
    <2>1. SubSeq(b, 1, Len(a)) = <<>> /\ a = <<>>
      BY <1>3, SubSeqEmpty
    <2>2. Len(b) = 0 => b = <<>>
      OBVIOUS
    <2> QED BY <1>1, <1>2, <1>3, <2>1, <2>2 DEF IsPrefix
  <1>4. CASE Len(a) # 0
    <2> DEFINE c == SubSeq(b, 1, Len(a))
    <2>1. 1 \in Int /\ Len(a) \in Int /\ \A i \in 1 .. Len(a) : b[i] \in S
      BY <1>1
    <2>2. /\ c \in Seq(S)
          /\ Len(c) = IF 1 <= Len(a) THEN Len(a) - 1 + 1 ELSE 0
          /\ \A i \in 1 .. Len(a) - 1 + 1 : c[i] = b[1 + i - 1]
      BY <2>1, SubSeqProperties
    <2> HIDE DEF c
    <2>3. Len(c) = Len(a) /\ \A i \in 1 .. Len(a) : c[i] = b[i]
      BY <1>1, <1>4, <2>2
    <2>4. c = a
      BY <1>1, <2>2, <2>3, SeqEqual
    <2>5. Len(a) = Len(b) => a = b
      BY <1>1, SeqEqual
    <2> QED BY <1>1, <1>2, <2>4, <2>5 DEF IsPrefix, c
  <1> QED BY <1>3, <1>4

\* One element more.
LEMMA EmpiezaSigue ==
  ASSUME NEW S, NEW a \in Seq(S), NEW b \in Seq(S), Empieza(a, b),
         Len(a) + 1 <= Len(b), NEW e \in S, e = b[Len(a) + 1]
  PROVE  /\ Append(a, e) \in Seq(S) /\ Len(Append(a, e)) = Len(a) + 1
         /\ Empieza(Append(a, e), b)
  <1>1. Append(a, e) \in Seq(S) /\ Len(Append(a, e)) = Len(a) + 1
    OBVIOUS
  <1>2. /\ \A x \in 1 .. Len(a) : Append(a, e)[x] = a[x]
        /\ Append(a, e)[Len(a) + 1] = e
    OBVIOUS
  <1>3. \A x \in 1 .. Len(a) + 1 : x \in 1 .. Len(a) \/ x = Len(a) + 1
    OBVIOUS
  <1> QED BY <1>1, <1>2, <1>3 DEF Empieza

-------------------------------------------------------------------------------
(* The answer. *)

\* What the client has read, and what the stream has for it.
Leyendose ==
  LET r == servidor.respuesta
      k == Len(cliente.leido) + 1
  IN  /\ Tubo(vuelta, r, k, Len(cliente.a), servidor.m, servidor.j)
      /\ \A y \in 1 .. Len(cliente.a) : cliente.a[y] = r[k][y]

\* The inductive invariant of the answer: it is one for the request that was read,
\* the client has the beginning of it, and the stream brings the next byte.
RespInv ==
  LET r == servidor.respuesta
  IN  /\ r \in Seq(Seq(Bytes))
      /\ cliente.leido \in Seq(Seq(Bytes)) /\ cliente.a \in Seq(Bytes)
      /\ Empieza(cliente.leido, r)
      /\ servidor.pc \in {"peticion", "trata", "roto"} => r = <<>>
      /\ servidor.pc \notin {"peticion", "trata", "roto"} =>
           r \in Respuestas(pet["command_str"])
      /\ r = <<>> => /\ cliente.pc \in {"pide", "lee", "muerto"}
                     /\ vuelta = <<>> /\ cliente.leido = <<>> /\ cliente.a = <<>>
                     /\ servidor.m = 1 /\ servidor.j = 0
      /\ servidor.m \in Nat \ {0} /\ servidor.j \in Nat
      /\ servidor.m <= Len(r) => servidor.j <= Len(r[servidor.m])
      /\ cliente.pc \in {"pide", "lee"} => Leyendose
      /\ cliente.pc \in {"fecha", "fin"} =>
           IF cliente.bien THEN cliente.leido = r
           ELSE \E i \in DOMAIN r : ToSet(r[i]) \cap Sueltos # {}

LEMMA InitResp == Init => RespInv
  <1> SUFFICES ASSUME Init PROVE RespInv
    OBVIOUS
  <1>1. /\ servidor.respuesta = <<>> /\ cliente.leido = <<>> /\ cliente.a = <<>>
        /\ vuelta = <<>> /\ servidor.m = 1 /\ servidor.j = 0
        /\ servidor.pc = "peticion" /\ cliente.pc = "pide"
    BY DEF Init
  <1>2. /\ <<>> \in Seq(Seq(Bytes)) /\ <<>> \in Seq(Bytes) /\ Len(<<>>) = 0
    OBVIOUS
  <1>3. Tubo(<<>>, <<>>, 1, 0, 1, 0)
    BY <1>2, TuboInicial
  <1>4. 1 .. 0 = {} /\ 0 <= 0 /\ 0 + 1 = 1 /\ ~(1 <= 0) /\ 1 \in Nat \ {0} /\ 0 \in Nat
    OBVIOUS
  <1>5. Leyendose
    BY <1>1, <1>2, <1>3, <1>4 DEF Leyendose
  <1>6. Empieza(<<>>, <<>>)
    BY <1>2, <1>4 DEF Empieza
  <1> QED BY <1>1, <1>2, <1>4, <1>5, <1>6 DEF RespInv

\* The steps that neither send nor read any of it.
LEMMA RespPasa ==
  ASSUME RespInv, vuelta' = vuelta,
         cliente'.leido = cliente.leido, cliente'.a = cliente.a,
         cliente'.bien = cliente.bien,
         \/ cliente'.pc = cliente.pc \/ cliente'.pc = "muerto"
         \/ cliente.pc = "pide" /\ cliente'.pc = "lee"
         \/ cliente.pc = "fecha" /\ cliente'.pc = "fin",
         servidor'.respuesta = servidor.respuesta, servidor'.m = servidor.m,
         servidor'.j = servidor.j,
         \/ servidor'.pc = servidor.pc /\ pet' = pet
         \/ servidor.pc = "peticion" /\ servidor'.pc \in {"peticion", "trata", "roto"}
         \/ servidor.pc \notin {"peticion", "trata", "roto"} /\ pet' = pet
            /\ servidor'.pc \notin {"peticion", "trata", "roto"}
  PROVE  RespInv'
  <1>1. Leyendose => Leyendose'
    BY DEF Leyendose
  <1> QED BY <1>1 DEF RespInv, Empieza

\* An answer of the request that was read.
LEMMA RespResponde == ASSUME ConversaInv, RespInv, Responde PROVE RespInv'
  <1>1. /\ servidor.respuesta = <<>>
        /\ cliente.pc \in {"pide", "lee", "muerto"}
        /\ vuelta = <<>> /\ cliente.leido = <<>> /\ cliente.a = <<>>
        /\ servidor.m = 1 /\ servidor.j = 0
    BY DEF RespInv, Responde
  <1>2. PICK r \in Respuestas(pet["command_str"]) :
          servidor' = [servidor EXCEPT !.pc = "envia", !.respuesta = r]
    BY DEF Responde
  <1>3. /\ servidor'.pc = "envia" /\ servidor'.respuesta = r /\ servidor'.m = 1
        /\ servidor'.j = 0 /\ UNCHANGED <<cliente, pet, vuelta>>
    BY <1>1, <1>2 DEF Responde, ConversaInv, LinInv
  <1>4. r \in Seq(Seq(Bytes)) /\ Len(r) >= 1 /\ r # <<>>
    <2>1. r \in Seq(Seq(Bytes)) /\ Len(r) >= 1
      BY RespuestaForma
    <2>2. r # <<>>
      BY <2>1
    <2> QED BY <2>1, <2>2
  <1>5. /\ <<>> \in Seq(Seq(Bytes)) /\ <<>> \in Seq(Bytes) /\ Len(<<>>) = 0 /\ 1 .. 0 = {}
        /\ 0 + 1 = 1
    OBVIOUS
  <1>6. Tubo(<<>>, r, 1, 0, 1, 0)
    BY <1>4, TuboInicial
  <1>7. Leyendose'
    BY <1>1, <1>3, <1>5, <1>6 DEF Leyendose
  <1>8. Empieza(<<>>, r)
    BY <1>4, <1>5 DEF Empieza
  <1>9. 0 <= Len(r[1]) /\ 1 \in Nat \ {0} /\ 0 \in Nat
    BY <1>4
  <1> QED BY <1>1, <1>3, <1>4, <1>5, <1>7, <1>8, <1>9 DEF RespInv

\* Any part of the message.
LEMMA RespEnvia == ASSUME ConversaInv, RespInv, sendMessage PROVE RespInv'
  <1> DEFINE R == servidor.respuesta
             m == servidor.m
             j == servidor.j
             c == Cadena(R[m])
             l == Len(c) - j
  <1>1. /\ R \in Seq(Seq(Bytes)) /\ m \in Nat \ {0} /\ j \in Nat
        /\ m <= Len(R) => j <= Len(R[m])
        /\ servidor.pc = "envia" /\ ~(m > Len(R))
    BY DEF RespInv, sendMessage, Enviada
  <1>2. m \in 1 .. Len(R) /\ j <= Len(R[m]) /\ Len(R) \in Nat
    BY <1>1
  <1>3. R[m] \in Seq(Bytes) /\ Len(R[m]) \in Nat
    BY <1>1, <1>2
  <1>4. c \in Flujos /\ Len(c) = Len(R[m]) + 1
    BY <1>3, CadenaForma
  <1>5. PICK r \in 1 .. l : /\ vuelta' = vuelta \o SubSeq(c, j + 1, j + r)
                            /\ servidor' = Avanza(r, l)
    BY DEF sendMessage
  <1>6. /\ UNCHANGED <<cliente, pet>> /\ servidor'.pc = "envia" /\ servidor'.respuesta = R
        /\ r = l => servidor'.m = m + 1 /\ servidor'.j = 0
        /\ r # l => servidor'.m = m /\ servidor'.j = j + r
    BY <1>1, <1>5 DEF sendMessage, Avanza, ConversaInv, LinInv
  <1> HIDE DEF R, m, j, c
  <1>7. r \in Nat /\ r >= 1 /\ j + r <= Len(c) /\ r \in 1 .. Len(R[m]) + 1 - j
        /\ (r = l <=> r = Len(R[m]) + 1 - j)
    BY <1>1, <1>2, <1>3, <1>4
  <1>8. ASSUME NEW k, NEW b, Tubo(vuelta, R, k, b, m, j)
        PROVE  Tubo(vuelta', R, k, b, servidor'.m, servidor'.j)
    <2> DEFINE p == SubSeq(c, j + 1, j + r)
    <2>1. vuelta \in Flujos /\ Len(vuelta) \in Nat
      BY <1>8 DEF Tubo, Flujos
    <2>2. \A i \in j + 1 .. j + r : c[i] \in Bytes \cup {NUL}
      BY <1>1, <1>4, <1>7 DEF Flujos
    <2>3. /\ p \in Flujos
          /\ Len(p) = IF j + 1 <= j + r THEN (j + r) - (j + 1) + 1 ELSE 0
          /\ \A i \in 1 .. (j + r) - (j + 1) + 1 : p[i] = c[(j + 1) + i - 1]
      <3>1. j + 1 \in Int /\ j + r \in Int
        BY <1>1, <1>7
      <3> QED BY <2>2, <3>1, SubSeqProperties DEF Flujos
    <2> HIDE DEF p
    <2>4. Len(p) = r /\ \A i \in 1 .. r : p[i] = c[j + i]
      <3>1. /\ (j + r) - (j + 1) + 1 = r /\ j + 1 <= j + r
            /\ \A i \in 1 .. r : (j + 1) + i - 1 = j + i
        BY <1>1, <1>7
      <3> QED BY <2>3, <3>1
    <2>5. /\ vuelta' \in Flujos /\ Len(vuelta') = Len(vuelta) + Len(p)
          /\ \A i \in 1 .. Len(vuelta) + Len(p) :
               vuelta'[i] = IF i <= Len(vuelta) THEN vuelta[i] ELSE p[i - Len(vuelta)]
      BY <1>5, <2>1, <2>3, ConcatProperties DEF Flujos, p
    <2>6. \A i \in 1 .. Len(vuelta) : vuelta'[i] = vuelta[i]
      <3>1. \A i \in 1 .. Len(vuelta) : i \in 1 .. Len(vuelta) + Len(p) /\ i <= Len(vuelta)
        BY <1>7, <2>1, <2>4
      <3> QED BY <2>5, <3>1
    <2>7. \A i \in 1 .. r : vuelta'[Len(vuelta) + i] = c[j + i]
      <3>1. \A i \in 1 .. r : /\ Len(vuelta) + i \in 1 .. Len(vuelta) + Len(p)
                              /\ ~(Len(vuelta) + i <= Len(vuelta))
                              /\ (Len(vuelta) + i) - Len(vuelta) = i
        BY <1>7, <2>1, <2>4
      <3> QED BY <2>4, <2>5, <3>1
    <2>8. Sigue(vuelta', vuelta, R, m, j, r)
      BY <1>7, <2>4, <2>5, <2>6, <2>7 DEF Sigue, c
    <2>9. IF r = Len(R[m]) + 1 - j THEN Tubo(vuelta', R, k, b, m + 1, 0)
          ELSE Tubo(vuelta', R, k, b, m, j + r)
      BY <1>2, <1>8, <2>8, TuboEscribe
    <2> QED BY <1>6, <1>7, <2>9
  <1>9. Leyendose => Leyendose'
    BY <1>6, <1>8 DEF Leyendose, R, m, j
  <1>10. /\ servidor'.m \in Nat \ {0} /\ servidor'.j \in Nat
         /\ servidor'.m <= Len(R) => servidor'.j <= Len(R[servidor'.m])
    <2>1. CASE r = l
      <3>1. m + 1 \in Nat \ {0} /\ 0 \in Nat
            /\ (m + 1 <= Len(R) => 0 <= Len(R[m + 1]))
        BY <1>1, <1>2
      <3> QED BY <1>6, <2>1, <3>1
    <2>2. CASE r # l
      <3>1. j + r \in Nat /\ j + r <= Len(R[m])
        BY <1>1, <1>3, <1>4, <1>7, <2>2
      <3> QED BY <1>1, <1>6, <2>2, <3>1
    <2> QED BY <2>1, <2>2
  <1>11. R # <<>>
    <2>1. Len(R) # 0
      BY <1>2
    <2> QED BY <2>1
  <1> QED BY <1>1, <1>6, <1>9, <1>10, <1>11 DEF RespInv, Empieza, R

\* The command that the server answers is the one the client waits for.
LEMMA MismoComando ==
  ASSUME ConversaInv, RespInv, cliente.pc = "lee", servidor.respuesta # <<>>
  PROVE  servidor.respuesta \in Respuestas(cliente.sol[1])
  <1>1. servidor.pc \notin {"peticion", "trata", "roto"} /\ ~PetCortada /\ ~Cortada
    BY DEF RespInv, PetCortada, Cortada
  <1>2. Exactas(L)
    <2>1. servidor.pc \in {"envia", "fecha", "log", "fin", "registrada"}
      BY <1>1 DEF ConversaInv, LinInv, TypeOK, Acabado
    <2> QED BY <1>1, <2>1 DEF ConversaInv, PetInv
  <1>3. 1 \in 1 .. L
    BY OrdenForma
  <1>4. pet["command_str"] = cliente.sol[1]
    BY <1>2, <1>3, OrdenDelServidor DEF Exactas
  <1> QED BY <1>1, <1>4 DEF RespInv

\* One byte of the answer.
LEMMA RespLee == ASSUME ConversaInv, RespInv, read_string PROVE RespInv'
  <1> DEFINE r == servidor.respuesta
             l == cliente.leido
             a == cliente.a
             k == Len(l) + 1
             b == Len(a)
             ch == Head(vuelta)
             l2 == Append(l, a)
  <1>1. /\ cliente.pc = "lee" /\ vuelta # <<>> /\ vuelta' = Tail(vuelta)
        /\ UNCHANGED <<servidor, pet>>
    BY DEF read_string
  <1>2. /\ r \in Seq(Seq(Bytes)) /\ l \in Seq(Seq(Bytes)) /\ a \in Seq(Bytes)
        /\ Empieza(l, r) /\ r # <<>>
        /\ \A y \in 1 .. b : a[y] = r[k][y]
        /\ Tubo(vuelta, r, k, b, servidor.m, servidor.j)
    BY <1>1 DEF RespInv, Leyendose
  <1>3. r \in Respuestas(cliente.sol[1])
    BY <1>1, <1>2, MismoComando
  <1>4. cliente' =
          CASE ch = NUL -> IF Len(l2) = PorLeer(cliente.sol[1], l2)
                           THEN AlFinally([cliente EXCEPT !.leido = l2, !.a = <<>>], TRUE)
                           ELSE [cliente EXCEPT !.leido = l2, !.a = <<>>]
            [] ch \in Sueltos -> AlFinally(cliente, FALSE)
            [] OTHER -> [cliente EXCEPT !.a = Append(@, ch)]
    BY DEF read_string
  <1> HIDE DEF r, l, a, ch, l2
  <1>5. /\ k \in 1 .. Len(r) /\ b \in 0 .. Len(r[k])
        /\ ch = NUL => /\ b = Len(r[k])
                       /\ Tubo(vuelta', r, k + 1, 0, servidor.m, servidor.j)
        /\ ch # NUL => /\ b < Len(r[k]) /\ ch = r[k][b + 1]
                       /\ Tubo(vuelta', r, k, b + 1, servidor.m, servidor.j)
    BY SMTT(30), <1>1, <1>2, TuboLee DEF ch
  <1>6. /\ r[k] \in Seq(Bytes) /\ Len(r[k]) \in Nat /\ Len(l) \in Nat /\ Len(r) \in Nat
        /\ b \in Nat
    BY <1>2, <1>5
  <1>7. Empieza(a, r[k])
    BY <1>2, <1>5 DEF Empieza
  <1>8. CASE ch = NUL
    <2>1. a = r[k]
      BY <1>2, <1>5, <1>6, <1>7, <1>8, EmpiezaPrefijo
    <2>2. l2 \in Seq(Seq(Bytes)) /\ Len(l2) = k /\ Empieza(l2, r)
      <3>1. Len(l) + 1 <= Len(r)
        BY <1>5
      <3> QED BY <1>2, <1>6, <2>1, <3>1, EmpiezaSigue DEF l2
    <2>3. /\ cliente'.leido = l2 /\ cliente'.a = <<>>
          /\ \/ cliente'.pc = "lee"
             \/ /\ cliente'.pc = "fecha" /\ cliente'.bien = TRUE
                /\ Len(l2) = PorLeer(cliente.sol[1], l2)
      <3>1. CASE Len(l2) = PorLeer(cliente.sol[1], l2)
        <4>1. cliente' = AlFinally([cliente EXCEPT !.leido = l2, !.a = <<>>], TRUE)
          BY <1>4, <1>8, <3>1, LineasAssumption
        <4> QED BY <3>1, <4>1 DEF AlFinally, ConversaInv, LinInv
      <3>2. CASE Len(l2) # PorLeer(cliente.sol[1], l2)
        <4>1. cliente' = [cliente EXCEPT !.leido = l2, !.a = <<>>]
          BY <1>4, <1>8, <3>2, LineasAssumption
        <4> QED BY <1>1, <4>1 DEF ConversaInv, LinInv
      <3> QED BY <3>1, <3>2
    <2>4. <<>> \in Seq(Bytes) /\ Len(<<>>) = 0 /\ 1 .. 0 = {}
      OBVIOUS
    <2>5. Leyendose'
      BY <1>1, <1>5, <1>8, <2>2, <2>3, <2>4 DEF Leyendose, r
    <2>6. cliente'.pc = "fecha" => cliente'.leido = r
      <3> SUFFICES ASSUME cliente'.pc = "fecha" PROVE l2 = r
        BY <2>3
      <3>1. Len(l2) = PorLeer(cliente.sol[1], l2)
        BY <2>3
      <3>2. Len(l2) \in 1 .. Len(r) /\ \A x \in 1 .. Len(l2) : l2[x] = r[x]
        BY <1>5, <2>2 DEF Empieza
      <3>3. Len(l2) = Len(r)
        BY <1>3, <2>2, <3>1, <3>2, RespuestaForma
      <3> QED BY <1>2, <2>2, <3>3, EmpiezaPrefijo
    <2> QED BY <1>1, <1>2, <2>2, <2>3, <2>4, <2>5, <2>6 DEF RespInv, r
  <1>9. CASE ch # NUL /\ ch \in Sueltos
    <2>1. cliente' = AlFinally(cliente, FALSE)
      BY <1>4, <1>9
    <2>2. /\ cliente'.leido = l /\ cliente'.a = a /\ cliente'.pc = "fecha"
          /\ cliente'.bien = FALSE
      BY <2>1 DEF AlFinally, ConversaInv, LinInv, l, a
    <2>3. \E i \in DOMAIN r : ToSet(r[i]) \cap Sueltos # {}
      <3>1. k \in DOMAIN r /\ b + 1 \in DOMAIN r[k]
        BY <1>2, <1>5, <1>6, <1>9
      <3>2. ch \in ToSet(r[k])
        BY <1>5, <1>9, <3>1 DEF ToSet
      <3> QED BY <1>9, <3>1, <3>2
    <2> QED BY <1>1, <1>2, <2>2, <2>3 DEF RespInv, r, l, a
  <1>10. CASE ch # NUL /\ ch \notin Sueltos
    <2>1. cliente' = [cliente EXCEPT !.a = Append(@, ch)]
      BY <1>4, <1>10
    <2>2. cliente'.leido = l /\ cliente'.a = Append(a, ch) /\ cliente'.pc = "lee"
      BY <1>1, <2>1 DEF ConversaInv, LinInv, l, a
    <2>3. ch \in Bytes /\ ch = r[k][b + 1] /\ b + 1 <= Len(r[k])
      BY <1>5, <1>6, <1>10
    <2>4. Append(a, ch) \in Seq(Bytes) /\ Len(Append(a, ch)) = b + 1
          /\ Empieza(Append(a, ch), r[k])
      BY <1>2, <1>6, <1>7, <2>3, EmpiezaSigue
    <2>5. Leyendose'
      BY <1>1, <1>5, <1>10, <2>2, <2>4 DEF Leyendose, Empieza, r, l
    <2> QED BY <1>1, <1>2, <2>2, <2>4, <2>5 DEF RespInv, r, l
  <1> QED BY <1>8, <1>9, <1>10

LEMMA StepResp == ConversaInv /\ RespInv /\ [Next]_vars => RespInv'
  <1> SUFFICES ASSUME ConversaInv, RespInv, [Next]_vars PROVE RespInv'
    OBVIOUS
  <1>1. CASE write_string \/ EsperaRespuesta \/ Cierra \/ Muere
    <2>1. /\ UNCHANGED <<servidor, pet, vuelta>>
          /\ cliente'.leido = cliente.leido /\ cliente'.a = cliente.a
          /\ cliente'.bien = cliente.bien
          /\ \/ cliente'.pc = cliente.pc \/ cliente'.pc = "muerto"
             \/ cliente.pc = "pide" /\ cliente'.pc = "lee"
             \/ cliente.pc = "fecha" /\ cliente'.pc = "fin"
      BY <1>1 DEF write_string, EsperaRespuesta, Cierra, Muere, ConversaInv, LinInv
    <2> QED BY <2>1, RespPasa
  <1>2. CASE read_string
    BY <1>2, RespLee
  <1>3. CASE readLine
    <2>1. UNCHANGED <<cliente, vuelta>> /\ servidor.pc \in {"peticion", "fecha"}
      BY <1>3 DEF readLine, Leyendo
    <2>2. CASE Head(red) = NUL
      <3>1. Guarda(servidor.buf, TRUE)
        BY <1>3, <2>2 DEF readLine
      <3>2. /\ servidor'.respuesta = servidor.respuesta /\ servidor'.m = servidor.m
            /\ servidor'.j = servidor.j
            /\ \/ servidor.pc = "peticion" /\ servidor'.pc \in {"peticion", "trata", "roto"}
               \/ servidor.pc = "fecha" /\ servidor'.pc = "log" /\ pet' = pet
        BY <2>1, <3>1 DEF Guarda, Anota, ConversaInv, LinInv
      <3> QED BY <2>1, <3>2, RespPasa
    <2>3. CASE Head(red) # NUL
      <3>1. /\ servidor'.respuesta = servidor.respuesta /\ servidor'.m = servidor.m
            /\ servidor'.j = servidor.j /\ servidor'.pc = servidor.pc /\ pet' = pet
        BY <1>3, <2>3 DEF readLine, ConversaInv, LinInv
      <3> QED BY <2>1, <3>1, RespPasa
    <2> QED BY <2>2, <2>3
  <1>4. CASE FinDeFichero
    <2>1. /\ UNCHANGED <<cliente, vuelta>> /\ servidor.pc \in {"peticion", "fecha"}
          /\ Guarda(servidor.buf, servidor.buf # <<>>)
      BY <1>4 DEF FinDeFichero, Leyendo
    <2>2. /\ servidor'.respuesta = servidor.respuesta /\ servidor'.m = servidor.m
          /\ servidor'.j = servidor.j
          /\ \/ servidor.pc = "peticion" /\ servidor'.pc \in {"peticion", "trata", "roto"}
             \/ servidor.pc = "fecha" /\ servidor'.pc = "log" /\ pet' = pet
      BY <2>1 DEF Guarda, Anota, ConversaInv, LinInv
    <2> QED BY <2>1, <2>2, RespPasa
  <1>5. CASE Responde
    BY <1>5, RespResponde
  <1>6. CASE sendMessage
    BY <1>6, RespEnvia
  <1>7. CASE ErrorLectura \/ ErrorEscritura \/ EsperaFecha \/ Registra
    <2>1. /\ UNCHANGED <<cliente, vuelta, pet>>
          /\ servidor'.respuesta = servidor.respuesta /\ servidor'.m = servidor.m
          /\ servidor'.j = servidor.j
          /\ \/ servidor.pc = "peticion" /\ servidor'.pc = "roto"
             \/ servidor.pc = "fecha" /\ servidor'.pc = "fin"
             \/ servidor.pc = "envia" /\ servidor'.pc \in {"fin", "fecha"}
             \/ servidor.pc = "log" /\ servidor'.pc = "registrada"
      BY <1>7 DEF ErrorLectura, ErrorEscritura, EsperaFecha, Registra, Leyendo,
                  ConversaInv, LinInv
    <2> QED BY <2>1, RespPasa
  <1>8. CASE UNCHANGED vars
    BY <1>8, RespPasa DEF vars
  <1> QED BY <1>1, <1>2, <1>3, <1>4, <1>5, <1>6, <1>7, <1>8
          DEF Next, ClientePaso, ServidorPaso

\* read_string and read_number give the client the strings that sendMessage was
\* given, in order, and all of them when the request ends well.
THEOREM LaRespuestaEsEntera == Spec => []RespuestaEntera
  <1>1. RespInv => RespuestaEntera
    <2> SUFFICES ASSUME RespInv PROVE IsPrefix(cliente.leido, servidor.respuesta)
      BY DEF RespInv, RespuestaEntera
    <2> QED BY EmpiezaPrefijo DEF RespInv
  <1> QED BY InitPet, StepPet, InitResp, StepResp, <1>1, PTL DEF Spec
===============================================================================
