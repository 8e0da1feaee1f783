---------------------------- MODULE UserFileLineas ----------------------------
(***************************************************************************)
(* What the proofs of UserFileProofs need of the bytes of a user's file:   *)
(* how FlattenSeq joins the lines, where each line is, and what fscanf and *)
(* the loop of fgetc do at the beginning of a line or inside its path.     *)
(***************************************************************************)
EXTENDS UserFile, Integers, SequenceTheorems, FiniteSetTheorems, TLAPS

\* Every non-empty set of naturals has a least element: what follows by induction
\* over data is shown from it, on the set of the counterexamples.
LEMMA MinimoNat ==
  ASSUME NEW T, T \subseteq Nat, T # {}
  PROVE  \E x \in T : \A y \in T : x <= y
  <1> DEFINE R == {s \in Nat \X Nat : s[1] < s[2]}
  <1>1. IsWellFoundedOn(R, Nat)
    BY NatLessThanWellFounded DEF OpToRel
  <1> HIDE DEF R
  <1>2. PICK x \in T : \A y \in T : ~(<<y, x>> \in R)
    BY <1>1, WFMin
  <1>3. \A y \in T : ~(y < x)
    BY <1>2 DEF R
  <1> QED BY <1>3

-------------------------------------------------------------------------------
(* FlattenSeq. *)

\* f is the function that FlattenSeq defines by recursion over s, up to n.
Pega(f, s, n) ==
  f = [i \in 1 .. n |-> IF i = 1 THEN s[i] ELSE f[i - 1] \o s[i]]

LEMMA PegaExiste == ASSUME NEW s, NEW n \in Nat PROVE \E f : Pega(f, s, n)
  <1> DEFINE T == {m \in Nat : ~\E f : Pega(f, s, m)}
  <1>1. SUFFICES ASSUME T # {} PROVE FALSE
    OBVIOUS
  <1>2. PICK m \in T : \A y \in T : m <= y
    BY <1>1, MinimoNat
  <1>3. CASE m = 0
    <2>1. Pega([i \in 1 .. 0 |-> 0], s, 0)
      BY DEF Pega
    <2> QED BY <1>2, <1>3, <2>1
  <1>4. CASE m # 0
    <2>1. PICK g : Pega(g, s, m - 1)
      BY <1>2, <1>4
    <2> DEFINE f == [i \in 1 .. m |-> IF i < m THEN g[i]
                                      ELSE IF m = 1 THEN s[m] ELSE g[m - 1] \o s[m]]
    <2>2. \A i \in 1 .. m - 1 : g[i] = IF i = 1 THEN s[i] ELSE g[i - 1] \o s[i]
      BY <2>1 DEF Pega
    <2>3. \A i \in 1 .. m : f[i] = IF i = 1 THEN s[i] ELSE f[i - 1] \o s[i]
      BY <1>4, <2>2
    <2>4. Pega(f, s, m)
      BY <2>3 DEF Pega
    <2> QED BY <1>2, <2>4
  <1> QED BY <1>3, <1>4

LEMMA PegaPasa ==
  ASSUME NEW f, NEW s, NEW n \in Nat, Pega(f, s, n), NEW i \in 1 .. n
  PROVE  f[i] = IF i = 1 THEN s[i] ELSE f[i - 1] \o s[i]
  BY DEF Pega

LEMMA PegaUnica ==
  ASSUME NEW s, NEW t, NEW f, NEW g, NEW n \in Nat, NEW m \in Nat, n <= m,
         Pega(f, s, n), Pega(g, t, m), \A i \in 1 .. n : s[i] = t[i]
  PROVE  \A i \in 1 .. n : f[i] = g[i]
  <1> DEFINE T == {i \in 1 .. n : f[i] # g[i]}
  <1>1. SUFFICES ASSUME T # {} PROVE FALSE
    OBVIOUS
  <1>2. PICK i \in T : \A y \in T : i <= y
    <2>1. T \subseteq Nat
      OBVIOUS
    <2> QED BY <1>1, <2>1, MinimoNat
  <1>3. /\ f[i] = IF i = 1 THEN s[i] ELSE f[i - 1] \o s[i]
        /\ g[i] = IF i = 1 THEN t[i] ELSE g[i - 1] \o t[i]
    BY PegaPasa
  <1>4. i # 1 => f[i - 1] = g[i - 1]
    BY <1>2
  <1> QED BY <1>3, <1>4

LEMMA PegaTipo ==
  ASSUME NEW S, NEW s \in Seq(Seq(S)), NEW f, NEW n \in 0 .. Len(s), Pega(f, s, n)
  PROVE  \A i \in 1 .. n : f[i] \in Seq(S)
  <1> DEFINE T == {i \in 1 .. n : f[i] \notin Seq(S)}
  <1>1. SUFFICES ASSUME T # {} PROVE FALSE
    OBVIOUS
  <1>2. PICK i \in T : \A y \in T : i <= y
    <2>1. T \subseteq Nat
      OBVIOUS
    <2> QED BY <1>1, <2>1, MinimoNat
  <1>3. f[i] = IF i = 1 THEN s[i] ELSE f[i - 1] \o s[i]
    BY PegaPasa
  <1>4. i # 1 => f[i - 1] \in Seq(S)
    BY <1>2
  <1>5. s[i] \in Seq(S)
    OBVIOUS
  <1>6. f[i] \in Seq(S)
    BY <1>3, <1>4, <1>5
  <1> QED BY <1>6

LEMMA FlattenSeqPega ==
  ASSUME NEW s, NEW f, Len(s) \in Nat \ {0}, Pega(f, s, Len(s))
  PROVE  FlattenSeq(s) = f[Len(s)]
  <1> DEFINE F == CHOOSE g : g = [i \in 1 .. Len(s) |->
                                    IF i = 1 THEN s[i] ELSE g[i - 1] \o s[i]]
  <1>1. Pega(F, s, Len(s))
    BY DEF Pega
  <1>2. FlattenSeq(s) = F[Len(s)]
    BY DEF FlattenSeq
  <1> HIDE DEF F
  <1> QED BY <1>1, <1>2, PegaUnica

LEMMA FlattenSeqVacia == FlattenSeq(<<>>) = <<>>
  BY DEF FlattenSeq

\* One more sequence at the end.
LEMMA FlattenSeqAppend ==
  ASSUME NEW S, NEW s \in Seq(Seq(S)), NEW e \in Seq(S)
  PROVE  /\ FlattenSeq(s) \in Seq(S)
         /\ FlattenSeq(Append(s, e)) = FlattenSeq(s) \o e
  <1> DEFINE t == Append(s, e)
             n == Len(s)
  <1>1. n \in Nat /\ Len(t) = n + 1 /\ t[n + 1] = e /\ \A i \in 1 .. n : s[i] = t[i]
    OBVIOUS
  <1>2. PICK f : Pega(f, s, n)
    BY <1>1, PegaExiste
  <1>3. PICK g : Pega(g, t, n + 1)
    <2>1. n + 1 \in Nat
      BY <1>1
    <2> QED BY <2>1, PegaExiste
  <1> HIDE DEF t
  <1>4. FlattenSeq(t) = g[n + 1]
    BY <1>1, <1>3, FlattenSeqPega
  <1>5. g[n + 1] = IF n = 0 THEN e ELSE g[n] \o e
    <2>1. n + 1 \in 1 .. n + 1
      BY <1>1
    <2> QED BY <1>1, <1>3, <2>1, PegaPasa
  <1>6. CASE n = 0
    <2>1. s = <<>> /\ <<>> \in Seq(S) /\ <<>> \o e = e
      BY <1>6
    <2>2. FlattenSeq(t) = e
      BY <1>4, <1>5, <1>6
    <2> QED BY <2>1, <2>2, FlattenSeqVacia DEF t
  <1>7. CASE n # 0
    <2>1. FlattenSeq(s) = f[n] /\ f[n] \in Seq(S)
      BY <1>1, <1>2, <1>7, FlattenSeqPega, PegaTipo
    <2>2. f[n] = g[n]
      <3>1. n \in Nat /\ n <= n + 1 /\ n + 1 \in Nat /\ n \in 1 .. n
        BY <1>1, <1>7
      <3>2. \A i \in 1 .. n : f[i] = g[i]
        <4> HIDE DEF n
        <4>1. \A i \in 1 .. n : s[i] = t[i]
          BY <1>1
        <4> QED BY <1>2, <1>3, <3>1, <4>1, PegaUnica
      <3> QED BY <3>1, <3>2
    <2> QED BY <1>4, <1>5, <1>7, <2>1, <2>2 DEF t
  <1> QED BY <1>6, <1>7

-------------------------------------------------------------------------------
(* The lines of a list of entries. *)

Bytes == Letras \cup Blancos
Entradas == Rutas \X Descripciones

\* The entries that stdio gives back as they were written.
Legibles ==
  /\ Rutas \subseteq Seq(Letras) /\ \A f \in Rutas : Len(f) > 1
  /\ \A d \in Descripciones : d # <<>> /\ d[1] \in Letras

LEMMA Distintos ==
  /\ SP # NL /\ TAB # NL
  /\ SP \in Blancos /\ NL \in Blancos /\ \A c \in Letras : c \notin Blancos
  <1>1. SP # NL /\ TAB # NL
    BY Zenon DEF SP, TAB, NL
  <1>2. SP \in Blancos /\ NL \in Blancos
    BY DEF Blancos
  <1> QED BY <1>1, <1>2, UserFileAssumption

LEMMA SecForma ==
  ASSUME NEW S, NEW f \in Seq(S)
  PROVE  /\ Len(f) \in Nat /\ DOMAIN f = 1 .. Len(f)
         /\ f # <<>> => Len(f) \in Nat \ {0}
         /\ \A i \in 1 .. Len(f) : f[i] \in S
  OBVIOUS

LEMMA Pegadas ==
  ASSUME NEW S, NEW f \in Seq(S), NEW g \in Seq(S)
  PROVE  /\ Len(f) \in Nat /\ Len(g) \in Nat
         /\ f \o g \in Seq(S) /\ Len(f \o g) = Len(f) + Len(g)
         /\ \A i \in 1 .. Len(f) : (f \o g)[i] = f[i]
         /\ \A i \in 1 .. Len(g) : (f \o g)[Len(f) + i] = g[i]
  OBVIOUS

LEMMA PegaByte ==
  ASSUME NEW S, NEW f \in Seq(S), NEW c \in S
  PROVE  /\ Len(f) \in Nat
         /\ f \o <<c>> \in Seq(S) /\ Len(f \o <<c>>) = Len(f) + 1
         /\ \A i \in 1 .. Len(f) : (f \o <<c>>)[i] = f[i]
         /\ (f \o <<c>>)[Len(f) + 1] = c
  OBVIOUS

LEMMA EntradaForma ==
  ASSUME NEW e \in Entradas
  PROVE  /\ e = <<e[1], e[2]>> /\ e[1] \in Rutas /\ e[2] \in Descripciones
         /\ e[1] \in Seq(Bytes) /\ e[2] \in Seq(Bytes)
         /\ Len(e[1]) \in Nat /\ Len(e[2]) \in Nat
         /\ \A i \in 1 .. Len(e[1]) : e[1][i] # NL
         /\ \A i \in 1 .. Len(e[2]) : e[2][i] # NL
  <1> DEFINE T == Letras \cup {SP, TAB}
  <1>1. e = <<e[1], e[2]>> /\ e[1] \in Rutas /\ e[2] \in Descripciones
    BY DEF Entradas
  <1>2. T \subseteq Bytes /\ Letras \cup {TAB} \subseteq T /\ NL \notin T
    BY Distintos DEF Bytes, Blancos
  <1>3. e[1] \in Seq(T) /\ e[2] \in Seq(T)
    <2>1. e[1] \in Seq(Letras \cup {TAB}) /\ e[2] \in Seq(T)
      BY <1>1, UserFileAssumption
    <2> QED BY <1>2, <2>1, SeqMonotonic
  <1> HIDE DEF T
  <1>4. e[1] \in Seq(Bytes) /\ e[2] \in Seq(Bytes)
    BY <1>2, <1>3, SeqMonotonic
  <1>5. /\ Len(e[1]) \in Nat /\ \A i \in 1 .. Len(e[1]) : e[1][i] \in T
        /\ Len(e[2]) \in Nat /\ \A i \in 1 .. Len(e[2]) : e[2][i] \in T
    BY <1>3, SecForma
  <1> QED BY <1>1, <1>2, <1>4, <1>5

LEMMA EntradaLegible ==
  ASSUME NEW e \in Entradas, Legibles
  PROVE  /\ Len(e[1]) \in Nat \ {0} /\ Len(e[1]) > 1
         /\ \A i \in 1 .. Len(e[1]) : e[1][i] \notin Blancos
         /\ e[2] # <<>> /\ e[2][1] \notin Blancos
  <1>1. /\ e[1] \in Seq(Letras) /\ Len(e[1]) > 1
        /\ e[2] # <<>> /\ e[2][1] \in Letras
    BY DEF Legibles, Entradas
  <1>2. Len(e[1]) \in Nat /\ \A i \in 1 .. Len(e[1]) : e[1][i] \in Letras
    BY <1>1, SecForma
  <1> QED BY <1>1, <1>2, Distintos

\* w is the line of the path f and the description g.
EsLinea(w, f, g) ==
  /\ w \in Seq(Bytes) /\ Len(w) = Len(f) + Len(g) + 2
  /\ \A i \in 1 .. Len(f) : w[i] = f[i]
  /\ w[Len(f) + 1] = SP
  /\ \A i \in 1 .. Len(g) : w[Len(f) + 1 + i] = g[i]
  /\ w[Len(f) + Len(g) + 2] = NL

LEMMA LineaDe ==
  ASSUME NEW f \in Seq(Bytes), NEW g \in Seq(Bytes), NEW w,
         w = f \o <<SP>> \o g \o <<NL>>
  PROVE  EsLinea(w, f, g)
  <1>1. PICK a \in Nat, b \in Nat : a = Len(f) /\ b = Len(g)
    OBVIOUS
  <1>2. SP \in Bytes /\ NL \in Bytes
    BY DEF Bytes, Blancos
  <1>3. PICK u \in Seq(Bytes) : u = f \o <<SP>>
    BY <1>2, PegaByte
  <1>4. Len(u) = a + 1 /\ u[a + 1] = SP /\ \A i \in 1 .. a : u[i] = f[i]
    BY <1>1, <1>2, <1>3, PegaByte
  <1>5. PICK v \in Seq(Bytes) : v = u \o g
    BY Pegadas
  <1>6. /\ Len(v) = a + 1 + b
        /\ \A i \in 1 .. a + 1 : v[i] = u[i]
        /\ \A i \in 1 .. b : v[a + 1 + i] = g[i]
    <2>1. /\ Len(v) = Len(u) + Len(g)
          /\ \A i \in 1 .. Len(u) : v[i] = u[i]
          /\ \A i \in 1 .. Len(g) : v[Len(u) + i] = g[i]
      BY <1>5, Pegadas
    <2> QED BY <1>1, <1>4, <2>1
  <1>7. PICK y \in Seq(Bytes) : y = v \o <<NL>>
    BY <1>2, PegaByte
  <1>8. /\ w \in Seq(Bytes) /\ Len(w) = Len(v) + 1
        /\ \A i \in 1 .. Len(v) : w[i] = v[i]
        /\ w[Len(v) + 1] = NL
    <2>1. w = y
      BY <1>3, <1>5, <1>7
    <2>2. /\ Len(y) = Len(v) + 1
          /\ \A i \in 1 .. Len(v) : y[i] = v[i]
          /\ y[Len(v) + 1] = NL
      BY <1>2, <1>7, PegaByte
    <2> QED BY <1>7, <2>1, <2>2
  <1>9. \A i \in 1 .. a : w[i] = f[i]
    <2> TAKE i \in 1 .. a
    <2>1. i \in 1 .. a + 1 /\ i \in 1 .. Len(v)
      BY <1>6
    <2> QED BY <1>4, <1>6, <1>8, <2>1
  <1>10. w[a + 1] = SP
    <2>1. a + 1 \in 1 .. a + 1 /\ a + 1 \in 1 .. Len(v)
      BY <1>6
    <2> QED BY <1>4, <1>6, <1>8, <2>1
  <1>11. \A i \in 1 .. b : w[a + 1 + i] = g[i]
    <2> TAKE i \in 1 .. b
    <2>1. a + 1 + i \in 1 .. Len(v)
      BY <1>6
    <2> QED BY <1>6, <1>8, <2>1
  <1>12. Len(w) = a + b + 2 /\ w[a + b + 2] = NL
    <2>1. Len(v) + 1 = a + b + 2
      BY <1>6
    <2> QED BY <1>8, <2>1
  <1> QED BY <1>1, <1>8, <1>9, <1>10, <1>11, <1>12 DEF EsLinea

LEMMA LineaForma ==
  ASSUME NEW e \in Entradas
  PROVE  EsLinea(Linea(e), e[1], e[2])
  <1>1. e[1] \in Seq(Bytes) /\ e[2] \in Seq(Bytes)
    BY EntradaForma
  <1>2. PICK f \in Seq(Bytes), g \in Seq(Bytes) : f = e[1] /\ g = e[2]
    BY <1>1
  <1>3. PICK w : w = Linea(e)
    OBVIOUS
  <1>4. w = f \o <<SP>> \o g \o <<NL>>
    BY <1>2, <1>3 DEF Linea
  <1>5. EsLinea(w, f, g)
    BY <1>4, LineaDe, Zenon
  <1> QED BY <1>2, <1>3, <1>5

LEMMA LineasVacia == Lineas(<<>>) = <<>>
  <1>1. [i \in DOMAIN <<>> |-> Linea(<<>>[i])] = <<>>
    OBVIOUS
  <1> QED BY <1>1, FlattenSeqVacia DEF Lineas

LEMMA LineasAppend ==
  ASSUME NEW cat \in Seq(Entradas), NEW e \in Entradas
  PROVE  /\ Lineas(cat) \in Seq(Bytes) /\ Len(Lineas(cat)) \in Nat
         /\ Lineas(Append(cat, e)) = Lineas(cat) \o Linea(e)
  <1> DEFINE s == [i \in DOMAIN cat |-> Linea(cat[i])]
             t == [i \in DOMAIN Append(cat, e) |-> Linea(Append(cat, e)[i])]
             n == Len(cat)
  <1>1. n \in Nat /\ DOMAIN cat = 1 .. n /\ \A i \in 1 .. n : cat[i] \in Entradas
    OBVIOUS
  <1>2. s \in Seq(Seq(Bytes)) /\ Len(s) = n
    <2>1. \A i \in 1 .. n : Linea(cat[i]) \in Seq(Bytes)
      BY <1>1, LineaForma DEF EsLinea
    <2> QED BY <1>1, <2>1
  <1>3. Linea(e) \in Seq(Bytes)
    BY LineaForma DEF EsLinea
  <1>4. t = Append(s, Linea(e))
    <2>1. /\ DOMAIN Append(cat, e) = 1 .. n + 1 /\ Append(cat, e)[n + 1] = e
          /\ \A i \in 1 .. n : Append(cat, e)[i] = cat[i]
      BY <1>1
    <2>2. \A i \in 1 .. n + 1 : t[i] = Append(s, Linea(e))[i]
      BY <1>1, <1>2, <2>1
    <2>3. DOMAIN t = 1 .. n + 1
      BY <2>1
    <2>4. Append(s, Linea(e)) = [i \in 1 .. n + 1 |-> Append(s, Linea(e))[i]]
      BY <1>2, <1>3
    <2> QED BY <2>2, <2>3, <2>4
  <1>5. Lineas(cat) = FlattenSeq(s) /\ Lineas(Append(cat, e)) = FlattenSeq(t)
    BY DEF Lineas
  <1> HIDE DEF s, t
  <1>6. Lineas(cat) \in Seq(Bytes) /\ Lineas(Append(cat, e)) = Lineas(cat) \o Linea(e)
    BY <1>2, <1>3, <1>4, <1>5, FlattenSeqAppend
  <1> QED BY <1>6

Asoc(x, y, z) == (x \o y) \o z = x \o (y \o z)

LEMMA Asociada == \A x, y, z \in Seq(Bytes) : Asoc(x, y, z)
  BY DEF Asoc

LEMMA LineasTipo ==
  ASSUME NEW cat \in Seq(Entradas)
  PROVE  Lineas(cat) \in Seq(Bytes) /\ Len(Lineas(cat)) \in Nat
  <1>1. CASE cat = <<>>
    <2>1. <<>> \in Seq(Bytes)
      OBVIOUS
    <2>2. Lineas(cat) \in Seq(Bytes)
      BY <1>1, <2>1, LineasVacia
    <2> QED BY <2>2, LenProperties
  <1>2. CASE cat # <<>>
    <2>1. PICK e : e \in Entradas
      BY <1>2, SequenceEmptyOrAppend
    <2> QED BY <2>1, LineasAppend
  <1> QED BY <1>1, <1>2

LEMMA LineasPegadas ==
  ASSUME NEW a \in Seq(Entradas), NEW b \in Seq(Entradas)
  PROVE  Lineas(a \o b) = Lineas(a) \o Lineas(b)
  <1> DEFINE T == {k \in Nat : \E d \in Seq(Entradas) :
                     Len(d) = k /\ Lineas(a \o d) # Lineas(a) \o Lineas(d)}
  <1>1. SUFFICES ASSUME T # {} PROVE FALSE
    <2>1. Len(b) \in Nat
      OBVIOUS
    <2> QED BY <2>1
  <1>2. PICK k \in T : \A y \in T : k <= y
    <2>1. T \subseteq Nat
      OBVIOUS
    <2> QED BY <1>1, <2>1, MinimoNat
  <1>3. PICK d \in Seq(Entradas) :
          Len(d) = k /\ Lineas(a \o d) # Lineas(a) \o Lineas(d)
    BY <1>2
  <1>4. k \in Nat
    OBVIOUS
  <1>5. Lineas(a) \in Seq(Bytes)
    BY LineasTipo
  <1>6. CASE k = 0
    <2>1. d = <<>> /\ a \o <<>> = a
      BY <1>3, <1>6
    <2>2. Lineas(a) \o <<>> = Lineas(a)
      BY <1>5, ConcatEmptySeq
    <2> QED BY <1>3, <2>1, <2>2, LineasVacia
  <1>7. CASE k # 0
    <2>0. PICK c \in Seq(Entradas), e \in Entradas : d = Append(c, e)
      <3>1. d # <<>>
        BY <1>3, <1>7
      <3> QED BY <3>1, SequenceEmptyOrAppend
    <2>1. d = Append(c, e) /\ Len(c) = k - 1
      <3>1. Len(d) = Len(c) + 1 /\ Len(c) \in Nat
        BY <2>0
      <3> QED BY <1>3, <2>0, <3>1
    <2>2. Lineas(a \o c) = Lineas(a) \o Lineas(c)
      <3>1. k - 1 \in Nat /\ ~(k <= k - 1)
        BY <1>4, <1>7
      <3> QED BY <1>2, <2>1, <3>1
    <2>3. a \o c \in Seq(Entradas) /\ a \o d = Append(a \o c, e)
      BY <2>1
    <2>4. Lineas(a \o d) = (Lineas(a) \o Lineas(c)) \o Linea(e)
      BY <2>2, <2>3, LineasAppend
    <2>5. Lineas(d) = Lineas(c) \o Linea(e)
      BY <2>1, LineasAppend
    <2>6. Lineas(c) \in Seq(Bytes) /\ Linea(e) \in Seq(Bytes)
      BY LineasAppend, LineaForma DEF EsLinea
    <2>7. (Lineas(a) \o Lineas(c)) \o Linea(e) = Lineas(a) \o (Lineas(c) \o Linea(e))
      <3>1. PICK x \in Seq(Bytes), y \in Seq(Bytes), z \in Seq(Bytes) :
              x = Lineas(a) /\ y = Lineas(c) /\ z = Linea(e)
        BY <1>5, <2>6
      <3>2. (x \o y) \o z = x \o (y \o z)
        <4>1. Asoc(x, y, z)
          BY Asociada
        <4> QED BY <4>1, Zenon DEF Asoc
      <3> QED BY <3>1, <3>2
    <2> QED BY <1>3, <2>4, <2>5, <2>7
  <1> QED BY <1>6, <1>7

LEMMA UnSolo == ASSUME NEW S, NEW e \in S PROVE <<e>> \in Seq(S)
  OBVIOUS

LEMMA LineasUna ==
  ASSUME NEW e \in Entradas
  PROVE  Lineas(<<e>>) = Linea(e)
  <1>1. <<>> \in Seq(Entradas) /\ Append(<<>>, e) = <<e>>
    OBVIOUS
  <1>2. Lineas(<<e>>) = Lineas(<<>>) \o Linea(e)
    BY <1>1, LineasAppend
  <1>3. PICK w \in Seq(Bytes) : w = Linea(e)
    BY LineaForma DEF EsLinea
  <1>4. <<>> \o w = w
    OBVIOUS
  <1> QED BY <1>2, <1>3, <1>4, LineasVacia

LEMMA Corte ==
  ASSUME NEW S, NEW s \in Seq(S), NEW m \in Nat, NEW n \in Nat, m + n <= Len(s)
  PROVE  /\ SubSeq(s, m + 1, m + n) \in Seq(S)
         /\ Len(SubSeq(s, m + 1, m + n)) = n
         /\ \A i \in 1 .. n : SubSeq(s, m + 1, m + n)[i] = s[m + i]
  <1>1. \A i \in m + 1 .. m + n : s[i] \in S
    OBVIOUS
  <1>2. m + 1 \in Int /\ m + n \in Int /\ (m + n) - (m + 1) + 1 = n
    OBVIOUS
  <1>3. \A i \in 1 .. n : (m + 1) + i - 1 = m + i
    OBVIOUS
  <1> QED BY <1>1, <1>2, <1>3

\* The first i lines, and the others.
Prefijo(cat, i) == Lineas(SubSeq(cat, 1, i))
Resto(cat, i) == Lineas(SubSeq(cat, i + 1, Len(cat)))

LEMMA Trozos ==
  ASSUME NEW S, NEW cat \in Seq(S), NEW i \in 0 .. Len(cat)
  PROVE  /\ SubSeq(cat, 1, i) \in Seq(S) /\ Len(SubSeq(cat, 1, i)) = i
         /\ \A j \in 1 .. i : SubSeq(cat, 1, i)[j] = cat[j]
         /\ SubSeq(cat, i + 1, Len(cat)) \in Seq(S)
         /\ Len(SubSeq(cat, i + 1, Len(cat))) = Len(cat) - i
         /\ \A j \in 1 .. Len(cat) - i : SubSeq(cat, i + 1, Len(cat))[j] = cat[i + j]
         /\ cat = SubSeq(cat, 1, i) \o SubSeq(cat, i + 1, Len(cat))
  <1>1. i \in Int /\ Len(cat) \in Int /\ i + 1 \in Int /\ i + 1 \in 1 .. Len(cat) + 1
    OBVIOUS
  <1>2. /\ \A j \in 1 .. i : cat[j] \in S
        /\ \A j \in i + 1 .. Len(cat) : cat[j] \in S
    OBVIOUS
  <1>3. /\ SubSeq(cat, 1, i) \in Seq(S) /\ Len(SubSeq(cat, 1, i)) = i
        /\ \A j \in 1 .. i : SubSeq(cat, 1, i)[j] = cat[j]
    BY <1>1, <1>2
  <1>4. /\ SubSeq(cat, i + 1, Len(cat)) \in Seq(S)
        /\ Len(SubSeq(cat, i + 1, Len(cat))) = Len(cat) - i
        /\ \A j \in 1 .. Len(cat) - i : SubSeq(cat, i + 1, Len(cat))[j] = cat[i + j]
    <2>1. /\ SubSeq(cat, i + 1, Len(cat)) \in Seq(S)
          /\ Len(SubSeq(cat, i + 1, Len(cat))) = Len(cat) - i
      BY <1>1, <1>2
    <2>2. \A j \in 1 .. Len(cat) - i : SubSeq(cat, i + 1, Len(cat))[j] = cat[i + j]
      OBVIOUS
    <2> QED BY <2>1, <2>2
  <1>5. SubSeq(cat, 1, i) \o SubSeq(cat, i + 1, Len(cat)) = SubSeq(cat, 1, Len(cat))
    <2>1. /\ 1 \in 1 .. Len(cat) + 1 /\ i \in 1 - 1 .. Len(cat)
          /\ Len(cat) \in i .. Len(cat)
      OBVIOUS
    <2> QED BY <2>1, ConcatAdjacentSubSeq, Zenon
  <1>6. SubSeq(cat, 1, Len(cat)) = cat
    BY SubSeqFull
  <1> QED BY <1>3, <1>4, <1>5, <1>6

LEMMA PrefijoTipo ==
  ASSUME NEW cat \in Seq(Entradas), NEW i \in 0 .. Len(cat)
  PROVE  /\ Prefijo(cat, i) \in Seq(Bytes) /\ Len(Prefijo(cat, i)) \in Nat
         /\ Resto(cat, i) \in Seq(Bytes) /\ Len(Resto(cat, i)) \in Nat
         /\ Lineas(cat) = Prefijo(cat, i) \o Resto(cat, i)
  <1>1. PICK a \in Seq(Entradas), b \in Seq(Entradas) :
          /\ a = SubSeq(cat, 1, i) /\ b = SubSeq(cat, i + 1, Len(cat))
          /\ cat = a \o b
    <2>1. /\ SubSeq(cat, 1, i) \in Seq(Entradas)
          /\ SubSeq(cat, i + 1, Len(cat)) \in Seq(Entradas)
          /\ cat = SubSeq(cat, 1, i) \o SubSeq(cat, i + 1, Len(cat))
      BY Trozos, Zenon
    <2> QED BY <2>1, Zenon
  <1>2. Prefijo(cat, i) = Lineas(a) /\ Resto(cat, i) = Lineas(b)
    BY <1>1 DEF Prefijo, Resto
  <1>3. Lineas(cat) = Lineas(a) \o Lineas(b)
    BY <1>1, LineasPegadas
  <1> QED BY <1>2, <1>3, LineasTipo

LEMMA PrefijoCero ==
  ASSUME NEW cat \in Seq(Entradas)
  PROVE  /\ Prefijo(cat, 0) = <<>> /\ Resto(cat, Len(cat)) = <<>>
         /\ Prefijo(cat, Len(cat)) = Lineas(cat)
  <1>1. /\ SubSeq(cat, 1, 0) = <<>> /\ SubSeq(cat, Len(cat) + 1, Len(cat)) = <<>>
        /\ SubSeq(cat, 1, Len(cat)) = cat
    BY SubSeqEmpty, SubSeqFull
  <1> QED BY <1>1, LineasVacia DEF Prefijo, Resto

LEMMA PrefijoMas ==
  ASSUME NEW cat \in Seq(Entradas), NEW i \in 1 .. Len(cat)
  PROVE  /\ cat[i] \in Entradas
         /\ Prefijo(cat, i) = Prefijo(cat, i - 1) \o Linea(cat[i])
         /\ Resto(cat, i - 1) = Linea(cat[i]) \o Resto(cat, i)
  <1>1. PICK e \in Entradas : e = cat[i]
    OBVIOUS
  <1>2. i - 1 \in 0 .. Len(cat) /\ i \in 0 .. Len(cat) /\ (i - 1) + 1 = i
    OBVIOUS
  <1>3. PICK a \in Seq(Entradas), b \in Seq(Entradas) :
          a = SubSeq(cat, 1, i - 1) /\ b = SubSeq(cat, i + 1, Len(cat))
    BY <1>2, Trozos
  <1>4. SubSeq(cat, 1, i) = a \o <<e>>
    <2>1. 1 \in 1 .. Len(cat) /\ i \in 1 .. Len(cat)
      OBVIOUS
    <2> QED BY <1>1, <1>3, <2>1, SubSeqRecursiveSecond
  <1>5. SubSeq(cat, i, Len(cat)) = <<e>> \o b
    <2>1. Len(cat) \in i .. Len(cat)
      OBVIOUS
    <2> QED BY <1>1, <1>3, <2>1, SubSeqRecursiveFirst
  <1>6. PICK u \in Seq(Entradas) : u = <<e>> /\ Lineas(u) = Linea(e)
    BY UnSolo, LineasUna
  <1>7. Lineas(a \o <<e>>) = Lineas(a) \o Linea(e)
    <2>1. Lineas(a \o u) = Lineas(a) \o Lineas(u)
      BY LineasPegadas
    <2> QED BY <1>6, <2>1
  <1>8. Lineas(<<e>> \o b) = Linea(e) \o Lineas(b)
    <2>1. Lineas(u \o b) = Lineas(u) \o Lineas(b)
      BY LineasPegadas
    <2> QED BY <1>6, <2>1
  <1> QED BY <1>1, <1>2, <1>3, <1>4, <1>5, <1>7, <1>8 DEF Prefijo, Resto

LEMMA SinEntrada ==
  ASSUME NEW cat \in Seq(Entradas), NEW i \in 1 .. Len(cat)
  PROVE  /\ RemoveAt(cat, i) \in Seq(Entradas)
         /\ Lineas(RemoveAt(cat, i)) = Prefijo(cat, i - 1) \o Resto(cat, i)
         /\ Len(RemoveAt(cat, i)) = Len(cat) - 1
         /\ \A j \in 1 .. Len(cat) - 1 :
              RemoveAt(cat, i)[j] = IF j < i THEN cat[j] ELSE cat[j + 1]
  <1>1. i - 1 \in 0 .. Len(cat) /\ i \in 0 .. Len(cat)
    OBVIOUS
  <1>2. PICK a \in Seq(Entradas), b \in Seq(Entradas) :
          /\ a = SubSeq(cat, 1, i - 1) /\ b = SubSeq(cat, i + 1, Len(cat))
          /\ Len(a) = i - 1 /\ Len(b) = Len(cat) - i
    <2>1. /\ SubSeq(cat, 1, i - 1) \in Seq(Entradas)
          /\ Len(SubSeq(cat, 1, i - 1)) = i - 1
      BY <1>1, Trozos, Zenon
    <2>2. /\ SubSeq(cat, i + 1, Len(cat)) \in Seq(Entradas)
          /\ Len(SubSeq(cat, i + 1, Len(cat))) = Len(cat) - i
      BY <1>1, Trozos, Zenon
    <2> QED BY <2>1, <2>2, Zenon
  <1>3. RemoveAt(cat, i) = a \o b
    BY <1>2 DEF RemoveAt
  <1>4. Lineas(a \o b) = Prefijo(cat, i - 1) \o Resto(cat, i)
    BY <1>2, LineasPegadas DEF Prefijo, Resto
  <1>5. \A j \in 1 .. i - 1 : a[j] = cat[j]
    BY <1>1, <1>2, Trozos
  <1>6. \A j \in 1 .. Len(cat) - i : b[j] = cat[i + j]
    BY <1>1, <1>2, Trozos
  <1>7. /\ a \o b \in Seq(Entradas) /\ Len(a \o b) = Len(cat) - 1
        /\ \A j \in 1 .. i - 1 : (a \o b)[j] = a[j]
        /\ \A j \in 1 .. Len(cat) - i : (a \o b)[(i - 1) + j] = b[j]
    <2>1. /\ a \o b \in Seq(Entradas) /\ Len(a \o b) = Len(a) + Len(b)
          /\ \A j \in 1 .. Len(a) : (a \o b)[j] = a[j]
          /\ \A j \in 1 .. Len(b) : (a \o b)[Len(a) + j] = b[j]
      BY Pegadas
    <2>2. (i - 1) + (Len(cat) - i) = Len(cat) - 1
      OBVIOUS
    <2> QED BY <1>2, <2>1, <2>2, Zenon
  <1>8. \A j \in 1 .. Len(cat) - 1 :
          (a \o b)[j] = IF j < i THEN cat[j] ELSE cat[j + 1]
    <2> TAKE j \in 1 .. Len(cat) - 1
    <2>1. CASE j < i
      BY <1>5, <1>7, <2>1
    <2>2. CASE ~(j < i)
      <3>1. PICK k \in 1 .. Len(cat) - i : k = j - (i - 1)
        BY <2>2
      <3>2. (i - 1) + k = j /\ i + k = j + 1
        BY <3>1
      <3>3. (a \o b)[(i - 1) + k] = b[k] /\ b[k] = cat[i + k]
        BY <1>6, <1>7
      <3> QED BY <2>2, <3>2, <3>3
    <2> QED BY <2>1, <2>2
  <1> QED BY <1>3, <1>4, <1>7, <1>8

-------------------------------------------------------------------------------
(* stdio on the lines. *)

LEMMA MinEs ==
  ASSUME NEW T, NEW r \in T, T \subseteq Nat, \A x \in T : r <= x
  PROVE  Min(T) = r
  <1>1. \A x \in T : (\A y \in T : x <= y) => x = r
    OBVIOUS
  <1> QED BY <1>1 DEF Min

LEMMA HastaSalto ==
  ASSUME NEW q \in Nat, NEW r \in Nat, q <= r, r <= Final, Final \in Nat,
         r = Final \/ fichero[r] = NL,
         \A j \in q .. r - 1 : fichero[j] # NL
  PROVE  Hasta(q, Salto) = r
  <1> DEFINE T == {i \in q .. Final : i = Final \/ fichero[i] = NL}
  <1>1. Hasta(q, Salto) = Min(T)
    BY DEF Hasta, Salto
  <1>2. r \in T /\ T \subseteq Nat
    OBVIOUS
  <1>3. \A x \in T : r <= x
    OBVIOUS
  <1> HIDE DEF T
  <1> QED BY <1>1, <1>2, <1>3, MinEs

LEMMA HastaBlanco ==
  ASSUME NEW q \in Nat, NEW r \in Nat, q <= r, r <= Final, Final \in Nat,
         r = Final \/ fichero[r] \in Blancos,
         \A j \in q .. r - 1 : fichero[j] \notin Blancos
  PROVE  Hasta(q, Blanco) = r
  <1> DEFINE T == {i \in q .. Final : i = Final \/ fichero[i] \in Blancos}
  <1>1. Hasta(q, Blanco) = Min(T)
    BY DEF Hasta, Blanco
  <1>2. r \in T /\ T \subseteq Nat
    OBVIOUS
  <1>3. \A x \in T : r <= x
    OBVIOUS
  <1> HIDE DEF T
  <1> QED BY <1>1, <1>2, <1>3, MinEs

LEMMA HastaNoBlanco ==
  ASSUME NEW q \in Nat, NEW r \in Nat, q <= r, r <= Final, Final \in Nat,
         r = Final \/ fichero[r] \notin Blancos,
         \A j \in q .. r - 1 : fichero[j] \in Blancos
  PROVE  Hasta(q, NoBlanco) = r
  <1> DEFINE T == {i \in q .. Final : i = Final \/ fichero[i] \notin Blancos}
  <1>1. Hasta(q, NoBlanco) = Min(T)
    BY DEF Hasta, NoBlanco, Blanco
  <1>2. r \in T /\ T \subseteq Nat
    OBVIOUS
  <1>3. \A x \in T : r <= x
    OBVIOUS
  <1> HIDE DEF T
  <1> QED BY <1>1, <1>2, <1>3, MinEs

\* At the end of the file fscanf reads nothing and there is no line break.
LEMMA AlFinal ==
  ASSUME fichero \in Seq(Bytes)
  PROVE  /\ fscanf(Final).eof
         /\ fscanf(Final).path = path_read
         /\ fscanf(Final).pos = Final
         /\ ~HaySalto(Final)
  <1>1. Final \in Nat
    BY DEF Final
  <1>2. /\ Hasta(Final, NoBlanco) = Final
        /\ Hasta(Final, Blanco) = Final
        /\ Hasta(Final, Salto) = Final
    <2>1. Final <= Final /\ \A j \in Final .. Final - 1 : FALSE
      BY <1>1
    <2> QED BY <1>1, <2>1, HastaNoBlanco, HastaBlanco, HastaSalto
  <1> QED BY <1>2 DEF fscanf, Palabra, HaySalto

\* Where the bytes of a line are in the file.
Ocupa(L, f, g, c) ==
  /\ fichero \in Seq(Bytes)
  /\ Len(fichero) = L + Len(f) + Len(g) + 2 + c
  /\ \A i \in 1 .. Len(f) : fichero[L + i] = f[i]
  /\ fichero[L + Len(f) + 1] = SP
  /\ \A i \in 1 .. Len(g) : fichero[L + Len(f) + 1 + i] = g[i]
  /\ fichero[L + Len(f) + Len(g) + 2] = NL

LEMMA LineaOcupa ==
  ASSUME NEW X \in Seq(Bytes), NEW Y \in Seq(Bytes),
         NEW f \in Seq(Bytes), NEW g \in Seq(Bytes), NEW w, EsLinea(w, f, g),
         fichero = X \o (w \o Y)
  PROVE  Ocupa(Len(X), f, g, Len(Y))
  <1>1. PICK L \in Nat, a \in Nat, b \in Nat, c \in Nat :
          L = Len(X) /\ a = Len(f) /\ b = Len(g) /\ c = Len(Y)
    OBVIOUS
  <1>2. /\ w \in Seq(Bytes) /\ Len(w) = a + b + 2
        /\ \A i \in 1 .. a : w[i] = f[i]
        /\ w[a + 1] = SP
        /\ \A i \in 1 .. b : w[a + 1 + i] = g[i]
        /\ w[a + b + 2] = NL
    BY <1>1 DEF EsLinea
  <1>3. PICK v \in Seq(Bytes) : v = w \o Y
    <2>1. w \in Seq(Bytes)
      BY <1>2
    <2>2. w \o Y \in Seq(Bytes)
      BY <2>1, Pegadas
    <2> QED BY <2>2
  <1>4. /\ Len(v) = a + b + 2 + c
        /\ \A i \in 1 .. a + b + 2 : v[i] = w[i]
    <2>1. w \in Seq(Bytes)
      BY <1>2
    <2>2. Len(v) = Len(w) + Len(Y) /\ \A i \in 1 .. Len(w) : v[i] = w[i]
      BY <1>3, <2>1, Pegadas
    <2> QED BY <1>1, <1>2, <2>2
  <1>5. PICK y \in Seq(Bytes) : y = X \o v
    <2>1. X \o v \in Seq(Bytes)
      BY Pegadas
    <2> QED BY <2>1
  <1>6. /\ Len(y) = L + (a + b + 2 + c)
        /\ \A i \in 1 .. a + b + 2 + c : y[L + i] = v[i]
    <2>1. /\ Len(y) = Len(X) + Len(v)
          /\ \A i \in 1 .. Len(v) : y[Len(X) + i] = v[i]
      BY <1>5, Pegadas
    <2> QED BY <1>1, <1>4, <2>1
  <1>7. fichero = y
    BY <1>3, <1>5
  <1>8. \A i \in 1 .. a + b + 2 : y[L + i] = w[i]
    <2> TAKE i \in 1 .. a + b + 2
    <2>1. i \in 1 .. a + b + 2 + c
      OBVIOUS
    <2>2. y[L + i] = v[i]
      BY <1>6, <2>1, Zenon
    <2> QED BY <1>4, <2>2, Zenon
  <1>9. \A i \in 1 .. a : y[L + i] = f[i]
    <2> TAKE i \in 1 .. a
    <2>1. i \in 1 .. a + b + 2
      OBVIOUS
    <2> QED BY <1>2, <1>8, <2>1, Zenon
  <1>10. y[L + a + 1] = SP
    <2>1. a + 1 \in 1 .. a + b + 2 /\ L + (a + 1) = L + a + 1
      OBVIOUS
    <2> QED BY <1>2, <1>8, <2>1
  <1>11. \A i \in 1 .. b : y[L + a + 1 + i] = g[i]
    <2> TAKE i \in 1 .. b
    <2>1. a + 1 + i \in 1 .. a + b + 2 /\ L + (a + 1 + i) = L + a + 1 + i
      OBVIOUS
    <2> QED BY <1>2, <1>8, <2>1
  <1>12. y[L + a + b + 2] = NL
    <2>1. a + b + 2 \in 1 .. a + b + 2 /\ L + (a + b + 2) = L + a + b + 2
      OBVIOUS
    <2> QED BY <1>2, <1>8, <2>1
  <1> QED BY <1>1, <1>6, <1>7, <1>9, <1>10, <1>11, <1>12 DEF Ocupa

\* fscanf at the line of e, from a byte of its path on: it reads the rest of the
\* path and stops at the description, and the line break it ends with is ahead.
Leida(q, k, e, L, c) ==
  /\ ~fscanf(q).eof
  /\ k = 0 => fscanf(q).path = e[1]
  /\ fscanf(q).pos = L + Len(e[1]) + 2
  /\ Hasta(L + Len(e[1]) + 2, Salto) = L + Len(e[1]) + Len(e[2]) + 2
  /\ Final = L + Len(e[1]) + Len(e[2]) + 3 + c

LEMMA LeeOcupada ==
  ASSUME NEW e \in Entradas, Legibles, NEW L \in Nat, NEW c \in Nat,
         Ocupa(L, e[1], e[2], c), NEW k \in 0 .. Len(e[1]) - 1, NEW q,
         q = L + 1 + k
  PROVE  Leida(q, k, e, L, c)
  <1>1. PICK a \in Nat, b \in Nat, f \in Seq(Bytes), g \in Seq(Bytes) :
          f = e[1] /\ g = e[2] /\ a = Len(f) /\ b = Len(g)
    BY EntradaForma
  <1>2. /\ a > 1 /\ \A i \in 1 .. a : f[i] \notin Blancos
        /\ b > 0 /\ g[1] \notin Blancos /\ \A i \in 1 .. b : g[i] # NL
    <2>1. /\ a > 1 /\ g # <<>> /\ g[1] \notin Blancos
          /\ \A i \in 1 .. a : f[i] \notin Blancos
      BY <1>1, EntradaLegible
    <2>2. b > 0
      BY <1>1, <2>1
    <2> QED BY <1>1, <2>1, <2>2, EntradaForma
  <1>3. /\ Len(fichero) = L + a + b + 2 + c
        /\ \A i \in 1 .. a : fichero[L + i] = f[i]
        /\ fichero[L + a + 1] = SP
        /\ \A i \in 1 .. b : fichero[L + a + 1 + i] = g[i]
        /\ fichero[L + a + b + 2] = NL
    BY <1>1 DEF Ocupa
  <1>4. Final \in Nat /\ Final = L + a + b + 3 + c
    <2>1. Final = (L + a + b + 2 + c) + 1
      BY <1>3, Zenon DEF Final
    <2> QED BY <2>1
  <1>5. k \in Nat /\ q \in Nat /\ k < a /\ q = L + 1 + k
    BY <1>1
  <1>6. Hasta(q, NoBlanco) = q
    <2>1. k + 1 \in 1 .. a /\ L + (k + 1) = q
      BY <1>5
    <2>2. fichero[q] \notin Blancos
      BY <1>2, <1>3, <2>1
    <2>3. q <= q /\ q <= Final /\ \A j \in q .. q - 1 : FALSE
      BY <1>4, <1>5
    <2> QED BY <1>4, <1>5, <2>2, <2>3, HastaNoBlanco
  <1>7. Hasta(q, Blanco) = L + a + 1
    <2>1. \A j \in q .. (L + a + 1) - 1 : fichero[j] \notin Blancos
      <3> TAKE j \in q .. (L + a + 1) - 1
      <3>1. PICK i \in 1 .. a : j = L + i
        <4>1. j - L \in 1 .. a /\ j = L + (j - L)
          BY <1>5
        <4> QED BY <4>1
      <3> QED BY <1>2, <1>3, <3>1
    <2>2. L + a + 1 \in Nat /\ q <= L + a + 1 /\ L + a + 1 <= Final
      BY <1>4, <1>5
    <2>3. fichero[L + a + 1] \in Blancos
      BY <1>3, Distintos
    <2> QED BY <1>4, <1>5, <2>1, <2>2, <2>3, HastaBlanco
  <1>8. Hasta(L + a + 1, NoBlanco) = L + a + 2
    <2>1. \A j \in L + a + 1 .. (L + a + 2) - 1 : fichero[j] \in Blancos
      <3> TAKE j \in L + a + 1 .. (L + a + 2) - 1
      <3>1. j = L + a + 1
        OBVIOUS
      <3> QED BY <1>3, <3>1, Distintos
    <2>2. fichero[L + a + 2] \notin Blancos
      <3>1. 1 \in 1 .. b /\ L + a + 1 + 1 = L + a + 2
        BY <1>2
      <3> QED BY <1>2, <1>3, <3>1
    <2>3. /\ L + a + 1 \in Nat /\ L + a + 2 \in Nat
          /\ L + a + 1 <= L + a + 2 /\ L + a + 2 <= Final
      BY <1>4
    <2> QED BY <1>4, <2>1, <2>2, <2>3, HastaNoBlanco
  <1>9. Hasta(L + a + 2, Salto) = L + a + b + 2
    <2>1. \A j \in L + a + 2 .. (L + a + b + 2) - 1 : fichero[j] # NL
      <3> TAKE j \in L + a + 2 .. (L + a + b + 2) - 1
      <3>1. PICK i \in 1 .. b : j = L + a + 1 + i
        <4>1. j - (L + a + 1) \in 1 .. b /\ j = L + a + 1 + (j - (L + a + 1))
          OBVIOUS
        <4> QED BY <4>1
      <3> QED BY <1>2, <1>3, <3>1
    <2>2. /\ L + a + 2 \in Nat /\ L + a + b + 2 \in Nat
          /\ L + a + 2 <= L + a + b + 2 /\ L + a + b + 2 <= Final
      BY <1>4
    <2> QED BY <1>3, <1>4, <2>1, <2>2, HastaSalto
  <1>10. q # Final
    BY <1>4, <1>5
  <1>11. /\ ~fscanf(q).eof
         /\ fscanf(q).path = SubSeq(fichero, q, (L + a + 1) - 1)
         /\ fscanf(q).pos = L + a + 2
    BY <1>6, <1>7, <1>8, <1>10 DEF fscanf, Palabra
  <1>12. k = 0 => SubSeq(fichero, q, (L + a + 1) - 1) = f
    <2> HAVE k = 0
    <2>1. q = L + 1 /\ (L + a + 1) - 1 = L + a /\ L + 1 \in Int /\ L + a \in Int
      BY <1>5
    <2>2. fichero \in Seq(Bytes) /\ L + a <= Len(fichero)
      <3>1. fichero \in Seq(Bytes)
        BY DEF Ocupa
      <3>2. L + a <= Len(fichero)
        BY <1>3
      <3> QED BY <3>1, <3>2
    <2>3. /\ SubSeq(fichero, L + 1, L + a) \in Seq(Bytes)
          /\ Len(SubSeq(fichero, L + 1, L + a)) = a
          /\ \A i \in 1 .. a : SubSeq(fichero, L + 1, L + a)[i] = fichero[L + i]
      BY <2>2, Corte
    <2>4. SubSeq(fichero, L + 1, L + a) = f
      <3>1. PICK s \in Seq(Bytes) : s = SubSeq(fichero, L + 1, L + a)
        BY <2>3
      <3>2. Len(s) = Len(f) /\ \A i \in 1 .. Len(s) : s[i] = f[i]
        <4>1. Len(s) = a /\ \A i \in 1 .. a : s[i] = fichero[L + i]
          BY <2>3, <3>1
        <4>2. \A i \in 1 .. a : s[i] = f[i]
          BY <1>3, <4>1, Zenon
        <4> QED BY <1>1, <4>1, <4>2
      <3>3. s = f
        BY <3>2, SeqEqual
      <3> QED BY <3>1, <3>3
    <2> QED BY <2>1, <2>4
  <1> QED BY <1>1, <1>4, <1>9, <1>11, <1>12 DEF Leida

LEMMA CabezaConcat ==
  ASSUME NEW S, NEW a \in Seq(S), NEW b \in Seq(S)
  PROVE  /\ SubSeq(a \o b, 1, Len(a)) = a
         /\ SubSeq(a \o b, Len(a) + 1, Len(a) + Len(b)) = b
  <1>1. PICK w \in Seq(S) : w = a \o b
    BY Pegadas
  <1>2. /\ Len(a) \in Nat /\ Len(b) \in Nat /\ Len(w) = Len(a) + Len(b)
        /\ \A i \in 1 .. Len(a) : w[i] = a[i]
        /\ \A i \in 1 .. Len(b) : w[Len(a) + i] = b[i]
    BY <1>1, Pegadas
  <1>3. PICK m \in Nat, n \in Nat : m = Len(a) /\ n = Len(b)
    BY <1>2
  <1>4. m \in 0 .. Len(w) /\ m + n <= Len(w)
    BY <1>2, <1>3
  <1>5. /\ SubSeq(w, 1, m) \in Seq(S) /\ Len(SubSeq(w, 1, m)) = m
        /\ \A i \in 1 .. m : SubSeq(w, 1, m)[i] = w[i]
    BY <1>4, Trozos
  <1>6. /\ SubSeq(w, m + 1, m + n) \in Seq(S) /\ Len(SubSeq(w, m + 1, m + n)) = n
        /\ \A i \in 1 .. n : SubSeq(w, m + 1, m + n)[i] = w[m + i]
    BY <1>4, Corte
  <1>7. SubSeq(w, 1, m) = a
    <2>1. PICK s \in Seq(S) : s = SubSeq(w, 1, m)
      BY <1>5
    <2>2. Len(s) = Len(a) /\ \A i \in 1 .. Len(s) : s[i] = a[i]
      BY <1>2, <1>3, <1>5, <2>1
    <2> QED BY <2>1, <2>2, SeqEqual
  <1>8. SubSeq(w, m + 1, m + n) = b
    <2>1. PICK s \in Seq(S) : s = SubSeq(w, m + 1, m + n)
      BY <1>6
    <2>2. Len(s) = Len(b) /\ \A i \in 1 .. Len(s) : s[i] = b[i]
      BY <1>2, <1>3, <1>6, <2>1
    <2> QED BY <2>1, <2>2, SeqEqual
  <1> QED BY <1>1, <1>3, <1>7, <1>8

LEMMA EsPrefijo ==
  ASSUME NEW S, NEW a \in Seq(S), NEW b \in Seq(S)
  PROVE  IsPrefix(a, a \o b)
  <1>1. Len(a) \in Nat /\ Len(b) \in Nat /\ Len(a \o b) = Len(a) + Len(b)
    BY Pegadas
  <1>2. SubSeq(a \o b, 1, Len(a)) = a /\ SubSeq(a, 1, Len(a)) = a
    BY CabezaConcat, SubSeqFull
  <1>3. Len(a) <= Len(a \o b)
    BY <1>1
  <1> QED BY <1>2, <1>3, Zenon DEF IsPrefix

LEMMA EsSufijo ==
  ASSUME NEW S, NEW a \in Seq(S), NEW b \in Seq(S)
  PROVE  IsSuffix(b, a \o b)
  <1>1. PICK w \in Seq(S) : w = a \o b
    BY Pegadas
  <1>2. PICK m \in Nat, n \in Nat :
          /\ m = Len(a) /\ n = Len(b) /\ Len(w) = m + n
          /\ \A i \in 1 .. n : w[m + i] = b[i]
    <2>1. /\ Len(a) \in Nat /\ Len(b) \in Nat /\ Len(w) = Len(a) + Len(b)
          /\ \A i \in 1 .. Len(b) : w[Len(a) + i] = b[i]
      BY <1>1, Pegadas
    <2> QED BY <2>1, Zenon
  <1> DEFINE r == Reverse(b)
             t == Reverse(w)
  <1>3. r \in Seq(S) /\ Len(r) = n /\ \A i \in 1 .. n : r[i] = b[(n - i) + 1]
    <2>1. r = [i \in 1 .. n |-> b[(n - i) + 1]]
      BY <1>2 DEF Reverse
    <2>2. \A i \in 1 .. n : b[(n - i) + 1] \in S
      BY <1>2
    <2> QED BY <2>1, <2>2
  <1>4. /\ t \in Seq(S) /\ Len(t) = m + n
        /\ \A i \in 1 .. m + n : t[i] = w[((m + n) - i) + 1]
    <2>1. t = [i \in 1 .. m + n |-> w[((m + n) - i) + 1]]
      BY <1>2 DEF Reverse
    <2>2. \A i \in 1 .. m + n : w[((m + n) - i) + 1] \in S
      BY <1>2
    <2> QED BY <2>1, <2>2
  <1>5. \A i \in 1 .. n : t[i] = r[i]
    <2> TAKE i \in 1 .. n
    <2>1. (n - i) + 1 \in 1 .. n /\ m + ((n - i) + 1) = ((m + n) - i) + 1
      OBVIOUS
    <2>2. i \in 1 .. m + n
      OBVIOUS
    <2> QED BY <1>2, <1>3, <1>4, <2>1, <2>2
  <1> HIDE DEF r, t
  <1>6. /\ SubSeq(t, 1, n) \in Seq(S) /\ Len(SubSeq(t, 1, n)) = n
        /\ \A i \in 1 .. n : SubSeq(t, 1, n)[i] = t[i]
    <2>1. n \in 0 .. Len(t)
      BY <1>4
    <2> QED BY <1>4, <2>1, Trozos
  <1>7. SubSeq(t, 1, n) = r
    <2>1. PICK s \in Seq(S) : s = SubSeq(t, 1, n)
      BY <1>6
    <2>2. Len(s) = Len(r) /\ \A i \in 1 .. Len(s) : s[i] = r[i]
      BY <1>3, <1>5, <1>6, <2>1
    <2> QED BY <1>3, <2>1, <2>2, SeqEqual
  <1>8. SubSeq(r, 1, n) = r
    BY <1>3, SubSeqFull
  <1>9. IsPrefix(r, t)
    BY <1>3, <1>4, <1>7, <1>8 DEF IsPrefix
  <1> QED BY <1>1, <1>9 DEF IsSuffix, r, t

\* The i-th line of the file: what fscanf does from a byte of its path on.
LeeBien(i, k, q) ==
  /\ ~fscanf(q).eof
  /\ k = 0 => fscanf(q).path = catalogo[i][1]
  /\ fscanf(q).pos = Len(Prefijo(catalogo, i - 1)) + Len(catalogo[i][1]) + 2
  /\ HaySalto(fscanf(q).pos)
  /\ TrasSalto(fscanf(q).pos) = Len(Prefijo(catalogo, i)) + 1
  /\ Len(Prefijo(catalogo, i)) = Len(Prefijo(catalogo, i - 1))
                                   + Len(catalogo[i][1]) + Len(catalogo[i][2]) + 2
  /\ Ocupa(Len(Prefijo(catalogo, i - 1)), catalogo[i][1], catalogo[i][2],
           Len(Resto(catalogo, i)))

LEMMA LeeLinea ==
  ASSUME Legibles, catalogo \in Seq(Entradas), fichero = Lineas(catalogo),
         NEW i \in 1 .. Len(catalogo), NEW k \in 0 .. Len(catalogo[i][1]) - 1,
         NEW q, q = Len(Prefijo(catalogo, i - 1)) + 1 + k
  PROVE  LeeBien(i, k, q)
  <1>1. i \in 0 .. Len(catalogo) /\ i - 1 \in 0 .. Len(catalogo)
    OBVIOUS
  <1>2. PICK e \in Entradas, X \in Seq(Bytes), Y \in Seq(Bytes) :
          /\ e = catalogo[i] /\ X = Prefijo(catalogo, i - 1) /\ Y = Resto(catalogo, i)
    <2>1. catalogo[i] \in Entradas
      BY PrefijoMas
    <2>2. Prefijo(catalogo, i - 1) \in Seq(Bytes) /\ Resto(catalogo, i) \in Seq(Bytes)
      BY <1>1, PrefijoTipo
    <2> QED BY <2>1, <2>2
  <1>3. fichero = X \o (Linea(e) \o Y)
    <2>1. Lineas(catalogo) = Prefijo(catalogo, i - 1) \o Resto(catalogo, i - 1)
      BY <1>1, PrefijoTipo
    <2>2. Resto(catalogo, i - 1) = Linea(catalogo[i]) \o Resto(catalogo, i)
      BY PrefijoMas
    <2> QED BY <1>2, <2>1, <2>2
  <1>4. /\ EsLinea(Linea(e), e[1], e[2])
        /\ e[1] \in Seq(Bytes) /\ e[2] \in Seq(Bytes)
        /\ Len(e[1]) \in Nat /\ Len(e[2]) \in Nat
    BY LineaForma, EntradaForma
  <1>5. Ocupa(Len(X), e[1], e[2], Len(Y))
    BY <1>3, <1>4, LineaOcupa
  <1>6. Len(X) \in Nat /\ Len(Y) \in Nat
    OBVIOUS
  <1>7. PICK L \in Nat, c \in Nat, a \in Nat, b \in Nat :
          L = Len(X) /\ c = Len(Y) /\ a = Len(e[1]) /\ b = Len(e[2])
    BY <1>4, <1>6
  <1>8. /\ ~fscanf(q).eof
        /\ k = 0 => fscanf(q).path = e[1]
        /\ fscanf(q).pos = L + Len(e[1]) + 2
        /\ Hasta(L + Len(e[1]) + 2, Salto) = L + Len(e[1]) + Len(e[2]) + 2
        /\ Final = L + Len(e[1]) + Len(e[2]) + 3 + c
    <2>1. Ocupa(L, e[1], e[2], c) /\ q = L + 1 + k /\ k \in 0 .. Len(e[1]) - 1
      BY <1>2, <1>5, <1>7
    <2>2. Leida(q, k, e, L, c)
      BY <2>1, LeeOcupada
    <2> QED BY <2>2, Zenon DEF Leida
  <1>9. Len(Prefijo(catalogo, i)) = L + (a + b + 2)
    <2>1. Prefijo(catalogo, i) = X \o Linea(e)
      BY <1>2, PrefijoMas
    <2>2. Linea(e) \in Seq(Bytes) /\ Len(Linea(e)) = a + b + 2
      BY <1>4, <1>7 DEF EsLinea
    <2>3. Len(X \o Linea(e)) = Len(X) + Len(Linea(e))
      BY <2>2, Pegadas
    <2> QED BY <1>7, <2>1, <2>2, <2>3
  <1>10. /\ HaySalto(fscanf(q).pos)
         /\ TrasSalto(fscanf(q).pos) = L + a + b + 3
    <2>1. /\ fscanf(q).pos = L + a + 2
          /\ Hasta(L + a + 2, Salto) = L + a + b + 2
          /\ Final = L + a + b + 3 + c
      BY <1>7, <1>8
    <2>2. L + a + b + 2 # Final
      BY <2>1
    <2>3. L + a + b + 2 + 1 = L + a + b + 3
      OBVIOUS
    <2> QED BY <2>1, <2>2, <2>3, Zenon DEF HaySalto, TrasSalto
  <1>11. /\ Len(Prefijo(catalogo, i)) = L + a + b + 2
         /\ TrasSalto(fscanf(q).pos) = Len(Prefijo(catalogo, i)) + 1
    <2>1. L + (a + b + 2) = L + a + b + 2 /\ L + a + b + 3 = (L + (a + b + 2)) + 1
      OBVIOUS
    <2> QED BY <1>9, <1>10, <2>1, Zenon
  <1> QED BY <1>2, <1>5, <1>7, <1>8, <1>10, <1>11, Zenon DEF LeeBien

\* Where the file ends.
LEMMA FinDeLineas ==
  ASSUME catalogo \in Seq(Entradas), fichero = Lineas(catalogo), NEW q,
         q = Len(Prefijo(catalogo, Len(catalogo))) + 1
  PROVE  /\ fscanf(q).eof /\ fscanf(q).path = path_read
         /\ ~HaySalto(fscanf(q).pos)
  <1>1. fichero \in Seq(Bytes)
    BY LineasTipo
  <1>2. q = Final
    BY PrefijoCero DEF Final
  <1> QED BY <1>1, <1>2, AlFinal

\* What list_content reads of the i-th line.
LEMMA DescripcionLeida ==
  ASSUME NEW e \in Entradas, NEW L \in Nat, NEW c \in Nat, Ocupa(L, e[1], e[2], c)
  PROVE  SubSeq(fichero, L + Len(e[1]) + 2, L + Len(e[1]) + Len(e[2]) + 2)
           = Append(e[2], NL)
  <1>1. PICK a \in Nat, b \in Nat, f \in Seq(Bytes), g \in Seq(Bytes) :
          f = e[1] /\ g = e[2] /\ a = Len(f) /\ b = Len(g)
    BY EntradaForma
  <1>2. /\ \A i \in 1 .. b : fichero[L + a + 1 + i] = g[i]
        /\ fichero[L + a + b + 2] = NL
    BY <1>1 DEF Ocupa
  <1>3. PICK h \in Seq(Bytes) : h = Append(g, NL)
    <2>1. NL \in Bytes
      BY DEF Bytes, Blancos
    <2>2. Append(g, NL) \in Seq(Bytes)
      BY <2>1
    <2> QED BY <2>2
  <1>4. Len(h) = b + 1 /\ h[b + 1] = NL /\ \A i \in 1 .. b : h[i] = g[i]
    BY <1>1, <1>3
  <1>5. \A i \in 1 .. b + 1 : fichero[L + a + 1 + i] = h[i]
    <2> TAKE i \in 1 .. b + 1
    <2>1. CASE i \in 1 .. b
      BY <1>2, <1>4, <2>1
    <2>2. CASE i = b + 1
      <3>1. L + a + 1 + (b + 1) = L + a + b + 2
        OBVIOUS
      <3> QED BY <1>2, <1>4, <2>2, <3>1
    <2> QED BY <2>1, <2>2
  <1>6. PICK m \in Nat, n \in Nat : m = L + a + 2 /\ n = L + a + b + 2
    OBVIOUS
  <1>7. \A j \in m .. n : fichero[j] \in Bytes
    <2> TAKE j \in m .. n
    <2>1. PICK i \in 1 .. b + 1 : j = L + a + 1 + i
      <3>1. j - (L + a + 1) \in 1 .. b + 1 /\ j = L + a + 1 + (j - (L + a + 1))
        BY <1>6
      <3> QED BY <3>1
    <2>2. h[i] \in Bytes
      BY <1>4
    <2> QED BY <1>5, <2>1, <2>2
  <1>8. /\ SubSeq(fichero, m, n) \in Seq(Bytes) /\ Len(SubSeq(fichero, m, n)) = b + 1
        /\ \A i \in 1 .. b + 1 : SubSeq(fichero, m, n)[i] = fichero[m + i - 1]
    BY <1>6, <1>7
  <1>9. PICK s \in Seq(Bytes) : s = SubSeq(fichero, m, n)
    BY <1>8
  <1>10. Len(s) = Len(h) /\ \A i \in 1 .. Len(s) : s[i] = h[i]
    <2>1. \A i \in 1 .. b + 1 : m + i - 1 = L + a + 1 + i
      BY <1>6
    <2> QED BY <1>4, <1>5, <1>8, <1>9, <2>1
  <1>11. s = h
    BY <1>10, SeqEqual
  <1> QED BY <1>1, <1>3, <1>6, <1>9, <1>11

\* ftruncate at the beginning of a line, and what delete copies from there on.
LEMMA TruncaIgual ==
  ASSUME catalogo \in Seq(Entradas), NEW i \in 0 .. Len(catalogo)
  PROVE  SubSeq(Lineas(catalogo), 1, Len(Prefijo(catalogo, i))) = Prefijo(catalogo, i)
  BY PrefijoTipo, CabezaConcat

LEMMA CopiaIgual ==
  ASSUME catalogo \in Seq(Entradas), fichero = Lineas(catalogo),
         NEW i \in 1 .. Len(catalogo), NEW q,
         q = Len(Prefijo(catalogo, i - 1)) + Len(catalogo[i][1]) + 2
  PROVE  catalogo[i][1] \o <<SP>> \o SubSeq(fichero, q, Len(fichero))
           = Resto(catalogo, i - 1)
  <1>1. i \in 0 .. Len(catalogo) /\ i - 1 \in 0 .. Len(catalogo)
    OBVIOUS
  <1>2. catalogo[i] \in Entradas
    BY PrefijoMas
  <1>3. PICK f \in Seq(Bytes), g \in Seq(Bytes) : f = catalogo[i][1] /\ g = catalogo[i][2]
    BY <1>2, EntradaForma
  <1>4. PICK X \in Seq(Bytes), Y \in Seq(Bytes) :
          X = Prefijo(catalogo, i - 1) /\ Y = Resto(catalogo, i)
    BY <1>1, PrefijoTipo
  <1>5. <<SP>> \in Seq(Bytes) /\ <<NL>> \in Seq(Bytes)
    BY DEF Bytes, Blancos
  <1>6. PICK u \in Seq(Bytes) : u = f \o <<SP>>
    BY <1>5, Pegadas
  <1>7. PICK v \in Seq(Bytes) : v = g \o <<NL>>
    BY <1>5, Pegadas
  <1>8. PICK z \in Seq(Bytes) : z = v \o Y
    BY Pegadas
  <1>9. PICK x \in Seq(Bytes) : x = X \o u
    BY Pegadas
  <1>10. Linea(catalogo[i]) = u \o v
    <2>1. Linea(catalogo[i]) = (u \o g) \o <<NL>>
      BY <1>3, <1>6 DEF Linea
    <2>2. (u \o g) \o <<NL>> = u \o (g \o <<NL>>)
      <3>1. Asoc(u, g, <<NL>>)
        BY <1>5, Asociada
      <3> QED BY <3>1, Zenon DEF Asoc
    <2> QED BY <1>7, <2>1, <2>2
  <1>11. Resto(catalogo, i - 1) = u \o z
    <2>1. Resto(catalogo, i - 1) = (u \o v) \o Y
      BY <1>4, <1>10, PrefijoMas
    <2>2. (u \o v) \o Y = u \o (v \o Y)
      <3>1. Asoc(u, v, Y)
        BY Asociada
      <3> QED BY <3>1, Zenon DEF Asoc
    <2> QED BY <1>8, <2>1, <2>2
  <1>12. fichero = x \o z
    <2>1. fichero = X \o (u \o z)
      BY <1>1, <1>4, <1>11, PrefijoTipo
    <2>2. (X \o u) \o z = X \o (u \o z)
      <3>1. Asoc(X, u, z)
        BY Asociada
      <3> QED BY <3>1, Zenon DEF Asoc
    <2> QED BY <1>9, <2>1, <2>2
  <1>13. SubSeq(fichero, q, Len(fichero)) = z
    <2>1. Len(u) = Len(f) + 1 /\ Len(f) \in Nat
      BY <1>6
    <2>2. Len(x) = Len(X) + Len(u) /\ Len(X) \in Nat
      BY <1>9
    <2>3. q = Len(x) + 1
      <3>1. q = Len(X) + Len(f) + 2
        BY <1>3, <1>4, Zenon
      <3>2. Len(x) + 1 = Len(X) + Len(f) + 2
        BY <2>1, <2>2
      <3> QED BY <3>1, <3>2
    <2>4. Len(fichero) = Len(x) + Len(z)
      BY <1>12
    <2>5. SubSeq(x \o z, Len(x) + 1, Len(x) + Len(z)) = z
      BY CabezaConcat
    <2> QED BY <1>12, <2>3, <2>4, <2>5
  <1> QED BY <1>3, <1>6, <1>11, <1>13

\* list_content_get_num: one line break for each line.
Saltos(w) == {i \in DOMAIN w : w[i] = NL}

LEMMA SaltosLinea ==
  ASSUME NEW w \in Seq(Bytes), NEW e \in Entradas
  PROVE  \E x : Saltos(w \o Linea(e)) = Saltos(w) \cup {x} /\ x \notin Saltos(w)
  <1>1. PICK a \in Nat, b \in Nat, f \in Seq(Bytes), g \in Seq(Bytes) :
          f = e[1] /\ g = e[2] /\ a = Len(f) /\ b = Len(g)
    BY EntradaForma
  <1>2. /\ \A i \in 1 .. a : f[i] # NL
        /\ \A i \in 1 .. b : g[i] # NL
    BY <1>1, EntradaForma
  <1>3. PICK l \in Seq(Bytes) : l = Linea(e)
    BY LineaForma DEF EsLinea
  <1>4. /\ Len(l) = a + b + 2
        /\ \A i \in 1 .. a : l[i] = f[i]
        /\ l[a + 1] = SP
        /\ \A i \in 1 .. b : l[a + 1 + i] = g[i]
        /\ l[a + b + 2] = NL
    BY <1>1, <1>3, LineaForma DEF EsLinea
  <1>5. PICK m \in Nat : m = Len(w)
    OBVIOUS
  <1>6. PICK y \in Seq(Bytes) : y = w \o l
    BY Pegadas
  <1>7. /\ Len(y) = m + (a + b + 2)
        /\ \A i \in 1 .. m : y[i] = w[i]
        /\ \A i \in 1 .. a + b + 2 : y[m + i] = l[i]
    <2>1. /\ Len(y) = Len(w) + Len(l)
          /\ \A i \in 1 .. Len(w) : y[i] = w[i]
          /\ \A i \in 1 .. Len(l) : y[Len(w) + i] = l[i]
      BY <1>6, Pegadas
    <2> QED BY <1>4, <1>5, <2>1
  <1>8. \A i \in 1 .. a + b + 2 : l[i] = NL => i = a + b + 2
    <2> TAKE i \in 1 .. a + b + 2
    <2>1. CASE i \in 1 .. a
      BY <1>2, <1>4, <2>1
    <2>2. CASE i = a + 1
      BY <1>4, <2>2, Distintos
    <2>3. CASE i \in a + 2 .. a + b + 1
      <3>1. PICK j \in 1 .. b : i = a + 1 + j
        <4>1. i - (a + 1) \in 1 .. b /\ i = a + 1 + (i - (a + 1))
          BY <2>3
        <4> QED BY <4>1
      <3>2. l[i] = g[j] /\ g[j] # NL
        BY <1>2, <1>4, <3>1
      <3> QED BY <3>2
    <2>4. i \in 1 .. a \/ i = a + 1 \/ i \in a + 2 .. a + b + 1 \/ i = a + b + 2
      OBVIOUS
    <2> QED BY <2>1, <2>2, <2>3, <2>4, Zenon
  <1> DEFINE x == m + (a + b + 2)
  <1>9. DOMAIN w = 1 .. m /\ DOMAIN y = 1 .. x
    BY <1>5, <1>7
  <1>10. \A i \in 1 .. x : y[i] = NL <=> (i \in 1 .. m /\ w[i] = NL) \/ i = x
    <2> TAKE i \in 1 .. x
    <2>1. CASE i \in 1 .. m
      BY <1>7, <2>1
    <2>2. CASE i \notin 1 .. m
      <3>1. PICK j \in 1 .. a + b + 2 : i = m + j
        <4>1. i - m \in 1 .. a + b + 2 /\ i = m + (i - m)
          BY <2>2
        <4> QED BY <4>1
      <3>2. y[i] = l[j]
        BY <1>7, <3>1
      <3>3. j = a + b + 2 <=> i = x
        BY <3>1
      <3> QED BY <1>4, <1>8, <2>2, <3>2, <3>3
    <2> QED BY <2>1, <2>2
  <1>11. x \in 1 .. x /\ x \notin 1 .. m /\ 1 .. m \subseteq 1 .. x
    OBVIOUS
  <1> HIDE DEF x
  <1>12. Saltos(y) = Saltos(w) \cup {x} /\ x \notin Saltos(w)
    BY <1>9, <1>10, <1>11 DEF Saltos
  <1> QED BY <1>3, <1>6, <1>12

LEMMA CuentaSaltos ==
  ASSUME NEW cat \in Seq(Entradas)
  PROVE  Cardinality(Saltos(Lineas(cat))) = Len(cat)
  <1> DEFINE Mal(d) == ~(/\ IsFiniteSet(Saltos(Lineas(d)))
                         /\ Cardinality(Saltos(Lineas(d))) = Len(d))
             T == {k \in Nat : \E d \in Seq(Entradas) : Len(d) = k /\ Mal(d)}
  <1>1. SUFFICES ASSUME T # {} PROVE FALSE
    <2>1. Len(cat) \in Nat
      OBVIOUS
    <2> QED BY <2>1
  <1>2. PICK k \in T : \A y \in T : k <= y
    <2>1. T \subseteq Nat
      OBVIOUS
    <2> QED BY <1>1, <2>1, MinimoNat
  <1>3. PICK d \in Seq(Entradas) : Len(d) = k /\ Mal(d)
    BY <1>2
  <1>4. k \in Nat
    OBVIOUS
  <1>5. CASE d = <<>>
    <2>1. Lineas(d) = <<>> /\ Len(d) = 0
      BY <1>5, LineasVacia
    <2>2. Saltos(<<>>) = {}
      BY DEF Saltos
    <2> QED BY <1>3, <2>1, <2>2, FS_EmptySet
  <1>6. CASE d # <<>>
    <2>1. PICK c \in Seq(Entradas), e \in Entradas : d = Append(c, e)
      BY <1>6, SequenceEmptyOrAppend
    <2>2. Len(c) \in Nat /\ k = Len(c) + 1
      BY <1>3, <2>1
    <2>3. /\ IsFiniteSet(Saltos(Lineas(c)))
          /\ Cardinality(Saltos(Lineas(c))) = Len(c)
      <3>1. ~(k <= Len(c))
        BY <2>2
      <3> QED BY <1>2, <2>2, <3>1
    <2>4. Lineas(c) \in Seq(Bytes) /\ Lineas(d) = Lineas(c) \o Linea(e)
      BY <2>1, LineasAppend
    <2>5. PICK x : Saltos(Lineas(d)) = Saltos(Lineas(c)) \cup {x} /\ x \notin Saltos(Lineas(c))
      BY <2>4, SaltosLinea
    <2> HIDE DEF T
    <2>6. /\ IsFiniteSet(Saltos(Lineas(d)))
          /\ Cardinality(Saltos(Lineas(d))) = Len(c) + 1
      BY <2>3, <2>5, FS_AddElement
    <2> QED BY <1>3, <2>2, <2>6
  <1> QED BY <1>5, <1>6
===============================================================================
