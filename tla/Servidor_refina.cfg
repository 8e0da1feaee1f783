\* Two users and two lives of the process over the same directories, against
\* the abstract catalogue.
CONSTANTS
  ana = ana
  luis = luis
  f1 = f1
  f2 = f2
  d = d
  nada = nada
  a1 = a1
  a2 = a2
  Nombres = {ana, luis, basura}
  Ficheros = {f1, f2}
  Descripciones = {d, nada}
  Direcciones = {a1, a2}
  NoFile = no_file
  Ilegible = ilegible
  Ilegibles <- IlegiblesUno
  Vacio = vacio
  Antiguos = {ana, luis}
  Previos <- PreviosDos
  Fallos = FALSE
  Ignorados = FALSE
  Workers = {w1, w2}
  Conexiones = {c1, c2}
  Solicitudes <- DosUsuarios
  MAX_PETICIONES = 1
  MAX_ARRANQUES = 2
  Cortes = FALSE
  Basura = basura
  Nadie = nadie
SPECIFICATION SpecPropias
SYMMETRY Simetria
INVARIANTS TypeOK SinDuplicados RespuestaVigente
PROPERTIES ImplementaCatalogo
\* It stops when every client has been served or the process has died.
CHECK_DEADLOCK FALSE
