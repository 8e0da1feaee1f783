\* Every system call may fail and every log call may fail or arrive late.
CONSTANTS
  ana = ana
  luis = luis
  f1 = f1
  f2 = f2
  d = d
  nada = nada
  a1 = a1
  a2 = a2
  Nombres = {ana, luis, basura}
  Ficheros = {f1, f2}
  Descripciones = {d, nada}
  Direcciones = {a1}
  NoFile = no_file
  Ilegible = ilegible
  Ilegibles <- IlegiblesUno
  Vacio = vacio
  Antiguos = {ana}
  Previos <- PreviosDos
  Fallos = TRUE
  Ignorados = TRUE
  Workers = {w1, w2}
  Conexiones = {c1, c2}
  Solicitudes <- UnUsuario
  MAX_PETICIONES = 1
  MAX_ARRANQUES = 2
  Cortes = FALSE
  Basura = basura
  Nadie = nadie
SPECIFICATION Spec
SYMMETRY Simetria
INVARIANTS LogEnOrden RespuestaVigente
PROPERTIES SoloElDuenio
\* It stops when every client has been served or the process has died.
CHECK_DEADLOCK FALSE
