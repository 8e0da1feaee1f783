\* Clients die at every point of a request: before a field, after the request,
\* during the answer.  Main's reused struct and the shutdown of main matter here.
\* Liveness under the fairness of SpecJusta, so no symmetry.
CONSTANTS
  ana = ana
  luis = luis
  f1 = f1
  f2 = f2
  d = d
  nada = nada
  a1 = a1
  a2 = a2
  Nombres = {ana, luis, basura}
  Ficheros = {f1, f2}
  Descripciones = {d, nada}
  Direcciones = {a1}
  NoFile = no_file
  Ilegible = ilegible
  Ilegibles <- IlegiblesUno
  Vacio = vacio
  Antiguos = {ana}
  Previos <- PreviosUno
  Fallos = FALSE
  Ignorados = FALSE
  Workers = {w1, w2}
  Conexiones = {c1, c2}
  Solicitudes <- Pocas
  MAX_PETICIONES = 1
  MAX_ARRANQUES = 1
  Cortes = TRUE
  Basura = basura
  Nadie = nadie
SPECIFICATION SpecRegistrada
INVARIANTS RespuestaFiel CamposPropios
PROPERTIES TodoClienteAtendido
\* It stops when every client has been served or the process has died.
CHECK_DEADLOCK FALSE
