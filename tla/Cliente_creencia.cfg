\* Two clients, one failure of any kind: what a client believes, and where a
\* GET_FILE goes.
CONSTANTS
  ana = ana
  luis = luis
  k1 = k1
  k2 = k2
  Nombres = {ana, luis}
  Ficheros = {f1}
  Descripciones = {d}
  a1 = a1
  a2 = a2
  a3 = a3
  Direcciones = {a1, a2, a3}
  NoFile = no_file
  Ilegible = ilegible
  Ilegibles = {}
  Vacio = vacio
  Antiguos = {ana, luis}
  Previos <- SinPublicaciones
  Fallos = FALSE
  Ignorados = FALSE
  Clientes = {k1, k2}
  Hilos = {1, 2, 3}
  Ordenes <- DosClientes
  MAX_ORDENES <- TresYDos
  Averias = {"servidor", "fecha", "interrupcion", "muerte"}
  MAX_AVERIAS = 1
  Nadie = nadie
  Cortada = cortada
SPECIFICATION Spec
SYMMETRY Puertos
INVARIANTS TypeOK ActivoSirve 
PROPERTIES CreenciaCierta
\* It stops when the last command has been typed.
CHECK_DEADLOCK FALSE
