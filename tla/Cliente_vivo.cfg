\* Liveness, under the fairness of SpecJusta, with one failure of any kind.
CONSTANTS
  ana = ana
  luis = luis
  k1 = k1
  k2 = k2
  Nombres = {ana, luis}
  Ficheros = {f1}
  Descripciones = {d}
  a1 = a1
  a2 = a2
  Direcciones = {a1, a2}
  NoFile = no_file
  Ilegible = ilegible
  Ilegibles = {}
  Vacio = vacio
  Antiguos = {ana, luis}
  Previos <- SinPublicaciones
  Fallos = FALSE
  Ignorados = FALSE
  Clientes = {k1, k2}
  Hilos = {1, 2}
  Ordenes <- PideYSirve
  MAX_ORDENES <- DosYDos
  Averias = {"servidor", "fecha", "interrupcion", "muerte"}
  MAX_AVERIAS = 1
  Nadie = nadie
  Cortada = cortada
SPECIFICATION SpecJusta
PROPERTIES TodoComandoVuelve HiloParaTrasUnaConexion
\* It stops when the last command has been typed.
CHECK_DEADLOCK FALSE
