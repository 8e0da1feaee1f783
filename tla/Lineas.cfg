\* Requests and answers of every shape, and a client that may die at any byte.
CONSTANTS
  Letras <- LetrasDeTodas
  Peticiones <- PeticionesDeTodas
  Listas <- ListasCortas
  MAX_STR = 4
  MAX_FECHA = 4
  MAX_MSG = 6
  Sueltos = {"n1", "n2"}
  Cortes = TRUE
  Viejo <- CampoViejo
  SinFecha = sin_fecha
SPECIFICATION SpecJusta
INVARIANTS TypeOK PeticionExacta CorteLimpio RespuestaEntera FechaFiel
PROPERTIES ConversacionAcaba
\* It stops when the server has closed the connection.
CHECK_DEADLOCK FALSE
