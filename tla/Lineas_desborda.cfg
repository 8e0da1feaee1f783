\* Fields that do not fit in their arrays; no client dies.
CONSTANTS
  Letras <- LetrasDeTodas
  Peticiones <- PeticionesDeTodas
  Listas <- ListasCortas
  MAX_STR = 4
  MAX_FECHA = 4
  MAX_MSG = 6
  Sueltos = {"n1", "n2"}
  Cortes = FALSE
  Viejo <- CampoViejo
  SinFecha = sin_fecha
SPECIFICATION Spec
INVARIANTS CamposEnteros
\* It stops when the server has closed the connection.
CHECK_DEADLOCK FALSE
