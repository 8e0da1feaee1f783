\* Three workers, a buffer of two, three requests: the producer waits, workers
\* wait, SIGINT comes at any moment.
CONSTANTS
  Workers = {w1, w2, w3}
  Main = main
  MAX_PETICIONES = 2
  Peticiones = {p1, p2, p3}
  Nadie = nadie
  SinPeticion = sin_peticion
SPECIFICATION SpecJusta
INVARIANTS TypeOK ExclusionMutua BufferCoherente SinDespertarPerdido
PROPERTIES ImplementaCola TodaPeticionSeTrata ElApagadoTermina
\* It stops when every request has been treated.
CHECK_DEADLOCK FALSE
