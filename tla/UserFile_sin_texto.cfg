\* A publication with an empty description.
CONSTANTS
  Letras = {"a", "b"}
  Rutas <- RutasLargas
  Descripciones <- TextoVacio
  MAX_ENTRADAS = 2
  NoFile = no_file
SPECIFICATION Spec
INVARIANTS SiempreHaySalto
\* With no line break ahead the loop of fgetc goes on for ever.
CHECK_DEADLOCK FALSE
