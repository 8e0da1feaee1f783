\* Paths of one letter.
CONSTANTS
  Letras = {"a", "b"}
  Rutas <- RutasCortas
  Descripciones <- Textos
  MAX_ENTRADAS = 2
  NoFile = no_file
SPECIFICATION Spec
INVARIANTS AlPrincipioDeLaSiguiente
\* With these paths the loop of fgetc may find no line break.
CHECK_DEADLOCK FALSE
