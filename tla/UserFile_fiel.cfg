\* Files of up to three entries; every order of publishing and deleting them.
CONSTANTS
  Letras = {"a", "b"}
  Rutas <- RutasLargas
  Descripciones <- Textos
  MAX_ENTRADAS = 3
  NoFile = no_file
SPECIFICATION SpecJusta
INVARIANTS FicheroFiel NadaSePierde ListadoFiel
PROPERTIES TodaOperacionTermina
