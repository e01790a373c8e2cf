SPECIFICATION Spec
CONSTANTS
  Porciones = {2, 4}
  Timeout = 12
  Giro = 3
  Pausa = 1
  Tolerancia = 1
  LectMin = 0
  LectMax = 2
  Ruido = 1
  CaidaMax = 2
  Capacidad = 7
  Derivas <- DerivasMC
  Recargas = {3}
INVARIANTS
  TypeOK
  DuracionAcotada
  DosisMinima
  DosisMaxima
