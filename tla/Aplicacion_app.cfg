SPECIFICATION Spec
CONSTANTS
  Tiempos <- TiemposMC
  Horas <- HorasMC
  U8MAX = 3
  HMAX = 1
  MMAX = 1
  MaxPedidos = 3
  MaxVisitas = 2
  MaxAjenos = 1
INVARIANTS
  TypeOK
  UnaPorToque
  ResumenFiel
  CitaFiel
CHECK_DEADLOCK FALSE
