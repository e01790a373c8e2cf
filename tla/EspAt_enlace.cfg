SPECIFICATION Spec
CONSTANTS
  FIFO = 1
  REQBUF = 7
  ESPBUF = 4
  Comandos = {1, 2}
  MaxPedidos = 5
  MaxArranque = 1
  MaxPerdidas = 2
  LargoMax = 22
  Mutilados = {1, 10, 22}
INVARIANTS
  RecuperaPronto
  TypeOK
  ServidorAnunciado
PROPERTIES
  CumpleEnlace
  Arranca
