SPECIFICATION Spec
CONSTANTS
  HPD = 2
  MPH = 3
  TPM = 4
  U8MAX = 3
  TickMod = 120
  Medio = 66
  DEsp = 1
  DSched = 1
  DUi = 1
  MaxSeguidas = 2
  Encendido <- UnaHora
  PedidosCada <- SoloCancelar
PROPERTIES
  EvitarDisparoInstantaneo
