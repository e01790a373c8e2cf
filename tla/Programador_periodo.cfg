SPECIFICATION FairSpec
CONSTANTS
  HPD = 1
  MPH = 3
  TPM = 4
  U8MAX = 2
  TickMod = 84
  Medio = 48
  DEsp = 1
  DSched = 1
  DUi = 1
  MaxSeguidas = 1
  Encendido <- UnaHora
  PedidosCada <- DosPeriodos
INVARIANTS
  AtrasoAcotado
PROPERTIES
  SinDeriva
  AutoNoSeDetiene
