SPECIFICATION Spec
CONSTANTS
  HPD = 2
  MPH = 2
  U8MAX = 2
  PORCION_MIN_G = 5
  PORCION_MAX_G = 10
  PORCION_STEP_G = 5
  PorcionInicial = 10
  CadaInicial <- CadaMC
  Pedidos <- PedidosMC
PROPERTIES
  CancelarPorcion
