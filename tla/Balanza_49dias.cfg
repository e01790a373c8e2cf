SPECIFICATION Spec
CONSTANTS
  MSB = 8
  W32 = 64
  Espera = 3
  Retardo = 1
  Periodo = 2
  Tara <- TaraMC
  Num = 1
  Den = 2
  Cargas <- CargasMC
  RuidoCuentas = 1
  Picos <- PicosMC
  MaxPicos = 2
  Arranques = {0, 63}
  MaxMal = 0
PROPERTIES
  FallaTrasEspera
