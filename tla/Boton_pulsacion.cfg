SPECIFICATION Spec
CONSTANTS
  DEBOUNCE_MS = 4
  Rebote = 3
  Lazo = 6
INVARIANTS
  TypeOK
  UnaPorPulsacion
  PulsacionAtendida
PROPERTIES
  NoSeguidos
