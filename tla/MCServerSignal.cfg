CONSTANTS
  OrderIds = {1}
  Prices = {1}
  Timestamps = {1}
  VolumeModulus = 5
  Symbols = {AAPL}
  NoSymbol = NoSymbol
  Quantities = {1}
  MaxNodes = 2
  NoCommand = NoCommand
  QueueBound = 2
  MaxCommands = 2
SPECIFICATION Spec
PROPERTIES
  SignalEndsMain
CHECK_DEADLOCK FALSE
