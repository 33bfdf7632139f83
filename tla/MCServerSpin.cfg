CONSTANTS
  OrderIds = {1}
  Prices = {1}
  Timestamps = {1}
  VolumeModulus = 5
  Symbols = {AAPL}
  NoSymbol = NoSymbol
  Quantities = {1}
  MaxNodes = 2
  NoCommand = NoCommand
  QueueBound = 1
  MaxCommands = 2
SPECIFICATION Spec
PROPERTIES
  SignalEndsPush
CHECK_DEADLOCK FALSE
