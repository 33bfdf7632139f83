CONSTANTS
  OrderIds = {1, 2}
  Prices = {1}
  Timestamps = {1}
  VolumeModulus = 5
  Symbols = {AAPL}
  NoSymbol = NoSymbol
  Quantities = {1}
  MaxNodes = 4
  NoCommand = NoCommand
  QueueBound = 2
  MaxCommands = 4
SPECIFICATION Spec
INVARIANTS
  TypeOK
  StopsBetweenCommands
PROPERTIES
  ImplementsExchange
  AcceptedIsProcessed
  EngineStops
CHECK_DEADLOCK FALSE
