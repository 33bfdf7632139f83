CONSTANTS
  OrderIds = {1, 2, 3}
  Prices = {1, 2}
  Timestamps = {1}
  VolumeModulus = 5
  Symbols = {AAPL, TSLA}
  NoSymbol = NoSymbol
  Quantities <- MCQuantities
  MaxNodes = 3
SPECIFICATION Spec
INVARIANTS
  TypeOK
  BooksWellFormed
  RestingIsRouted
  UncrossedAtRest
PROPERTIES
  DeadStayDead
  OnlyCancelOrTradeRemoves
