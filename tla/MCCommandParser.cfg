CONSTANTS
  aapl = aapl
  long1 = long1
  long2 = long2
  long = long
  Lines <- MCLines
  Cut <- MCCut
  IntMax = 4
  IdModulus = 8
  MaxOrders = 2
  NoLine = NoLine
SPECIFICATION ParserSpec
INVARIANTS
  ParserTypeOK
PROPERTIES
  SupportedIsUnderstood
  OnlyOrdersTakeIds
CHECK_DEADLOCK FALSE
