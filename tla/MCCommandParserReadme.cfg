CONSTANTS
  aapl = aapl
  long1 = long1
  long2 = long2
  long = long
  Lines <- MCLines
  Cut <- MCCut
  IntMax = 4
  IdModulus = 8
  MaxOrders = 1
  NoLine = NoLine
SPECIFICATION ParserSpec
PROPERTIES
  ReadmeIsAccepted
CHECK_DEADLOCK FALSE
