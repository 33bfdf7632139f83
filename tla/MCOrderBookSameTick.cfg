CONSTANTS
  OrderIds = {1, 2}
  Prices = {1, 2}
  Timestamps = {1}
  VolumeModulus = 5
  Quantities = {1, 2}
  MaxNodes = 3
SPECIFICATION Spec
INVARIANTS
  TradesAtRestingPrice
