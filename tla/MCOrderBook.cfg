CONSTANTS
  OrderIds = {1, 2, 3}
  Prices = {1, 2}
  Timestamps = {1, 2}
  VolumeModulus = 5
  Quantities <- MCQuantities
  MaxNodes = 4
SPECIFICATION Spec
INVARIANTS
  TypeOK
  BookWellFormed
  OnlyActiveCrosses
  TradesAtMakerPrice
PROPERTIES
  TimePriorityKept
  TradesConserve
  TradesFinishAnOrder
  ImplementsPriority
