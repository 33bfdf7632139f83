CONSTANTS
  Capacity = 3
  Items = {a, b}
  NoItem = NoItem
  MaxItems = 7
SPECIFICATION Spec
INVARIANTS
  TypeOK
  NoDataRace
  FullOnlyWhenFull
PROPERTIES
  ImplementsFIFO
  SpinningPushEnds
