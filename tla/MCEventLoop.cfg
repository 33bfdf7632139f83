CONSTANTS
  c1 = c1
  c2 = c2
  a = a
  b = b
  CR = CR
  LF = LF
  Clients = {c1, c2}
  Stream <- MCStream
  ReadSize = 2
  MaxEvents = 2
  MaxFd = 4
SPECIFICATION Spec
INVARIANTS
  TypeOK
  LinesHandedOnce
  NoLostWakeup
  EventsAreCurrent
  NoDescriptorLeaks
  LinesAreStamped
PROPERTIES
  SentLinesAreHanded
CHECK_DEADLOCK FALSE
