CONSTANTS
  Packets = 2
  Conns = 2
  QueueCap = 1
  OutCap = 1
SPECIFICATION FairSpec
INVARIANTS
  TypeOK
  InOrder
  NoConnLeftOpen
  NoLossWhileUp
PROPERTIES
  ImplementsLink
  CancelEnds
  WritersEnd
  PumpEndsOnCancel
