SPECIFICATION FairSpec
CONSTANTS
  Clients = {"c1", "c2"}
  MaxUnits = 3
INVARIANTS
  TypeOK
  AnswersInOrder
  EveryCloseIsSaid
PROPERTIES
  ShutdownEnds
  EveryUnitRead
CHECK_DEADLOCK FALSE
