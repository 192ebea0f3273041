SPECIFICATION FairSpec
CONSTANTS
  LowestFloor = 1
  HighestFloor = 4
  NumElevators = 3
  MaxPassengers = 3
INVARIANT TypeOK
INVARIANT RidersGoOneWay
INVARIANT RequestsMatchWaiting
PROPERTY DirectionBasedDeliversAll
CHECK_DEADLOCK FALSE
