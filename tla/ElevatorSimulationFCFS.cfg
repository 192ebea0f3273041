SPECIFICATION FairSpec
CONSTANTS
  LowestFloor = 1
  HighestFloor = 2
  NumElevators = 2
  MaxPassengers = 1
PROPERTY FCFSDeliversAll
CHECK_DEADLOCK FALSE
