SPECIFICATION GreedyFairSpec
CONSTANTS
  numElevators = 1
  floors = 4
INVARIANTS
  GreedyTypeOK
PROPERTIES
  PassengersFirst
  SomebodyGetsOut
