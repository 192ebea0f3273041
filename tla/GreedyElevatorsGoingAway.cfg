SPECIFICATION GreedySpec
CONSTANTS
  numElevators = 2
  floors = 4
PROPERTIES
  NobodyGoingAway
