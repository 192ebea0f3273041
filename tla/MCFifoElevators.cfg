SPECIFICATION FifoFairSpec
CONSTANTS
  numberOfElevators = 2
  Calls <- MCCalls
  Destinations <- MCDestinations
INVARIANTS
  FifoTypeOK
  EachJobInOrder
PROPERTIES
  NoIdlingWhileCallsWait
  EveryCallServed
