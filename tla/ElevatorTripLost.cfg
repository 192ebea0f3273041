SPECIFICATION FairSpec
CONSTANTS
  Trips <- MCTrips
  Elevators = {1, 2}
  MaxSteps = 0
  MaxBacklog = 1
INVARIANT EveryTripRouted
