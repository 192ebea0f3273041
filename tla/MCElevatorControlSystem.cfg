SPECIFICATION FairSpec
CONSTANTS
  Trips <- MCTrips
  Elevators = {1, 2}
  MaxSteps = 1
  MaxBacklog = 1
INVARIANT TypeOK
INVARIANT ViewCatchesUp
INVARIANT EachTripHasOnePlace
PROPERTY ImplementsTripService
PROPERTY EveryTripEnds
