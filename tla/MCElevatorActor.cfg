SPECIFICATION FairSpec
CONSTANT Trips <- MCTrips
INVARIANT TypeOK
INVARIANT OnCourse
INVARIANT EachTripOnce
PROPERTY ImplementsTripService
PROPERTY EveryTripArrives
