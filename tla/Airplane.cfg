SPECIFICATION AirplaneSpec
CONSTANTS
  Horizon = 5
  MaxTicks = 2
  Nobody = Nobody
INVARIANTS
  AirplaneTypeOK
  PlaneHearsTheFlight
PROPERTY FlightEnds
CHECK_DEADLOCK FALSE
