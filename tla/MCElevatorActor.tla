-------------------------- MODULE MCElevatorActor --------------------------
(* Five trips over four floors: two from one floor, one downwards, one     *)
(* across the others' way, and one from a floor to itself.                 *)
EXTENDS ElevatorActor

Trip(i, a, b) == [id |-> i, from |-> a, to |-> b]
MCTrips == {Trip(1, 1, 3), Trip(2, 1, 3), Trip(3, 2, 0), Trip(4, 3, 1), Trip(5, 2, 2)}
=============================================================================
