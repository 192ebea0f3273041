---------------------- MODULE MCElevatorControlSystem ----------------------
(* Two elevators and two trips over floors 0..2 that go opposite ways from *)
(* the same floor: they share a car or not, depending on what the control  *)
(* actor knows when it routes them.                                        *)
EXTENDS ElevatorControlSystem

Trip(i, a, b) == [id |-> i, from |-> a, to |-> b]
MCTrips == {Trip(1, 1, 2), Trip(2, 1, 0)}
=============================================================================
