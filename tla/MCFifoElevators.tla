-------------------------- MODULE MCFifoElevators --------------------------
(* Two elevators, three calls, two of them from one floor, and two         *)
(* destinations above and below where the elevators start.                 *)
EXTENDS FifoElevators

Job(i, f) == [id |-> i, floor |-> f]
MCCalls        == {Job(1, 3), Job(2, 0), Job(3, 0)}
MCDestinations == {Job(4, 2), Job(5, 0)}
=============================================================================
