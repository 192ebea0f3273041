---------------------------- MODULE ElevatorCar ----------------------------
(***************************************************************************)
(* The state of one ElevatorActor (elevator2/core/ElevatorActor.scala) and *)
(* what its message handlers compute from it, as operators on a record, so *)
(* that a single car (ElevatorActor) and the cars under a control system   *)
(* (ElevatorControlSystem) use the same translation.                       *)
(*                                                                         *)
(* A trip is an ElevatorTrip(from, to) with an id: two requests with the   *)
(* same floors are two trips.  The code's destinationQueue holds the `to`  *)
(* of each passenger; here it holds the trip itself, so that a passenger   *)
(* can be followed, and the code reads only its `to`.                      *)
(***************************************************************************)
EXTENDS Filtering

CONSTANT Trips          \* the trips clients may request, records with from and to

(***************************************************************************)
(* Floor is Int in the code and nothing checks a floor's range.            *)
(***************************************************************************)
ASSUME TripsAssumption == \A t \in Trips : t.from \in Int /\ t.to \in Int

Up          == "Up"
Down        == "Down"
NoDirection == "NoDirection"
Direction   == {Up, Down, NoDirection}

Car == [currentFloor : Int, goalFloor : Int, direction : Direction,
        pickUpQueue : Seq(Trips), destinationQueue : Seq(Trips)]

NewCar == [currentFloor |-> 0, goalFloor |-> 0, direction |-> NoDirection,
           pickUpQueue |-> << >>, destinationQueue |-> << >>]

Waiting(c) == Range(c.pickUpQueue)
Riding(c)  == Range(c.destinationQueue)

-----------------------------------------------------------------------------
(* PickUp: a trip whose two floors differ joins the queue, another is      *)
(* greeted and forgotten.                                                  *)
IsTrip(t)    == t.from # t.to
PickUpFromTwice(c, t) ==       \* variant: the trip is stored with `from` for `to`
  [c EXCEPT !.pickUpQueue = Append(@, [t EXCEPT !.to = t.from])]

PickUp(c, t) == [c EXCEPT !.pickUpQueue = Append(@, t)]

(* Everyone waiting at the current floor gets in, then everyone who wants  *)
(* this floor gets out.                                                    *)
RemoveFilteredTwice(c) ==      \* variant: who got in is not removed from pickUpQueue
  LET entering == {t \in Trips : t.from = c.currentFloor}
      leaving  == {t \in Trips : t.to = c.currentFloor}
  IN  [c EXCEPT !.destinationQueue =
                  Only(@ \o Only(c.pickUpQueue, entering), Trips \ leaving)]

RemoveAtGoal(c) ==             \* variant: stops where the goal is
  LET entering   == {t \in Trips : t.from = c.goalFloor}
      leaving    == {t \in Trips : t.to = c.goalFloor}
      passengers == c.destinationQueue \o Only(c.pickUpQueue, entering)
  IN  [c EXCEPT !.pickUpQueue      = Only(@, Trips \ entering),
                !.destinationQueue = Only(passengers, Trips \ leaving)]

RemoveOnTheFlyGoals(c) ==
  LET entering   == {t \in Trips : t.from = c.currentFloor}
      leaving    == {t \in Trips : t.to = c.currentFloor}
      passengers == c.destinationQueue \o Only(c.pickUpQueue, entering)
  IN  [c EXCEPT !.pickUpQueue      = Only(@, Trips \ entering),
                !.destinationQueue = Only(passengers, Trips \ leaving)]

(* Passengers come first; without any, the first waiting trip is the goal. *)
GetNewGoal(c) ==
  IF c.destinationQueue # << >> THEN Head(c.destinationQueue).to
  ELSE IF c.pickUpQueue # << >> THEN Head(c.pickUpQueue).from
  ELSE c.currentFloor

DirectionTo(goal, floor) ==
  IF goal > floor THEN Up ELSE IF goal < floor THEN Down ELSE NoDirection

IsGoalReached(c) == c.currentFloor = c.goalFloor

(* The branch of move() that chooses the next goal and the way to it.      *)
SetDirectionFirst(c) ==        \* variant: the direction is computed from the old goal
  IF IsGoalReached(c) \/ c.direction = NoDirection
  THEN [c EXCEPT !.goalFloor = GetNewGoal(c),
                 !.direction = DirectionTo(c.goalFloor, c.currentFloor)]
  ELSE c

SetNewGoal(c) ==
  IF IsGoalReached(c) \/ c.direction = NoDirection
  THEN [c EXCEPT !.goalFloor = GetNewGoal(c),
                 !.direction = DirectionTo(GetNewGoal(c), c.currentFloor)]
  ELSE c

(* No upper limit; the car does not go below floor 0.                      *)
MoveAboveFloorOne(direction, floor) ==   \* variant: off by one at the bottom
  IF direction = Up THEN floor + 1
  ELSE IF direction = Down /\ floor > 1 THEN floor - 1
  ELSE floor

MoveElevator(direction, floor) ==
  IF direction = Up THEN floor + 1
  ELSE IF direction = Down /\ floor > 0 THEN floor - 1
  ELSE floor

(* move(), all of it but the status it sends to its parent.                *)
Move(c) ==
  LET ready == SetNewGoal(RemoveOnTheFlyGoals(c))
  IN  [ready EXCEPT !.currentFloor = MoveElevator(ready.direction, @)]

-----------------------------------------------------------------------------
(* What a car between two messages is expected to satisfy (see OnCourse).  *)
LeadsToGoal(c) == /\ c.direction = Up => c.currentFloor <= c.goalFloor
                  /\ c.direction = Down => c.currentFloor >= c.goalFloor
                  /\ c.direction = NoDirection => IsGoalReached(c)
HasCaller(c) == \/ IsGoalReached(c)
                \/ \E t \in Waiting(c) : t.from = c.goalFloor
                \/ \E t \in Riding(c) : t.to = c.goalFloor
=============================================================================
