------------------------- MODULE ElevatorSimulation -------------------------
(***************************************************************************)
(* elevator1: the Simulation loop, the Elevators and the                   *)
(* ElevatorActionPlanner, with either scheduler.  The program is one       *)
(* thread: updateSimulation lets passengers out of and into the elevators  *)
(* whose doors have been opened, one elevator after the other, then step() *)
(* asks the planner for each elevator's action in turn.                    *)
(***************************************************************************)
EXTENDS PickupScheduler

CONSTANTS NumElevators,      \* the code builds three
          MaxPassengers      \* bound on the initial waitingPassengers

ASSUME SizesAssumption == NumElevators \in Nat \ {0} /\ MaxPassengers \in Nat

Elevators == 0..(NumElevators - 1)
None      == "None"

(* Passenger: require(currentFloor != goalFloor).                          *)
Passenger == {p \in [id : 1..MaxPassengers, currentFloor : Floor, goalFloor : Floor] :
                p.currentFloor # p.goalFloor}
DirectionOf(p)   == IF p.currentFloor < p.goalFloor THEN Up ELSE Down
PickupRequestOf(p) == Pickup(p.currentFloor, DirectionOf(p))

VARIABLES scheduler,          \* which ElevatorControlSystem the simulation uses
          requestQueue, assignedRequests,
          elevator,           \* the fields of each Elevator
          waitingPassengers, deliveredPassengers,
          phase, turn         \* where the loop is: updating or stepping elevator `turn`

control == <<requestQueue, assignedRequests>>
vars == <<scheduler, control, elevator, waitingPassengers, deliveredPassengers, phase, turn>>

Arrivals == UNION {{q \in [1..n -> Passenger] : \A i \in 1..n : q[i].id = i} : n \in 1..MaxPassengers}

Init == /\ scheduler \in {"DirectionBased", "FCFS"}
        /\ \E q \in Arrivals :
             /\ waitingPassengers = Range(q)
             /\ requestQueue = [i \in DOMAIN q |-> PickupRequestOf(q[i])]
        /\ assignedRequests = << >>
        /\ elevator = [e \in Elevators |-> [currentFloor |-> 1, passengers |-> {},
                                            deliveryDirection |-> None]]
        /\ deliveredPassengers = {}
        /\ phase = "update" /\ turn = 0

Total == Cardinality(waitingPassengers \cup deliveredPassengers
                       \cup UNION {elevator[e].passengers : e \in Elevators})
AllDelivered == Cardinality(deliveredPassengers) = Total

-----------------------------------------------------------------------------
(* The two loops over the elevators; the while condition is looked at      *)
(* after the last one has stepped.                                         *)
Last == turn = NumElevators - 1
AfterUpdate == /\ phase' = IF Last THEN "step" ELSE "update"
               /\ turn' = IF Last THEN 0 ELSE turn + 1
AfterStep == /\ phase' = IF ~ Last THEN "step" ELSE IF AllDelivered THEN "done" ELSE "update"
             /\ turn' = IF Last THEN 0 ELSE turn + 1

Delivering(e) == elevator[e].passengers # {}
DoorsOpened(e) == elevator[e].deliveryDirection # None       \* isDeliveringPassengers

UpdateElevatorAnyDirection ==  \* variant: takes everyone who waits there
  /\ phase = "update"
  /\ DoorsOpened(turn)
  /\ LET e        == elevator[turn]
         released == {p \in e.passengers : p.goalFloor = e.currentFloor}
         taken    == {p \in waitingPassengers : p.currentFloor = e.currentFloor}
     IN  /\ elevator' = [elevator EXCEPT ![turn].passengers = (@ \ released) \cup taken]
         /\ deliveredPassengers' = deliveredPassengers \cup released
         /\ waitingPassengers' = waitingPassengers \ taken
  /\ AfterUpdate
  /\ UNCHANGED <<scheduler, control>>

(* releasePassengers, then takePassengers.                                 *)
UpdateElevator ==
  /\ phase = "update"
  /\ DoorsOpened(turn)
  /\ LET e        == elevator[turn]
         released == {p \in e.passengers : p.goalFloor = e.currentFloor}
         taken    == {p \in waitingPassengers : /\ p.currentFloor = e.currentFloor
                                                /\ DirectionOf(p) = e.deliveryDirection}
     IN  /\ elevator' = [elevator EXCEPT ![turn].passengers = (@ \ released) \cup taken]
         /\ deliveredPassengers' = deliveredPassengers \cup released
         /\ waitingPassengers' = waitingPassengers \ taken
  /\ AfterUpdate
  /\ UNCHANGED <<scheduler, control>>

PassElevator ==
  /\ phase = "update"
  /\ ~ DoorsOpened(turn)
  /\ AfterUpdate
  /\ UNCHANGED <<scheduler, control, elevator, waitingPassengers, deliveredPassengers>>

(* Elevator.step: what an action does to the elevator.                     *)
Perform(e, action) ==
  CASE action.do = "Move" /\ action.direction = Up   -> [e EXCEPT !.currentFloor = @ + 1]
    [] action.do = "Move" /\ action.direction = Down -> [e EXCEPT !.currentFloor = @ - 1]
    [] action.do = "OpenDoors" -> [e EXCEPT !.deliveryDirection = action.direction]
    [] action.do = "Stay"      -> [e EXCEPT !.deliveryDirection = None]

StepTo(action) ==
  /\ elevator' = [elevator EXCEPT ![turn] = Perform(@, action)]
  /\ AfterStep
  /\ UNCHANGED <<scheduler, waitingPassengers, deliveredPassengers>>

(* LookingForPickup: the scheduler's nextIdleElevatorAction.               *)
StepDirectionBased ==
  /\ phase = "step" /\ ~ Delivering(turn) /\ scheduler = "DirectionBased"
  /\ StepTo(DirectionBasedAction(requestQueue, elevator[turn].currentFloor))
  /\ UNCHANGED control

StepFCFS ==
  /\ phase = "step" /\ ~ Delivering(turn) /\ scheduler = "FCFS"
  /\ StepTo(FCFSAction(turn, requestQueue, assignedRequests, elevator[turn].currentFloor))
  /\ LET a == Assign(turn, requestQueue, assignedRequests)
     IN  requestQueue' = a.queue /\ assignedRequests' = a.assigned

(* DeliveringPassengers: the direction is that of any passenger (the head  *)
(* of a Set).                                                              *)
AtStop(e, d) == \/ \E p \in elevator[e].passengers : p.goalFloor = elevator[e].currentFloor
                \/ IsReadyToPickup(requestQueue, elevator[e].currentFloor, d)

StepToNextStop ==
  /\ phase = "step"
  /\ \E p \in elevator[turn].passengers :
       /\ ~ AtStop(turn, DirectionOf(p))
       /\ StepTo(Move(DirectionOf(p)))
  /\ UNCHANGED control

StepAtStop ==
  /\ phase = "step"
  /\ \E p \in elevator[turn].passengers :
       /\ AtStop(turn, DirectionOf(p))
       /\ StepTo(OpenDoors(DirectionOf(p)))
       /\ requestQueue' = DequeueCompleted(requestQueue, elevator[turn].currentFloor, DirectionOf(p))
  /\ assignedRequests' = IF scheduler = "FCFS" THEN Unassign(turn, assignedRequests)
                         ELSE assignedRequests

Next == \/ UpdateElevator \/ PassElevator
        \/ StepDirectionBased \/ StepFCFS \/ StepToNextStop \/ StepAtStop

Spec     == Init /\ [][Next]_vars
FairSpec == Spec /\ WF_vars(Next)      \* the thread runs until the loop ends

-----------------------------------------------------------------------------
(* TypeOK: an elevator keeps to the building, where Floor's requires hold. *)
TypeOK ==
  /\ requestQueue \in Seq(PickupRequest)
  /\ DOMAIN assignedRequests \subseteq Elevators
  /\ \A e \in DOMAIN assignedRequests : assignedRequests[e] \in PickupRequest
  /\ elevator \in [Elevators -> [currentFloor : Floor, passengers : SUBSET Passenger,
                                 deliveryDirection : {Up, Down, None}]]
  /\ waitingPassengers \subseteq Passenger /\ deliveredPassengers \subseteq Passenger
  /\ phase \in {"update", "step", "done"} /\ turn \in Elevators

(* RidersGoOneWay: passengers.head stands for all passengers because those *)
(* in one elevator want the same way, the one its doors were opened for,   *)
(* and none of their goals has been passed.                                *)
RidersGoOneWay ==
  \A e \in Elevators : \A p \in elevator[e].passengers :
    /\ DirectionOf(p) = elevator[e].deliveryDirection
    /\ IF DirectionOf(p) = Up THEN p.goalFloor >= elevator[e].currentFloor
                              ELSE p.goalFloor <= elevator[e].currentFloor

(* RequestsMatchWaiting: the direction-based queue never forgets a waiting *)
(* passenger, and when the loop starts over it holds no request of anyone  *)
(* who has been taken, though requests are removed by the elevator that    *)
(* happens to stop there and not by the one that set out for them.         *)
RequestsMatchWaiting ==
  scheduler = "DirectionBased" =>
    LET wanted == {PickupRequestOf(p) : p \in waitingPassengers}
    IN  /\ wanted \subseteq Range(requestQueue)
        /\ phase = "update" /\ turn = 0 => Range(requestQueue) = wanted

(* DirectionBasedDeliversAll, FCFSDeliversAll: the simulation ends with    *)
(* every passenger delivered.                                              *)
DirectionBasedDeliversAll == scheduler = "DirectionBased" => <>(phase = "done")
FCFSDeliversAll           == scheduler = "FCFS" => <>(phase = "done")
=============================================================================
