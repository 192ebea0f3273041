-------------------------- MODULE PickupScheduler --------------------------
(***************************************************************************)
(* The two ElevatorSchedulers of elevator1/control, as operators on a      *)
(* queue of PickupRequests and, for first-come-first-served, on the        *)
(* requests assigned to elevators.                                         *)
(***************************************************************************)
EXTENDS Filtering, FiniteSetsExt

CONSTANTS LowestFloor, HighestFloor

ASSUME FloorsAssumption ==
  /\ LowestFloor \in Int /\ HighestFloor \in Int
  /\ LowestFloor < HighestFloor
  /\ 1 \in LowestFloor..HighestFloor        \* where the elevators start

Floor == LowestFloor..HighestFloor
Up    == "Up"
Down  == "Down"
PickupRequest == [pickupFloor : Floor, direction : {Up, Down}]

Move(d)      == [do |-> "Move", direction |-> d]
OpenDoors(d) == [do |-> "OpenDoors", direction |-> d]
Stay         == [do |-> "Stay"]

Pickup(floor, direction) == [pickupFloor |-> floor, direction |-> direction]

ActionPastPickup(floor, request) ==      \* variant: off by one at the pickup floor
  IF floor <= request.pickupFloor THEN Move(Up)
  ELSE Move(Down)

ActionUpToPickup(floor, request) ==      \* variant: no way down
  IF floor < request.pickupFloor THEN Move(Up) ELSE OpenDoors(request.direction)

ActionToPickup(floor, request) ==
  IF floor < request.pickupFloor THEN Move(Up)
  ELSE IF floor > request.pickupFloor THEN Move(Down)
  ELSE OpenDoors(request.direction)

(* dequeueAll(isPickupCompleted): the requests from this floor this way.   *)
CompletedBothWays(floor, direction) == {Pickup(floor, Up), Pickup(floor, Down)}  \* variant
Completed(floor, direction) == {Pickup(floor, direction)}
DequeueCompleted(queue, floor, direction) ==
  Only(queue, PickupRequest \ Completed(floor, direction))

(* isReadyToPickup is the same in both.                                    *)
IsReadyToPickup(queue, floor, direction) == Pickup(floor, direction) \in Range(queue)

-----------------------------------------------------------------------------
(* DirectionBasedElevatorScheduler: the first request only says which way  *)
(* passengers are fetched, the lowest going up or the highest going down.  *)
FloorsGoing(queue, d) == {r.pickupFloor : r \in {s \in Range(queue) : s.direction = d}}
FarthestRequest(queue) ==
  IF Head(queue).direction = Up THEN Pickup(Min(FloorsGoing(queue, Up)), Up)
                                ELSE Pickup(Max(FloorsGoing(queue, Down)), Down)

DirectionBasedAction(queue, floor) ==
  IF queue = << >> THEN Stay ELSE ActionToPickup(floor, FarthestRequest(queue))

-----------------------------------------------------------------------------
(* FCFSElevatorScheduler: an elevator keeps the request it was assigned,   *)
(* and takes the oldest one when it has none; both only while the queue    *)
(* is not empty.                                                           *)
AssignedTo(e, queue, assigned) ==
  IF e \in DOMAIN assigned THEN assigned[e] ELSE Head(queue)

Assign(e, queue, assigned) ==        \* getOrElseUpdate(elevator.id, dequeue())
  IF queue = << >> \/ e \in DOMAIN assigned
  THEN [queue |-> queue, assigned |-> assigned]
  ELSE [queue |-> Tail(queue),
        assigned |-> [f \in DOMAIN assigned \cup {e} |-> AssignedTo(f, queue, assigned)]]

FCFSAction(e, queue, assigned, floor) ==
  IF queue = << >> THEN Stay ELSE ActionToPickup(floor, AssignedTo(e, queue, assigned))

Unassign(e, assigned) == Restrict(assigned, DOMAIN assigned \ {e})
=============================================================================
