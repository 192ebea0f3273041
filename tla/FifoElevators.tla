--------------------------- MODULE FifoElevators ---------------------------
(***************************************************************************)
(* elevator3: ElevatorControlSystem and Elevator (com.joeblau.ecs.impl).   *)
(* Pick-up calls queue in the control system, destinations queue in each   *)
(* elevator; step() goes through the elevators once.                       *)
(*                                                                         *)
(* A queue holds floors in the code and jobs here: a job is a floor with   *)
(* an id, so that two calls from one floor can be told apart.              *)
(***************************************************************************)
EXTENDS Integers, Sequences, FiniteSets, Functions

CONSTANTS numberOfElevators,
          Calls,            \* jobs given with pickUp, from outside
          Destinations      \* jobs given with destination, inside an elevator

ASSUME NumElevatorsAssumption == numberOfElevators \in 1..16     \* MAX_ELEVATORS
ASSUME JobsAssumption == /\ \A j \in Calls \cup Destinations : j.floor \in Int
                         /\ Calls \cap Destinations = {}

ElevatorIds == 0..(numberOfElevators - 1)
Jobs == Calls \cup Destinations

VARIABLES currentFloor, destinationFloors,    \* the fields of each Elevator
          pickupLocations,                    \* the calls no elevator has taken
          called,                             \* all calls, in the order they came
          given,                              \* what each elevator was given, in order
          served                              \* and what it has done of it

fields   == <<currentFloor, destinationFloors, pickupLocations>>
fifoVars == <<fields, called, given, served>>

FifoInit == /\ currentFloor = [e \in ElevatorIds |-> 1]
            /\ destinationFloors = [e \in ElevatorIds |-> << >>]
            /\ pickupLocations = << >>
            /\ called = << >>
            /\ given = [e \in ElevatorIds |-> << >>]
            /\ served = [e \in ElevatorIds |-> << >>]

Given == UNION {Range(given[e]) : e \in ElevatorIds}

PickUpAt(j) ==
  /\ j \notin Range(called)
  /\ pickupLocations' = Append(pickupLocations, j)
  /\ called' = Append(called, j)
  /\ UNCHANGED <<currentFloor, destinationFloors, given, served>>

Destination(e, j) ==
  /\ j \notin Given
  /\ destinationFloors' = [destinationFloors EXCEPT ![e] = Append(@, j)]
  /\ given' = [given EXCEPT ![e] = Append(@, j)]
  /\ UNCHANGED <<currentFloor, pickupLocations, called, served>>

-----------------------------------------------------------------------------
Empty       == {e \in ElevatorIds : destinationFloors[e] = << >>}
Target(e)   == Head(destinationFloors[e]).floor
GoesUp(e)   == e \notin Empty /\ currentFloor[e] < Target(e)
GoesDown(e) == e \notin Empty /\ currentFloor[e] > Target(e)
Holds(e)    == e \notin Empty /\ currentFloor[e] = Target(e)

(* The loop polls once for each empty elevator: in index order they get    *)
(* the first calls of the queue, as far as it goes.                        *)
Turn(e)   == Cardinality({i \in Empty : i <= e})
PolledUnchecked(e) ==            \* variant: isEmpty is not asked, poll answers null
  IF e \notin Empty THEN << >>
  ELSE IF Turn(e) <= Len(pickupLocations) THEN <<pickupLocations[Turn(e)]>>
  ELSE <<[id |-> 0, floor |-> 0]>>
PolledByFirst(e) ==              \* variant: the loop ends at the first empty elevator
  IF e \in Empty /\ Turn(e) = 1 /\ pickupLocations # << >>
  THEN <<pickupLocations[1]>> ELSE << >>
Polled(e) == IF e \in Empty /\ Turn(e) <= Len(pickupLocations)
             THEN <<pickupLocations[Turn(e)]>> ELSE << >>
NumPolled == Cardinality({e \in ElevatorIds : Polled(e) # << >>})

MoveAllFromFirstFloor ==         \* variant: no elevator goes below the floor it starts at
  currentFloor' = [e \in ElevatorIds |->
                     IF GoesUp(e) THEN currentFloor[e] + 1
                     ELSE IF GoesDown(e) /\ currentFloor[e] > 1 THEN currentFloor[e] - 1
                     ELSE currentFloor[e]]
MoveAll == currentFloor' = [e \in ElevatorIds |->
                              IF GoesUp(e) THEN currentFloor[e] + 1
                              ELSE IF GoesDown(e) THEN currentFloor[e] - 1
                              ELSE currentFloor[e]]

(* A job that has been reached leaves its queue at the next step.          *)
QueueDroppingAll(e) ==           \* variant: popping clears the queue
  (IF Holds(e) THEN << >> ELSE destinationFloors[e]) \o Polled(e)
Queue(e) == (IF Holds(e) THEN Tail(destinationFloors[e]) ELSE destinationFloors[e])
               \o Polled(e)

StepAll ==
  /\ MoveAll
  /\ destinationFloors' = [e \in ElevatorIds |-> Queue(e)]
  /\ pickupLocations' = SubSeq(pickupLocations, NumPolled + 1, Len(pickupLocations))
  /\ given' = [e \in ElevatorIds |-> given[e] \o Polled(e)]
  /\ served' = [e \in ElevatorIds |->
                  IF Holds(e) THEN Append(served[e], Head(destinationFloors[e])) ELSE served[e]]
  /\ UNCHANGED called

FifoNext == \/ \E j \in Calls : PickUpAt(j)
            \/ \E e \in ElevatorIds, j \in Destinations : Destination(e, j)
            \/ StepAll

FifoSpec == FifoInit /\ [][FifoNext]_fifoVars

(***************************************************************************)
(* The class has no thread of its own; its callers, the tests, keep        *)
(* calling step.                                                           *)
(***************************************************************************)
FifoFairSpec == FifoSpec /\ WF_fifoVars(StepAll)

-----------------------------------------------------------------------------
(* FifoTypeOK: floors are integers and the queues hold jobs.               *)
FifoTypeOK == /\ currentFloor \in [ElevatorIds -> Int]
              /\ destinationFloors \in [ElevatorIds -> Seq(Jobs)]
              /\ pickupLocations \in Seq(Calls)
              /\ called \in Seq(Calls)
              /\ given \in [ElevatorIds -> Seq(Jobs)]
              /\ served \in [ElevatorIds -> Seq(Jobs)]

(* EachJobInOrder: an elevator does what it was given in the order it was  *)
(* given, calls are taken in the order they came, each by one elevator,    *)
(* and none is dropped or doubled, however calls, destinations and steps   *)
(* mix and whichever elevators happen to be empty.  It is the order of the *)
(* queue that is served, not the "next closest destination in direction"   *)
(* of the comment in step (ElevatorControlSystem.java:65).                 *)
TakenCalls == SubSeq(called, 1, Len(called) - Len(pickupLocations))
EachJobInOrder ==
  /\ \A e \in ElevatorIds : given[e] = served[e] \o destinationFloors[e]
  /\ called = TakenCalls \o pickupLocations
  /\ Given \cap Calls = Range(TakenCalls)
  /\ \A e \in ElevatorIds : IsInjective(given[e])
  /\ \A e, f \in ElevatorIds : e # f => Range(given[e]) \cap Range(given[f]) = {}

(* NoIdlingWhileCallsWait: a step that leaves calls waiting leaves no      *)
(* elevator empty that was empty before it.                                *)
NoIdlingWhileCallsWait ==
  [][StepAll => pickupLocations' = << >> \/ Empty \cap Empty' = {}]_fifoVars

(* EveryCallServed: a call is served in the end although destinations      *)
(* given inside an elevator keep it from taking calls.                     *)
EveryCallServed ==
  \A j \in Calls : j \in Range(called) ~> \E e \in ElevatorIds : j \in Range(served[e])
=============================================================================
