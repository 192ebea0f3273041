--------------------------- MODULE ElevatorActor ---------------------------
(***************************************************************************)
(* One ElevatorActor on its own, as its unit test drives it: PickUp and    *)
(* Step messages arrive in any order, the timer's Steps never stop.  An    *)
(* actor handles one message at a time, so each handler is one action.     *)
(***************************************************************************)
EXTENDS ElevatorCar

VARIABLES car,          \* the actor's fields
          requested,    \* trips not yet sent to the actor
          dismissed,    \* trips from a floor to itself, which it ignored
          arrived       \* passengers who got out at their floor

vars == <<car, requested, dismissed, arrived>>

Init == /\ car = NewCar
        /\ requested = Trips
        /\ dismissed = {}
        /\ arrived = {}

ReceivePickUp(t) ==
  /\ t \in requested
  /\ IsTrip(t)
  /\ requested' = requested \ {t}
  /\ car' = PickUp(car, t)
  /\ UNCHANGED <<dismissed, arrived>>

ReceiveEmptyPickUp(t) ==
  /\ t \in requested
  /\ ~ IsTrip(t)
  /\ requested' = requested \ {t}
  /\ dismissed' = dismissed \cup {t}
  /\ UNCHANGED <<car, arrived>>

ReceiveStep ==
  /\ car' = Move(car)
  /\ arrived' = arrived \cup ((Riding(car) \cup Waiting(car))
                                 \ (Riding(car') \cup Waiting(car')))
  /\ UNCHANGED <<requested, dismissed>>

Next == \/ \E t \in Trips : ReceivePickUp(t) \/ ReceiveEmptyPickUp(t)
        \/ ReceiveStep

Spec == Init /\ [][Next]_vars

(***************************************************************************)
(* The scheduler sends Step every second for as long as the actor lives.   *)
(***************************************************************************)
FairSpec == Spec /\ WF_vars(ReceiveStep)

-----------------------------------------------------------------------------
(* TypeOK: the fields hold floors, directions and queues of trips, and the *)
(* ledgers hold trips.                                                     *)
TypeOK == /\ car \in Car
          /\ requested \in SUBSET Trips
          /\ dismissed \in SUBSET Trips
          /\ arrived \in SUBSET Trips

(* OnCourse: between messages the car stands at its goal exactly when it   *)
(* has just got there or has no direction, and otherwise the direction it  *)
(* keeps leads to the goal it keeps, although move() recomputes them only  *)
(* at a goal and pick-ups arrive at any time; a car away from its goal is  *)
(* on its way to somebody: a passenger's destination or a waiting trip.    *)
(* This is what move() does; the class comment has an empty car without a  *)
(* new goal move back to the first floor (ElevatorActor.scala:26), which   *)
(* it does not: it stays where the last passenger got out.                 *)
OnCourse == LeadsToGoal(car) /\ HasCaller(car)

(* EachTripOnce: a trip is in one place only and in a queue at most once:  *)
(* moving trips between the two vectors by filter and ++ neither drops nor *)
(* doubles one, and nobody rides who wants the floor he got in at.         *)
EachTripOnce ==
  /\ IsInjective(car.pickUpQueue) /\ IsInjective(car.destinationQueue)
  /\ Waiting(car) \cap Riding(car) = {}
  /\ (Waiting(car) \cup Riding(car)) \cap (requested \cup dismissed \cup arrived) = {}
  /\ requested \cap (dismissed \cup arrived) = {}
  /\ dismissed \cap arrived = {}
  /\ Trips = UNION {requested, dismissed, arrived, Waiting(car), Riding(car)}

(* Service: the queues implement the promise of TripService: a trip is     *)
(* accepted once, boards and leaves only where the car stands and the trip *)
(* begins or ends, and a car passes no floor without serving it.           *)
Stage(t) == IF t \in requested THEN "requested"
            ELSE IF t \in Waiting(car) THEN "waiting"
            ELSE IF t \in Riding(car) THEN "riding"
            ELSE IF t \in dismissed THEN "dismissed"
            ELSE "arrived"
Service == INSTANCE TripService WITH
             Cars    <- {"car"}, NoCar <- "none",
             stage   <- [t \in Trips |-> Stage(t)],
             carrier <- [t \in Trips |-> IF t \in Waiting(car) \cup Riding(car)
                                         THEN "car" ELSE "none"],
             at      <- [c \in {"car"} |-> car.currentFloor]
ImplementsTripService == Service!Spec

(* EveryTripArrives: whoever waits for the car gets out at his floor, even *)
(* though later trips may be served first, provided floors are not below 0 *)
(* (move() stops at 0, so a floor below it is never reached).              *)
EveryTripArrives ==
  (\A t \in Trips : t.from >= 0 /\ t.to >= 0) =>
    \A t \in Trips : t \in Waiting(car) ~> t \in arrived
=============================================================================
