------------------------ MODULE ElevatorActorProofs ------------------------
(***************************************************************************)
(* Theorems about one ElevatorActor, for any set of trips over any floors. *)
(***************************************************************************)
EXTENDS ElevatorActor, ElevatorCarLemmas

(* The three invariants, and that nobody waits or rides who has nowhere to *)
(* go, which the stop relies on: he would get in and out at once.          *)
Travelling == \A t \in Waiting(car) \cup Riding(car) : IsTrip(t)
Inv == TypeOK /\ OnCourse /\ EachTripOnce /\ Travelling

LEMMA InitInv == Init => Inv
<1> SUFFICES ASSUME Init PROVE Inv
  OBVIOUS
<1>1. car = NewCar /\ NewCar \in Car
  BY DEF Init, NewCar, Car, Direction, NoDirection
<1>2. Waiting(car) = {} /\ Riding(car) = {}
  BY <1>1 DEF NewCar, Waiting, Riding, Range
<1>3. OnCourse
  BY <1>1 DEF NewCar, OnCourse, LeadsToGoal, HasCaller, IsGoalReached, Up, Down, NoDirection
<1>4. EachTripOnce
  BY <1>1, <1>2 DEF Init, EachTripOnce, IsInjective, NewCar
<1> QED BY <1>1, <1>2, <1>3, <1>4 DEF Init, Inv, TypeOK, Travelling

LEMMA PickUpInv ==
  ASSUME Inv, NEW t \in Trips, ReceivePickUp(t)
  PROVE  Inv'
<1>1. /\ car' = PickUp(car, t) /\ requested' = requested \ {t}
      /\ dismissed' = dismissed /\ arrived' = arrived
      /\ t \in requested /\ car \in Car
  BY DEF ReceivePickUp, Inv, TypeOK
<1>2. OnceEach(car) /\ t \notin Waiting(car) \cup Riding(car)
  BY <1>1 DEF Inv, EachTripOnce, OnceEach
<1>3. /\ car' \in Car /\ OnceEach(car')
      /\ Waiting(car') = Waiting(car) \cup {t} /\ Riding(car') = Riding(car)
      /\ car'.currentFloor = car.currentFloor /\ car'.goalFloor = car.goalFloor
      /\ car'.direction = car.direction
  BY <1>1, <1>2, PickUpProperties
<1>4. TypeOK'
  BY <1>1, <1>3 DEF Inv, TypeOK
<1>5. OnCourse'
  BY <1>3 DEF Inv, OnCourse, LeadsToGoal, HasCaller, IsGoalReached
<1>6. EachTripOnce'
  BY <1>1, <1>2, <1>3 DEF Inv, EachTripOnce, OnceEach
<1>7. Travelling'
  BY <1>3 DEF Inv, Travelling, ReceivePickUp, IsTrip
<1> QED BY <1>4, <1>5, <1>6, <1>7 DEF Inv

LEMMA EmptyPickUpInv ==
  ASSUME Inv, NEW t \in Trips, ReceiveEmptyPickUp(t)
  PROVE  Inv'
BY DEF Inv, TypeOK, OnCourse, EachTripOnce, Travelling, ReceiveEmptyPickUp

(* What a Step does to the sets the properties speak of.                   *)
LEMMA StepEffect ==
  ASSUME Inv, ReceiveStep
  PROVE  LET floor    == car.currentFloor
             entering == {t \in Waiting(car) : t.from = floor}
         IN  /\ car' \in Car /\ OnceEach(car')
             /\ Waiting(car') = Waiting(car) \ entering
             /\ Riding(car') = {t \in Riding(car) \cup entering : t.to # floor}
             /\ arrived' = arrived \cup {t \in Riding(car) \cup entering : t.to = floor}
             /\ UNCHANGED <<requested, dismissed>>
             /\ Waiting(car) \cup Riding(car) \subseteq Trips
<1> DEFINE r == RemoveOnTheFlyGoals(car)
           floor == car.currentFloor
           entering == {t \in Waiting(car) : t.from = floor}
<1>1. car \in Car /\ OnceEach(car) /\ car' = Move(car)
  BY DEF Inv, TypeOK, EachTripOnce, OnceEach, ReceiveStep
<1>2. /\ Move(car) \in Car
      /\ Move(car).pickUpQueue = r.pickUpQueue
      /\ Move(car).destinationQueue = r.destinationQueue
      /\ OnceEach(r)
      /\ Waiting(r) = {t \in Waiting(car) : t.from # floor}
      /\ Riding(r) = {t \in Riding(car) \cup entering : t.to # floor}
  BY <1>1, MoveServesAll, StopServesAll, StopKeepsOnceEach
<1> HIDE DEF r
<1>3. /\ car' \in Car /\ OnceEach(car')
      /\ Waiting(car') = Waiting(car) \ entering
      /\ Riding(car') = {t \in Riding(car) \cup entering : t.to # floor}
  BY <1>1, <1>2 DEF OnceEach, Waiting, Riding
<1>4. Waiting(car) \cup Riding(car) \subseteq Trips
  BY <1>1, RangeOfSeq DEF Waiting, Riding, Car
<1>5. /\ arrived' = arrived \cup ((Riding(car) \cup Waiting(car)) \ (Riding(car') \cup Waiting(car')))
      /\ UNCHANGED <<requested, dismissed>>
  BY DEF ReceiveStep
<1> QED BY <1>1, <1>3, <1>4, <1>5 DEF OnceEach

LEMMA StepInv ==
  ASSUME Inv, ReceiveStep
  PROVE  Inv'
<1> DEFINE entering == {t \in Waiting(car) : t.from = car.currentFloor}
<1>1. /\ car' \in Car /\ OnceEach(car')
      /\ Waiting(car') = Waiting(car) \ entering
      /\ Riding(car') = {t \in Riding(car) \cup entering : t.to # car.currentFloor}
      /\ arrived' = arrived \cup {t \in Riding(car) \cup entering : t.to = car.currentFloor}
      /\ requested' = requested /\ dismissed' = dismissed
      /\ Waiting(car) \cup Riding(car) \subseteq Trips
  BY StepEffect
<1>2. TypeOK'
  BY <1>1 DEF Inv, TypeOK
<1>3. OnCourse'
  <2>1. LeadsToGoal(Move(car)) /\ HasCaller(Move(car))
    BY MoveKeepsCourse DEF Inv, TypeOK, OnCourse
  <2> QED BY <2>1 DEF ReceiveStep, OnCourse
<1>4. EachTripOnce'
  BY <1>1 DEF Inv, EachTripOnce, OnceEach
<1>5. Travelling'
  BY <1>1 DEF Inv, Travelling
<1> QED BY <1>2, <1>3, <1>4, <1>5 DEF Inv

LEMMA NextInv == Inv /\ [Next]_vars => Inv'
<1> SUFFICES ASSUME Inv, [Next]_vars PROVE Inv'
  OBVIOUS
<1>1. CASE \E t \in Trips : ReceivePickUp(t)
  BY <1>1, PickUpInv
<1>2. CASE \E t \in Trips : ReceiveEmptyPickUp(t)
  BY <1>2, EmptyPickUpInv
<1>3. CASE ReceiveStep
  BY <1>3, StepInv
<1>4. CASE UNCHANGED vars
  BY <1>4 DEF vars, Inv, TypeOK, OnCourse, EachTripOnce, Travelling
<1> QED BY <1>1, <1>2, <1>3, <1>4 DEF Next

LEMMA AlwaysInv == Spec => []Inv
BY InitInv, NextInv, PTL DEF Spec

(* TypeCorrect: the fields of the actor stay of their types.               *)
THEOREM TypeCorrect == Spec => []TypeOK
BY AlwaysInv, PTL DEF Inv

(* CourseKept: a car's direction always leads to its goal, and somebody    *)
(* waits for it there.                                                     *)
THEOREM CourseKept == Spec => []OnCourse
BY AlwaysInv, PTL DEF Inv

(* TripsConserved: no order of pick-ups and steps loses or doubles a trip. *)
THEOREM TripsConserved == Spec => []EachTripOnce
BY AlwaysInv, PTL DEF Inv

-----------------------------------------------------------------------------
(***************************************************************************)
(* ServiceImplemented: each handler is a step of TripService: a pick-up is *)
(* an acceptance, an empty one a refusal, a Step serves the car's floor.   *)
(***************************************************************************)
LEMMA ServiceInit == Init => Service!Init
<1> SUFFICES ASSUME Init PROVE Service!Init
  OBVIOUS
<1>1. Waiting(car) = {} /\ Riding(car) = {} /\ requested = Trips /\ car.currentFloor = 0
  BY DEF Init, NewCar, Waiting, Riding, Range
<1> QED BY <1>1 DEF Service!Init, Stage

LEMMA ServicePickUp ==
  ASSUME Inv, NEW t \in Trips, ReceivePickUp(t)
  PROVE  Service!Accept(t, "car")
<1>1. /\ Waiting(car') = Waiting(car) \cup {t} /\ Riding(car') = Riding(car)
      /\ requested' = requested \ {t} /\ t \in requested
      /\ dismissed' = dismissed /\ arrived' = arrived
      /\ car'.currentFloor = car.currentFloor
  BY PickUpProperties DEF ReceivePickUp, Inv, TypeOK
<1>2. t \notin Waiting(car) \cup Riding(car)
  BY <1>1 DEF Inv, EachTripOnce
<1> QED BY <1>1, <1>2 DEF Service!Accept, Stage

LEMMA ServiceEmptyPickUp ==
  ASSUME Inv, NEW t \in Trips, ReceiveEmptyPickUp(t)
  PROVE  Service!Refuse(t, "dismissed")
<1>1. /\ car' = car /\ requested' = requested \ {t} /\ t \in requested
      /\ dismissed' = dismissed \cup {t} /\ arrived' = arrived
      /\ t \notin Waiting(car) \cup Riding(car)
  BY DEF ReceiveEmptyPickUp, Inv, EachTripOnce
<1> QED BY <1>1 DEF Service!Refuse, Stage

LEMMA ServiceStep ==
  ASSUME Inv, ReceiveStep
  PROVE  Service!Next \/ UNCHANGED Service!vars
<1> DEFINE floor    == car.currentFloor
           entering == {t \in Waiting(car) : t.from = floor}
           leaving  == {t \in Riding(car) : t.to = floor}
           stage    == [t \in Trips |-> Stage(t)]
           carrier  == [t \in Trips |-> IF t \in Waiting(car) \cup Riding(car)
                                        THEN "car" ELSE "none"]
<1>1. /\ Waiting(car') = Waiting(car) \ entering
      /\ Riding(car') = (Riding(car) \cup entering) \ leaving
      /\ arrived' = arrived \cup leaving
      /\ requested' = requested /\ dismissed' = dismissed
  <2>1. \A t \in entering : t.to # floor
    BY DEF Inv, Travelling, IsTrip
  <2> QED BY <2>1, StepEffect
<1>2. /\ entering \subseteq Waiting(car) /\ leaving \subseteq Riding(car)
      /\ Waiting(car) \cup Riding(car) \subseteq Trips
      /\ Waiting(car) \cap Riding(car) = {}
      /\ (Waiting(car) \cup Riding(car)) \cap (requested \cup dismissed \cup arrived) = {}
  BY StepEffect DEF Inv, EachTripOnce
<1>3. PICK next \in (floor - 1)..(floor + 1) : next = car'.currentFloor
  BY MoveOneFloor DEF Inv, TypeOK, ReceiveStep
<1>4. Service!Of("car", "waiting") = Waiting(car) /\ Service!Of("car", "riding") = Riding(car)
  BY <1>2 DEF Service!Of, Stage
<1>5. stage' = [t \in Trips |-> IF t \in entering THEN "riding"
                                ELSE IF t \in leaving THEN "arrived"
                                ELSE stage[t]]
  <2> HIDE DEF entering, leaving
  <2> QED BY <1>1, <1>2 DEF Stage
<1>6. carrier' = [t \in Trips |-> IF t \in leaving THEN "none" ELSE carrier[t]]
  <2> HIDE DEF entering, leaving
  <2> QED BY <1>1, <1>2
<1>7. Service!Serve("car", next)
  BY <1>3, <1>4, <1>5, <1>6 DEF Service!Serve
<1> QED BY <1>3, <1>7 DEF Service!Next

LEMMA ServiceNext ==
  ASSUME Inv, [Next]_vars
  PROVE  [Service!Next]_(Service!vars)
<1>1. ASSUME NEW t \in Trips, ReceivePickUp(t) PROVE Service!Next
  BY <1>1, ServicePickUp DEF Service!Next
<1>2. ASSUME NEW t \in Trips, ReceiveEmptyPickUp(t) PROVE Service!Next
  BY <1>2, ServiceEmptyPickUp DEF Service!Next
<1>3. CASE ReceiveStep
  BY <1>3, ServiceStep
<1>4. CASE UNCHANGED vars
  BY <1>4 DEF vars, Service!vars, Stage
<1> QED BY <1>1, <1>2, <1>3, <1>4 DEF Next

THEOREM ServiceImplemented == Spec => ImplementsTripService
<1>1. Inv /\ [Next]_vars => [Service!Next]_(Service!vars)
  BY ServiceNext
<1> QED BY <1>1, ServiceInit, AlwaysInv, PTL DEF Spec, ImplementsTripService, Service!Spec
=============================================================================
