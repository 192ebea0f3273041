----------------------- MODULE SteppedElevatorsProofs -----------------------
(***************************************************************************)
(* Theorems about the three elevator programs in which a caller steps all  *)
(* elevators: the elevator1 simulation with both schedulers, elevator3 and *)
(* elevator4, for any building, any number of elevators, any passengers,   *)
(* calls and destinations.  Each part extends its own specification, whose *)
(* names are its own.                                                      *)
(***************************************************************************)
EXTENDS ElevatorSimulation, FifoElevators, GreedyElevators, FilteringLemmas,
        FiniteSetTheorems

(***************************************************************************)
(* elevator1: the simulation with both schedulers.                         *)
(***************************************************************************)
(* An elevator has had its update in this round and has still to step.     *)
HasUpdated(e) == \/ phase = "update" /\ e < turn
                 \/ phase = "step" /\ e >= turn

Wanted    == {PickupRequestOf(p) : p \in waitingPassengers}
StopOf(e) == Pickup(elevator[e].currentFloor, elevator[e].deliveryDirection)
Fetchers  == {e \in Elevators : HasUpdated(e) /\ Delivering(e)}

(* FetchedInv: an elevator leaves nobody behind who wanted to go its way,  *)
(* so the request it removes when it opens its doors is nobody's.          *)
FetchedInv == \A e \in Elevators : HasUpdated(e) => StopOf(e) \notin Wanted

(* QueueInv: a request nobody waits for any more is that of an elevator    *)
(* which has just taken somebody in and is going to remove it.             *)
QueueInv == scheduler = "DirectionBased" =>
              /\ Wanted \subseteq Range(requestQueue)
              /\ Range(requestQueue) \ Wanted \subseteq {StopOf(e) : e \in Fetchers}

Inv == TypeOK /\ RidersGoOneWay /\ FetchedInv /\ QueueInv

-----------------------------------------------------------------------------
(* The schedulers and the planner.                                         *)
LEMMA PassengerFacts ==
  ASSUME NEW p \in Passenger
  PROVE  /\ p.currentFloor \in Floor /\ p.goalFloor \in Floor /\ p.currentFloor # p.goalFloor
         /\ DirectionOf(p) \in {Up, Down}
         /\ DirectionOf(p) = Up => p.currentFloor < p.goalFloor
         /\ DirectionOf(p) = Down => p.goalFloor < p.currentFloor
         /\ PickupRequestOf(p) = Pickup(p.currentFloor, DirectionOf(p))
         /\ PickupRequestOf(p) \in PickupRequest
<1>1. p.currentFloor \in Floor /\ p.goalFloor \in Floor /\ p.currentFloor # p.goalFloor
  BY DEF Passenger
<1>2. p.currentFloor \in Int /\ p.goalFloor \in Int
  BY <1>1, FloorsAssumption DEF Floor
<1> QED BY <1>1, <1>2 DEF DirectionOf, Up, Down, PickupRequestOf, Pickup, PickupRequest

LEMMA PickupFacts ==
  /\ \A f, d, g, c : Pickup(f, d) = Pickup(g, c) <=> f = g /\ d = c
  /\ \A f, d : f \in Floor /\ d \in {Up, Down} => Pickup(f, d) \in PickupRequest
  /\ \A r \in PickupRequest : /\ r.pickupFloor \in Floor /\ r.direction \in {Up, Down}
                              /\ r = Pickup(r.pickupFloor, r.direction)
<1>1. \A f, d, g, c : Pickup(f, d) = Pickup(g, c) => f = g /\ d = c
  <2> TAKE f, d, g, c
  <2> HAVE Pickup(f, d) = Pickup(g, c)
  <2>1. Pickup(f, d).pickupFloor = f /\ Pickup(f, d).direction = d
    BY DEF Pickup
  <2>2. Pickup(g, c).pickupFloor = g /\ Pickup(g, c).direction = c
    BY DEF Pickup
  <2> QED BY <2>1, <2>2
<1>2. \A r \in PickupRequest : r = Pickup(r.pickupFloor, r.direction)
  BY DEF PickupRequest, Pickup
<1> QED BY <1>1, <1>2 DEF Pickup, PickupRequest

LEMMA LowestAndHighest ==
  ASSUME NEW S \in SUBSET Floor, S # {}
  PROVE  Min(S) \in S /\ Max(S) \in S
<1>1. S \subseteq Int /\ LowestFloor \in Int /\ HighestFloor \in Int
      /\ \A x \in S : LowestFloor <= x /\ x <= HighestFloor
  BY FloorsAssumption DEF Floor
<1>2. \E m \in S : \A x \in S : m <= x
  <2> DEFINE C == {x - LowestFloor : x \in S}
  <2>1. C \in SUBSET Nat /\ C # {}
    <3>1. \A x \in S : x - LowestFloor \in Nat
      BY <1>1
    <3> QED BY <3>1
  <2>2. PICK c \in C : \A x \in C : c <= x
    BY <2>1, LeastNumber
  <2>3. PICK m \in S : c = m - LowestFloor
    BY <2>2
  <2>4. ASSUME NEW x \in S PROVE m <= x
    <3>1. c <= x - LowestFloor
      BY <2>2
    <3> QED BY <3>1, <2>3, <1>1
  <2> QED BY <2>4
<1>3. \E m \in S : \A x \in S : m >= x
  <2> DEFINE C == {HighestFloor - x : x \in S}
  <2>1. C \in SUBSET Nat /\ C # {}
    <3>1. \A x \in S : HighestFloor - x \in Nat
      BY <1>1
    <3> QED BY <3>1
  <2>2. PICK c \in C : \A x \in C : c <= x
    BY <2>1, LeastNumber
  <2>3. PICK m \in S : c = HighestFloor - m
    BY <2>2
  <2>4. ASSUME NEW x \in S PROVE m >= x
    <3>1. c <= HighestFloor - x
      BY <2>2
    <3> QED BY <3>1, <2>3, <1>1
  <2> QED BY <2>4
<1>4. Min(S) \in S
  BY <1>2 DEF Min
<1>5. Max(S) \in S
  BY <1>3 DEF Max
<1> QED BY <1>4, <1>5

LEMMA FarthestIsRequest ==
  ASSUME NEW queue \in Seq(PickupRequest), queue # << >>
  PROVE  FarthestRequest(queue) \in PickupRequest
<1>1. Head(queue) \in PickupRequest /\ Head(queue) \in Range(queue)
  BY DEF Range
<1>2. Range(queue) \subseteq PickupRequest
  BY DEF Range
<1>3. \A d : FloorsGoing(queue, d) \subseteq Floor
  BY <1>2, PickupFacts DEF FloorsGoing
<1>4. Head(queue).pickupFloor \in FloorsGoing(queue, Head(queue).direction)
  BY <1>1 DEF FloorsGoing
<1>5. CASE Head(queue).direction = Up
  <2>1. Min(FloorsGoing(queue, Up)) \in Floor
    BY <1>3, <1>4, <1>5, LowestAndHighest
  <2> QED BY <1>5, <2>1, PickupFacts DEF FarthestRequest
<1>6. CASE Head(queue).direction # Up
  <2>1. Head(queue).direction = Down
    BY <1>1, <1>6, PickupFacts
  <2>2. Max(FloorsGoing(queue, Down)) \in Floor
    BY <1>3, <1>4, <2>1, LowestAndHighest
  <2> QED BY <1>6, <2>2, PickupFacts DEF FarthestRequest
<1> QED BY <1>5, <1>6

(* The fields of an Elevator, and what an action of the planner does.      *)
Fields == [currentFloor : Floor, passengers : SUBSET Passenger,
           deliveryDirection : {Up, Down, None}]

LEMMA PerformProperties ==
  ASSUME NEW e \in Fields
  PROVE  /\ e.currentFloor < HighestFloor =>
              /\ Perform(e, Move(Up)) \in Fields
              /\ Perform(e, Move(Up)).currentFloor = e.currentFloor + 1
              /\ Perform(e, Move(Up)).deliveryDirection = e.deliveryDirection
              /\ Perform(e, Move(Up)).passengers = e.passengers
         /\ e.currentFloor > LowestFloor =>
              /\ Perform(e, Move(Down)) \in Fields
              /\ Perform(e, Move(Down)).currentFloor = e.currentFloor - 1
              /\ Perform(e, Move(Down)).deliveryDirection = e.deliveryDirection
              /\ Perform(e, Move(Down)).passengers = e.passengers
         /\ \A d \in {Up, Down} :
              /\ Perform(e, OpenDoors(d)) \in Fields
              /\ Perform(e, OpenDoors(d)).currentFloor = e.currentFloor
              /\ Perform(e, OpenDoors(d)).deliveryDirection = d
              /\ Perform(e, OpenDoors(d)).passengers = e.passengers
         /\ Perform(e, Stay) \in Fields
         /\ Perform(e, Stay).passengers = e.passengers
<1>1. Move(Up).do = "Move" /\ Move(Up).direction = Up /\ Move(Down).do = "Move"
      /\ Move(Down).direction = Down /\ Up # Down
  BY DEF Move, Up, Down
<1>2. Stay.do = "Stay" /\ \A d : OpenDoors(d).do = "OpenDoors" /\ OpenDoors(d).direction = d
  BY DEF Stay, OpenDoors
<1>3. Perform(e, Move(Up)) = [e EXCEPT !.currentFloor = @ + 1]
  BY <1>1 DEF Perform
<1>4. Perform(e, Move(Down)) = [e EXCEPT !.currentFloor = @ - 1]
  BY <1>1 DEF Perform
<1>5. \A d : Perform(e, OpenDoors(d)) = [e EXCEPT !.deliveryDirection = d]
  BY <1>2 DEF Perform
<1>6. Perform(e, Stay) = [e EXCEPT !.deliveryDirection = None]
  BY <1>2 DEF Perform
<1>7. /\ e.currentFloor < HighestFloor => e.currentFloor + 1 \in Floor
      /\ e.currentFloor > LowestFloor => e.currentFloor - 1 \in Floor
  BY FloorsAssumption DEF Fields, Floor
<1> QED BY <1>3, <1>4, <1>5, <1>6, <1>7 DEF Fields

(* An elevator that has nobody in it keeps to the building and stays empty,*)
(* whichever request it is sent to.                                        *)
LEMMA ActionToPickupProperties ==
  ASSUME NEW e \in Fields, NEW r \in PickupRequest
  PROVE  /\ Perform(e, ActionToPickup(e.currentFloor, r)) \in Fields
         /\ Perform(e, ActionToPickup(e.currentFloor, r)).passengers = e.passengers
<1>1. e.currentFloor \in Floor /\ r.pickupFloor \in Floor /\ r.direction \in {Up, Down}
  BY PickupFacts DEF Fields
<1>2. CASE e.currentFloor < r.pickupFloor
  <2>1. e.currentFloor < HighestFloor
    BY <1>1, <1>2, FloorsAssumption DEF Floor
  <2>2. ActionToPickup(e.currentFloor, r) = Move(Up)
    BY <1>2 DEF ActionToPickup
  <2> QED BY <2>1, <2>2, PerformProperties
<1>3. CASE e.currentFloor > r.pickupFloor
  <2>1. e.currentFloor > LowestFloor /\ ~ (e.currentFloor < r.pickupFloor)
    BY <1>1, <1>3, FloorsAssumption DEF Floor
  <2>2. ActionToPickup(e.currentFloor, r) = Move(Down)
    BY <1>3, <2>1 DEF ActionToPickup
  <2> QED BY <2>1, <2>2, PerformProperties
<1>4. CASE ~ (e.currentFloor < r.pickupFloor) /\ ~ (e.currentFloor > r.pickupFloor)
  <2>1. ActionToPickup(e.currentFloor, r) = OpenDoors(r.direction)
    BY <1>4 DEF ActionToPickup
  <2> QED BY <1>1, <2>1, PerformProperties
<1> QED BY <1>2, <1>3, <1>4

-----------------------------------------------------------------------------
(* The two loops over the elevators.                                       *)
LEMMA UpdateTurn ==
  ASSUME TypeOK, phase = "update", AfterUpdate
  PROVE  /\ phase' \in {"update", "step", "done"} /\ turn' \in Elevators
         /\ \A e \in Elevators : HasUpdated(e)' <=> HasUpdated(e) \/ e = turn
<1>1. turn \in Nat /\ turn <= NumElevators - 1 /\ NumElevators \in Nat \ {0}
      /\ \A e \in Elevators : e \in Nat /\ e <= NumElevators - 1
  BY SizesAssumption DEF TypeOK, Elevators
<1>2. CASE Last
  BY <1>1, <1>2 DEF AfterUpdate, Last, HasUpdated, Elevators
<1>3. CASE ~ Last
  BY <1>1, <1>3 DEF AfterUpdate, Last, HasUpdated, Elevators
<1> QED BY <1>2, <1>3

LEMMA StepTurn ==
  ASSUME TypeOK, phase = "step", AfterStep
  PROVE  /\ phase' \in {"update", "step", "done"} /\ turn' \in Elevators
         /\ \A e \in Elevators : HasUpdated(e)' <=> HasUpdated(e) /\ e # turn
<1>1. turn \in Nat /\ turn <= NumElevators - 1 /\ NumElevators \in Nat \ {0}
      /\ \A e \in Elevators : e \in Nat /\ e <= NumElevators - 1
  BY SizesAssumption DEF TypeOK, Elevators
<1>2. CASE Last
  <2>1. phase' \in {"update", "done"} /\ turn' = 0 /\ turn = NumElevators - 1
    BY <1>2, Zenon DEF AfterStep, Last
  <2> QED BY <1>1, <2>1 DEF HasUpdated, Elevators
<1>3. CASE ~ Last
  BY <1>1, <1>3 DEF AfterStep, Last, HasUpdated, Elevators
<1> QED BY <1>2, <1>3

(* What RidersGoOneWay says of one elevator.                               *)
OneWay(e) ==
  \A p \in e.passengers :
    /\ DirectionOf(p) = e.deliveryDirection
    /\ IF DirectionOf(p) = Up THEN p.goalFloor >= e.currentFloor
                              ELSE p.goalFloor <= e.currentFloor

LEMMA StateFacts ==
  ASSUME Inv
  PROVE  /\ turn \in Elevators
         /\ \A e \in Elevators :
              /\ elevator[e] \in Fields /\ OneWay(elevator[e])
              /\ elevator[e].passengers \subseteq Passenger
              /\ elevator[e].currentFloor \in Floor /\ elevator[e].currentFloor \in Int
              /\ elevator[e].deliveryDirection \in {Up, Down, None}
         /\ waitingPassengers \subseteq Passenger
         /\ Wanted \subseteq PickupRequest
         /\ requestQueue \in Seq(PickupRequest)
<1>1. \A e \in Elevators : elevator[e] \in Fields
  BY DEF Inv, TypeOK, Fields
<1>2. waitingPassengers \subseteq Passenger
  BY DEF Inv, TypeOK
<1>3. Wanted \subseteq PickupRequest
  BY <1>2, PassengerFacts DEF Wanted
<1>4. \A e \in Elevators : OneWay(elevator[e])
  BY DEF Inv, RidersGoOneWay, OneWay
<1> QED BY <1>1, <1>2, <1>3, <1>4, FloorsAssumption DEF Inv, TypeOK, Fields, Floor

-----------------------------------------------------------------------------
LEMMA InitInv == Init => Inv
<1> SUFFICES ASSUME Init PROVE Inv
  OBVIOUS
<1>1. PICK n \in 1..MaxPassengers : \E q \in [1..n -> Passenger] :
        /\ waitingPassengers = Range(q)
        /\ requestQueue = [i \in DOMAIN q |-> PickupRequestOf(q[i])]
  BY DEF Init, Arrivals
<1>2. PICK q \in [1..n -> Passenger] :
        /\ waitingPassengers = Range(q)
        /\ requestQueue = [i \in DOMAIN q |-> PickupRequestOf(q[i])]
  BY <1>1
<1>3. n \in Nat
  BY SizesAssumption
<1>4. \A i \in 1..n : q[i] \in Passenger /\ PickupRequestOf(q[i]) \in PickupRequest
  BY PassengerFacts
<1>5. requestQueue = [i \in 1..n |-> PickupRequestOf(q[i])]
  BY <1>2
<1>6. requestQueue \in Seq(PickupRequest)
  BY <1>3, <1>4, <1>5
<1>7. Range(requestQueue) = Wanted
  <2>1. waitingPassengers = {q[i] : i \in 1..n}
    BY <1>2 DEF Range
  <2>2. Range(requestQueue) = {PickupRequestOf(q[i]) : i \in 1..n}
    BY <1>5 DEF Range
  <2> QED BY <2>1, <2>2 DEF Wanted
<1>8. 1 \in Floor /\ 0 \in Elevators
  BY FloorsAssumption, SizesAssumption DEF Floor, Elevators
<1>9. \A e \in Elevators : elevator[e] = [currentFloor |-> 1, passengers |-> {},
                                          deliveryDirection |-> None]
  BY DEF Init
<1>10. \A e \in Elevators : elevator[e].passengers = {}
  BY <1>9
<1>11. elevator \in [Elevators -> Fields]
  BY <1>8 DEF Init, Fields
<1>12. TypeOK
  <2>1. DOMAIN assignedRequests = {}
    BY DEF Init
  <2>2. waitingPassengers \subseteq Passenger
    BY <1>2, <1>4 DEF Range
  <2> QED BY <1>6, <1>8, <1>11, <2>1, <2>2 DEF TypeOK, Init, Fields
<1>13. RidersGoOneWay
  BY <1>10 DEF RidersGoOneWay
<1>14. FetchedInv
  BY SizesAssumption DEF FetchedInv, HasUpdated, Init, Elevators
<1>15. QueueInv
  BY <1>7 DEF QueueInv
<1> QED BY <1>12, <1>13, <1>14, <1>15 DEF Inv

(* The updates: the elevator takes in everyone who wants to go its way, or *)
(* its doors are closed and nobody does.                                   *)
LEMMA UpdateElevatorInv ==
  ASSUME Inv, UpdateElevator
  PROVE  Inv'
<1>0. PICK k \in Elevators : k = turn
  BY StateFacts
<1>1. PICK c : c = elevator[k]
  OBVIOUS
<1>2. /\ c \in Fields /\ OneWay(c) /\ c.passengers \subseteq Passenger
      /\ c.currentFloor \in Floor /\ c.currentFloor \in Int
      /\ c.deliveryDirection \in {Up, Down}
  BY <1>0, <1>1, StateFacts DEF UpdateElevator, DoorsOpened
<1> DEFINE released == {p \in c.passengers : p.goalFloor = c.currentFloor}
           taken    == {p \in waitingPassengers : /\ p.currentFloor = c.currentFloor
                                                  /\ DirectionOf(p) = c.deliveryDirection}
           inside   == (c.passengers \ released) \cup taken
           after    == [c EXCEPT !.passengers = inside]
<1>3. /\ elevator' = [elevator EXCEPT ![k] = after]
      /\ deliveredPassengers' = deliveredPassengers \cup released
      /\ waitingPassengers' = waitingPassengers \ taken
      /\ requestQueue' = requestQueue /\ assignedRequests' = assignedRequests
      /\ scheduler' = scheduler
      /\ phase = "update" /\ AfterUpdate
  BY <1>0, <1>1 DEF UpdateElevator, control
<1>4. inside \subseteq Passenger /\ released \subseteq Passenger /\ taken \subseteq Passenger
  BY <1>2, StateFacts
<1>5. /\ after \in Fields /\ after.passengers = inside /\ after.currentFloor = c.currentFloor
      /\ after.deliveryDirection = c.deliveryDirection
  BY <1>2, <1>4 DEF Fields
<1> HIDE DEF after
<1>6. /\ elevator' \in [Elevators -> Fields]
      /\ elevator'[k] = after /\ \A e \in Elevators : e # k => elevator'[e] = elevator[e]
  BY <1>3, <1>5, StateFacts DEF Inv, TypeOK, Fields
<1>7. TypeOK'
  BY <1>3, <1>4, <1>6, UpdateTurn DEF Inv, TypeOK, Fields
<1>8. RidersGoOneWay'
  <2>1. OneWay(after)
    <3> SUFFICES ASSUME NEW p \in inside
                 PROVE  /\ DirectionOf(p) = c.deliveryDirection
                        /\ IF DirectionOf(p) = Up THEN p.goalFloor >= c.currentFloor
                                                  ELSE p.goalFloor <= c.currentFloor
      BY <1>5 DEF OneWay
    <3>1. CASE p \in c.passengers
      BY <3>1, <1>2 DEF OneWay
    <3>2. CASE p \in taken
      <4>1. p.currentFloor \in Int /\ p.goalFloor \in Int
        BY <1>4, <3>2, PassengerFacts, FloorsAssumption DEF Floor
      <4> QED BY <3>2, <4>1, <1>4, PassengerFacts
    <3> QED BY <3>1, <3>2
  <2>2. \A e \in Elevators : OneWay(elevator'[e])
    BY <2>1, <1>6, StateFacts
  <2> QED BY <2>2 DEF RidersGoOneWay, OneWay
<1>9. \A e \in Elevators : /\ StopOf(e)' = StopOf(e)
                           /\ e # k => (Delivering(e)' <=> Delivering(e))
  BY <1>1, <1>5, <1>6 DEF StopOf, Delivering
<1>10. Wanted' \subseteq Wanted \ {StopOf(k)}
  <2> SUFFICES ASSUME NEW p \in waitingPassengers \ taken
               PROVE  PickupRequestOf(p) \in Wanted \ {StopOf(k)}
    BY <1>3 DEF Wanted
  <2>1. PickupRequestOf(p) = Pickup(p.currentFloor, DirectionOf(p))
    BY StateFacts, PassengerFacts
  <2> QED BY <2>1, <1>1, PickupFacts DEF Wanted, StopOf
<1>11. Wanted \subseteq Wanted' \cup {StopOf(k)}
  <2> SUFFICES ASSUME NEW p \in waitingPassengers, PickupRequestOf(p) # StopOf(k)
               PROVE  PickupRequestOf(p) \in Wanted'
    BY DEF Wanted
  <2>1. PickupRequestOf(p) = Pickup(p.currentFloor, DirectionOf(p))
    BY StateFacts, PassengerFacts
  <2>2. p \notin taken
    BY <2>1, <1>1, PickupFacts DEF StopOf
  <2> QED BY <2>2, <1>3 DEF Wanted
<1>12. StopOf(k) \in Wanted => Delivering(k)'
  <2> SUFFICES ASSUME NEW p \in waitingPassengers, PickupRequestOf(p) = StopOf(k)
               PROVE  Delivering(k)'
    BY DEF Wanted
  <2>1. PickupRequestOf(p) = Pickup(p.currentFloor, DirectionOf(p))
    BY StateFacts, PassengerFacts
  <2>2. Pickup(p.currentFloor, DirectionOf(p)) = Pickup(c.currentFloor, c.deliveryDirection)
    BY <2>1, <1>1 DEF StopOf
  <2>3. p.currentFloor = c.currentFloor /\ DirectionOf(p) = c.deliveryDirection
    BY <2>2, PickupFacts
  <2>4. p \in inside
    BY <2>3
  <2>5. elevator'[k].passengers = inside
    BY <1>5, <1>6
  <2> QED BY <2>4, <2>5 DEF Delivering
<1>13. \A e \in Elevators : HasUpdated(e)' <=> HasUpdated(e) \/ e = k
  BY <1>0, <1>3, UpdateTurn DEF Inv
<1>14. ~ HasUpdated(k)
  BY <1>0, <1>3, StateFacts, SizesAssumption DEF HasUpdated, Elevators
<1>15. FetchedInv'
  BY <1>9, <1>10, <1>13, StateFacts DEF Inv, FetchedInv
<1>16. QueueInv'
  <2> SUFFICES ASSUME scheduler = "DirectionBased"
               PROVE  /\ Wanted' \subseteq Range(requestQueue)
                      /\ \A r \in Range(requestQueue) \ Wanted' :
                           \E e \in Elevators : /\ HasUpdated(e)' /\ Delivering(e)'
                                                /\ r = StopOf(e)'
    BY <1>3 DEF QueueInv, Fetchers
  <2>1. Wanted' \subseteq Range(requestQueue)
    BY <1>10 DEF Inv, QueueInv
  <2>2. ASSUME NEW r \in Range(requestQueue) \ Wanted'
        PROVE  \E e \in Elevators : HasUpdated(e)' /\ Delivering(e)' /\ r = StopOf(e)'
    <3>1. CASE r \in Wanted
      BY <3>1, <1>9, <1>11, <1>12, <1>13, StateFacts
    <3>2. CASE r \notin Wanted
      <4>1. PICK e \in Elevators : HasUpdated(e) /\ Delivering(e) /\ r = StopOf(e)
        BY <3>2 DEF Inv, QueueInv, Fetchers
      <4> QED BY <4>1, <1>9, <1>13, <1>14
    <3> QED BY <3>1, <3>2
  <2> QED BY <2>1, <2>2
<1> QED BY <1>7, <1>8, <1>15, <1>16 DEF Inv

LEMMA PassElevatorInv ==
  ASSUME Inv, PassElevator
  PROVE  Inv'
<1>1. /\ elevator' = elevator /\ deliveredPassengers' = deliveredPassengers
      /\ waitingPassengers' = waitingPassengers
      /\ requestQueue' = requestQueue /\ assignedRequests' = assignedRequests
      /\ scheduler' = scheduler
      /\ phase = "update" /\ AfterUpdate /\ elevator[turn].deliveryDirection = None
  BY DEF PassElevator, control, DoorsOpened
<1>2. TypeOK'
  BY <1>1, UpdateTurn DEF Inv, TypeOK
<1>3. RidersGoOneWay'
  BY <1>1 DEF Inv, RidersGoOneWay
<1>4. Wanted' = Wanted /\ \A e : StopOf(e)' = StopOf(e) /\ (Delivering(e)' <=> Delivering(e))
  BY <1>1 DEF Wanted, StopOf, Delivering
<1>5. StopOf(turn) \notin Wanted
  <2> SUFFICES ASSUME NEW p \in waitingPassengers, PickupRequestOf(p) = StopOf(turn)
               PROVE  FALSE
    BY DEF Wanted
  <2>1. /\ PickupRequestOf(p) = Pickup(p.currentFloor, DirectionOf(p))
        /\ DirectionOf(p) \in {Up, Down}
    BY StateFacts, PassengerFacts
  <2>2. Pickup(p.currentFloor, DirectionOf(p)) = Pickup(elevator[turn].currentFloor, None)
    BY <2>1, <1>1 DEF StopOf
  <2>3. DirectionOf(p) = None
    BY <2>2, PickupFacts
  <2> QED BY <2>1, <2>3 DEF None, Up, Down
<1>6. \A e \in Elevators : HasUpdated(e)' <=> HasUpdated(e) \/ e = turn
  BY <1>1, UpdateTurn DEF Inv
<1>7. FetchedInv'
  BY <1>4, <1>5, <1>6 DEF Inv, FetchedInv
<1>8. QueueInv'
  <2> SUFFICES ASSUME scheduler = "DirectionBased"
               PROVE  /\ Wanted \subseteq Range(requestQueue)
                      /\ \A r \in Range(requestQueue) \ Wanted :
                           \E e \in Elevators : HasUpdated(e)' /\ Delivering(e) /\ r = StopOf(e)
    BY <1>1, <1>4 DEF QueueInv, Fetchers
  <2> QED BY <1>6 DEF Inv, QueueInv, Fetchers
<1> QED BY <1>2, <1>3, <1>7, <1>8 DEF Inv

-----------------------------------------------------------------------------
(* A step of the elevator k, which neither lets anybody in nor out: it     *)
(* keeps the invariant when, with passengers, it keeps their way, and when *)
(* the queue loses no more and no less than the request it has fetched.    *)
LEMMA StepInv ==
  ASSUME Inv, phase = "step", AfterStep, NEW k \in Elevators, k = turn,
         scheduler' = scheduler, waitingPassengers' = waitingPassengers,
         deliveredPassengers' = deliveredPassengers,
         NEW c \in Fields, OneWay(c), c.passengers = elevator[k].passengers,
         elevator' = [elevator EXCEPT ![k] = c],
         requestQueue' \in Seq(PickupRequest),
         DOMAIN assignedRequests' \subseteq Elevators,
         \A e \in DOMAIN assignedRequests' : assignedRequests'[e] \in PickupRequest,
         scheduler = "DirectionBased" =>
           Range(requestQueue') = IF Delivering(k) THEN Range(requestQueue) \ {StopOf(k)}
                                  ELSE Range(requestQueue)
  PROVE  Inv'
<1>1. /\ elevator' \in [Elevators -> Fields]
      /\ elevator'[k] = c /\ \A e \in Elevators : e # k => elevator'[e] = elevator[e]
  BY DEF Inv, TypeOK, Fields
<1>2. TypeOK'
  BY <1>1, StepTurn DEF Inv, TypeOK, Fields
<1>3. RidersGoOneWay'
  <2>1. \A e \in Elevators : OneWay(elevator'[e])
    BY <1>1, StateFacts
  <2> QED BY <2>1 DEF RidersGoOneWay, OneWay
<1>4. /\ Wanted' = Wanted
      /\ \A e \in Elevators : /\ e # k => StopOf(e)' = StopOf(e)
                              /\ Delivering(e)' <=> Delivering(e)
  BY <1>1 DEF Wanted, StopOf, Delivering
<1>5. \A e \in Elevators : HasUpdated(e)' <=> HasUpdated(e) /\ e # k
  BY StepTurn DEF Inv
<1>6. FetchedInv'
  BY <1>4, <1>5 DEF Inv, FetchedInv
<1>7. QueueInv'
  <2> SUFFICES ASSUME scheduler = "DirectionBased"
               PROVE  /\ Wanted \subseteq Range(requestQueue')
                      /\ \A r \in Range(requestQueue') \ Wanted :
                           \E e \in Elevators : /\ HasUpdated(e)' /\ Delivering(e)'
                                                /\ r = StopOf(e)'
    BY <1>4 DEF QueueInv, Fetchers
  <2>1. HasUpdated(k)
    BY DEF HasUpdated, Elevators
  <2>2. StopOf(k) \notin Wanted /\ Wanted \subseteq Range(requestQueue)
    BY <2>1 DEF Inv, FetchedInv, QueueInv
  <2>3. Wanted \subseteq Range(requestQueue')
    BY <2>2
  <2>4. ASSUME NEW r \in Range(requestQueue') \ Wanted
        PROVE  \E e \in Elevators : HasUpdated(e)' /\ Delivering(e)' /\ r = StopOf(e)'
    <3>1. r \in Range(requestQueue) \ Wanted /\ (Delivering(k) => r # StopOf(k))
      BY <2>4
    <3>2. PICK e \in Elevators : HasUpdated(e) /\ Delivering(e) /\ r = StopOf(e)
      BY <3>1 DEF Inv, QueueInv, Fetchers
    <3>3. e # k
      BY <3>1, <3>2
    <3> QED BY <3>2, <3>3, <1>4, <1>5
  <2> QED BY <2>3, <2>4
<1> QED BY <1>2, <1>3, <1>6, <1>7 DEF Inv

LEMMA StepDirectionBasedInv ==
  ASSUME Inv, StepDirectionBased
  PROVE  Inv'
<1>1. PICK k \in Elevators : k = turn
  BY StateFacts
<1>2. PICK c : c = Perform(elevator[k], DirectionBasedAction(requestQueue, elevator[k].currentFloor))
  OBVIOUS
<1>3. /\ elevator' = [elevator EXCEPT ![k] = c]
      /\ phase = "step" /\ AfterStep /\ ~ Delivering(k)
      /\ requestQueue' = requestQueue /\ assignedRequests' = assignedRequests
      /\ scheduler' = scheduler /\ waitingPassengers' = waitingPassengers
      /\ deliveredPassengers' = deliveredPassengers
  BY <1>1, <1>2 DEF StepDirectionBased, StepTo, control
<1>4. c \in Fields /\ c.passengers = elevator[k].passengers
  <2>1. CASE requestQueue = << >>
    <3>1. c = Perform(elevator[k], Stay)
      BY <2>1, <1>2 DEF DirectionBasedAction
    <3> QED BY <3>1, StateFacts, PerformProperties
  <2>2. CASE requestQueue # << >>
    <3>1. FarthestRequest(requestQueue) \in PickupRequest
      BY <2>2, StateFacts, FarthestIsRequest
    <3>2. c = Perform(elevator[k], ActionToPickup(elevator[k].currentFloor,
                                                  FarthestRequest(requestQueue)))
      BY <2>2, <1>2 DEF DirectionBasedAction
    <3> QED BY <3>1, <3>2, StateFacts, ActionToPickupProperties
  <2> QED BY <2>1, <2>2
<1>5. OneWay(c)
  BY <1>3, <1>4 DEF OneWay, Delivering
<1> QED BY <1>1, <1>3, <1>4, <1>5, StepInv DEF Inv, TypeOK

(* What the first-come-first-served scheduler does to its two collections. *)
LEMMA AssignProperties ==
  ASSUME NEW e \in Elevators, NEW queue \in Seq(PickupRequest), NEW assigned,
         DOMAIN assigned \subseteq Elevators, \A f \in DOMAIN assigned : assigned[f] \in PickupRequest
  PROVE  /\ Assign(e, queue, assigned).queue \in Seq(PickupRequest)
         /\ DOMAIN Assign(e, queue, assigned).assigned \subseteq Elevators
         /\ \A f \in DOMAIN Assign(e, queue, assigned).assigned :
              Assign(e, queue, assigned).assigned[f] \in PickupRequest
         /\ queue # << >> => AssignedTo(e, queue, assigned) \in PickupRequest
<1>1. queue # << >> => Head(queue) \in PickupRequest /\ Tail(queue) \in Seq(PickupRequest)
  OBVIOUS
<1>2. queue # << >> => \A f \in DOMAIN assigned \cup {e} :
                         AssignedTo(f, queue, assigned) \in PickupRequest
  BY <1>1 DEF AssignedTo
<1>3. CASE queue = << >> \/ e \in DOMAIN assigned
  BY <1>2, <1>3 DEF Assign
<1>4. CASE ~ (queue = << >> \/ e \in DOMAIN assigned)
  <2> DEFINE added == [f \in DOMAIN assigned \cup {e} |-> AssignedTo(f, queue, assigned)]
  <2>1. Assign(e, queue, assigned) = [queue |-> Tail(queue), assigned |-> added]
    BY <1>4 DEF Assign
  <2>2. DOMAIN added = DOMAIN assigned \cup {e} /\ \A f \in DOMAIN added : added[f] \in PickupRequest
    BY <1>2, <1>4
  <2> HIDE DEF added
  <2>3. Assign(e, queue, assigned).queue = Tail(queue)
        /\ Assign(e, queue, assigned).assigned = added
    BY <2>1
  <2> QED BY <2>2, <2>3, <1>1, <1>2, <1>4
<1> QED BY <1>3, <1>4

LEMMA StepFCFSInv ==
  ASSUME Inv, StepFCFS
  PROVE  Inv'
<1>1. PICK k \in Elevators : k = turn
  BY StateFacts
<1>2. PICK c : c = Perform(elevator[k], FCFSAction(k, requestQueue, assignedRequests,
                                                   elevator[k].currentFloor))
  OBVIOUS
<1>3. /\ elevator' = [elevator EXCEPT ![k] = c]
      /\ phase = "step" /\ AfterStep /\ ~ Delivering(k) /\ scheduler = "FCFS"
      /\ requestQueue' = Assign(k, requestQueue, assignedRequests).queue
      /\ assignedRequests' = Assign(k, requestQueue, assignedRequests).assigned
      /\ scheduler' = scheduler /\ waitingPassengers' = waitingPassengers
      /\ deliveredPassengers' = deliveredPassengers
  BY <1>1, <1>2 DEF StepFCFS, StepTo
<1>4. /\ requestQueue' \in Seq(PickupRequest)
      /\ DOMAIN assignedRequests' \subseteq Elevators
      /\ \A e \in DOMAIN assignedRequests' : assignedRequests'[e] \in PickupRequest
      /\ requestQueue # << >> => AssignedTo(k, requestQueue, assignedRequests) \in PickupRequest
  BY <1>3, AssignProperties DEF Inv, TypeOK
<1>5. c \in Fields /\ c.passengers = elevator[k].passengers
  <2>1. CASE requestQueue = << >>
    <3>1. c = Perform(elevator[k], Stay)
      BY <2>1, <1>2 DEF FCFSAction
    <3> QED BY <3>1, StateFacts, PerformProperties
  <2>2. CASE requestQueue # << >>
    <3>1. c = Perform(elevator[k], ActionToPickup(elevator[k].currentFloor,
                                     AssignedTo(k, requestQueue, assignedRequests)))
      BY <2>2, <1>2 DEF FCFSAction
    <3> QED BY <2>2, <3>1, <1>4, StateFacts, ActionToPickupProperties
  <2> QED BY <2>1, <2>2
<1>6. OneWay(c)
  BY <1>3, <1>5 DEF OneWay, Delivering
<1> QED BY <1>1, <1>3, <1>4, <1>5, <1>6, StepInv

(* With passengers: as long as nobody gets out or in here, all of them     *)
(* have still a floor to go, and so has the building.                      *)
LEMMA StepToNextStopInv ==
  ASSUME Inv, StepToNextStop
  PROVE  Inv'
<1>1. PICK k \in Elevators : k = turn
  BY StateFacts
<1>2. PICK p \in elevator[k].passengers :
        ~ AtStop(k, DirectionOf(p)) /\ StepTo(Move(DirectionOf(p)))
  BY <1>1 DEF StepToNextStop
<1>3. PICK e : e = elevator[k]
  OBVIOUS
<1>4. PICK d : d = DirectionOf(p)
  OBVIOUS
<1>5. PICK c : c = Perform(e, Move(d))
  OBVIOUS
<1>6. /\ elevator' = [elevator EXCEPT ![k] = c]
      /\ phase = "step" /\ AfterStep
      /\ requestQueue' = requestQueue /\ assignedRequests' = assignedRequests
      /\ scheduler' = scheduler /\ waitingPassengers' = waitingPassengers
      /\ deliveredPassengers' = deliveredPassengers
  BY <1>1, <1>2, <1>3, <1>4, <1>5 DEF StepToNextStop, StepTo, control
<1>7. /\ e \in Fields /\ OneWay(e) /\ e.passengers \subseteq Passenger
      /\ e.currentFloor \in Floor /\ e.currentFloor \in Int
      /\ p \in e.passengers /\ p \in Passenger /\ e.deliveryDirection = d /\ d \in {Up, Down}
  BY <1>2, <1>3, <1>4, StateFacts, PassengerFacts DEF OneWay
<1>8. /\ \A r \in e.passengers : r.goalFloor # e.currentFloor
      /\ Pickup(e.currentFloor, d) \notin Range(requestQueue)
  BY <1>2, <1>3, <1>4 DEF AtStop, IsReadyToPickup
<1>9. \A r \in e.passengers :
        /\ DirectionOf(r) = d /\ r.goalFloor \in Floor /\ r.goalFloor \in Int
        /\ d = Up => r.goalFloor >= e.currentFloor + 1
        /\ d = Down => r.goalFloor <= e.currentFloor - 1
  <2> TAKE r \in e.passengers
  <2>1. r.goalFloor \in Floor /\ r.goalFloor \in Int /\ DirectionOf(r) = d
    BY <1>7, PassengerFacts, FloorsAssumption DEF OneWay, Floor
  <2>2. IF d = Up THEN r.goalFloor >= e.currentFloor ELSE r.goalFloor <= e.currentFloor
    BY <2>1, <1>7 DEF OneWay
  <2>3. r.goalFloor # e.currentFloor /\ Up # Down
    BY <1>8 DEF Up, Down
  <2> QED BY <2>1, <2>2, <2>3, <1>7
<1>10. /\ c \in Fields /\ c.passengers = e.passengers /\ c.deliveryDirection = d
       /\ c.currentFloor = IF d = Up THEN e.currentFloor + 1 ELSE e.currentFloor - 1
  <2>1. d = Up => e.currentFloor < HighestFloor
    BY <1>7, <1>9, FloorsAssumption DEF Floor
  <2>2. d = Down => e.currentFloor > LowestFloor
    BY <1>7, <1>9, FloorsAssumption DEF Floor
  <2>3. Up # Down
    BY DEF Up, Down
  <2>4. CASE d = Up
    BY <2>4, <2>1, <1>5, <1>7, PerformProperties
  <2>5. CASE d = Down
    BY <2>5, <2>2, <2>3, <1>5, <1>7, PerformProperties
  <2> QED BY <2>4, <2>5, <1>7
<1>11. OneWay(c)
  <2>1. Up # Down
    BY DEF Up, Down
  <2> QED BY <2>1, <1>7, <1>9, <1>10 DEF OneWay
<1>12. scheduler = "DirectionBased" =>
         Range(requestQueue') = IF Delivering(k) THEN Range(requestQueue) \ {StopOf(k)}
                                ELSE Range(requestQueue)
  <2>1. StopOf(k) \notin Range(requestQueue)
    BY <1>3, <1>7, <1>8 DEF StopOf
  <2> QED BY <2>1, <1>6
<1>13. requestQueue' \in Seq(PickupRequest) /\ DOMAIN assignedRequests' \subseteq Elevators
       /\ \A f \in DOMAIN assignedRequests' : assignedRequests'[f] \in PickupRequest
  BY <1>6 DEF Inv, TypeOK
<1> QED BY <1>1, <1>3, <1>6, <1>10, <1>11, <1>12, <1>13, StepInv

(* At a stop the doors are opened for the way everybody is going, and the  *)
(* request for that way from this floor is removed.                        *)
LEMMA StepAtStopInv ==
  ASSUME Inv, StepAtStop
  PROVE  Inv'
<1>1. PICK k \in Elevators : k = turn
  BY StateFacts
<1>2. PICK p \in elevator[k].passengers :
        /\ StepTo(OpenDoors(DirectionOf(p)))
        /\ requestQueue' = DequeueCompleted(requestQueue, elevator[k].currentFloor, DirectionOf(p))
  BY <1>1 DEF StepAtStop
<1>3. PICK e : e = elevator[k]
  OBVIOUS
<1>4. PICK d : d = DirectionOf(p)
  OBVIOUS
<1>5. PICK c : c = Perform(e, OpenDoors(d))
  OBVIOUS
<1>6. /\ elevator' = [elevator EXCEPT ![k] = c]
      /\ phase = "step" /\ AfterStep
      /\ requestQueue' = Only(requestQueue, PickupRequest \ {Pickup(e.currentFloor, d)})
      /\ assignedRequests' = IF scheduler = "FCFS" THEN Unassign(k, assignedRequests)
                             ELSE assignedRequests
      /\ scheduler' = scheduler /\ waitingPassengers' = waitingPassengers
      /\ deliveredPassengers' = deliveredPassengers
  BY <1>1, <1>2, <1>3, <1>4, <1>5 DEF StepAtStop, StepTo, DequeueCompleted, Completed
<1>7. /\ e \in Fields /\ OneWay(e) /\ e.passengers \subseteq Passenger
      /\ p \in e.passengers /\ p \in Passenger /\ e.deliveryDirection = d /\ d \in {Up, Down}
  BY <1>2, <1>3, <1>4, StateFacts, PassengerFacts DEF OneWay
<1>8. /\ c \in Fields /\ c.passengers = e.passengers /\ c.currentFloor = e.currentFloor
      /\ c.deliveryDirection = e.deliveryDirection
  BY <1>5, <1>7, PerformProperties
<1>9. OneWay(c)
  BY <1>7, <1>8 DEF OneWay
<1>10. /\ requestQueue' \in Seq(PickupRequest)
       /\ Range(requestQueue') = Range(requestQueue) \cap (PickupRequest \ {Pickup(e.currentFloor, d)})
  BY <1>6, StateFacts, FilterProperties
<1>11. scheduler = "DirectionBased" =>
         Range(requestQueue') = IF Delivering(k) THEN Range(requestQueue) \ {StopOf(k)}
                                ELSE Range(requestQueue)
  <2>1. Delivering(k)
    BY <1>2 DEF Delivering
  <2>2. StopOf(k) = Pickup(e.currentFloor, d)
    BY <1>3, <1>7 DEF StopOf
  <2>3. Range(requestQueue) \subseteq PickupRequest
    BY StateFacts DEF Range
  <2> QED BY <2>1, <2>2, <2>3, <1>10
<1>12. /\ DOMAIN assignedRequests' \subseteq Elevators
       /\ \A f \in DOMAIN assignedRequests' : assignedRequests'[f] \in PickupRequest
  BY <1>6 DEF Inv, TypeOK, Unassign, Restrict
<1> QED BY <1>1, <1>3, <1>6, <1>8, <1>9, <1>10, <1>11, <1>12, StepInv

-----------------------------------------------------------------------------
LEMMA NextInv == Inv /\ [Next]_vars => Inv'
<1> SUFFICES ASSUME Inv, [Next]_vars PROVE Inv'
  OBVIOUS
<1>1. CASE UpdateElevator
  BY <1>1, UpdateElevatorInv
<1>2. CASE PassElevator
  BY <1>2, PassElevatorInv
<1>3. CASE StepDirectionBased
  BY <1>3, StepDirectionBasedInv
<1>4. CASE StepFCFS
  BY <1>4, StepFCFSInv
<1>5. CASE StepToNextStop
  BY <1>5, StepToNextStopInv
<1>6. CASE StepAtStop
  BY <1>6, StepAtStopInv
<1>7. CASE UNCHANGED vars
  <2>1. TypeOK' /\ RidersGoOneWay'
    BY <1>7 DEF Inv, TypeOK, RidersGoOneWay, vars, control
  <2>2. FetchedInv' /\ QueueInv'
    BY <1>7 DEF Inv, FetchedInv, QueueInv, Fetchers, Wanted, StopOf, HasUpdated, Delivering,
                vars, control
  <2> QED BY <2>1, <2>2 DEF Inv
<1> QED BY <1>1, <1>2, <1>3, <1>4, <1>5, <1>6, <1>7 DEF Next

(* InvHolds: the invariant above is kept by every turn of the loop.         *)
THEOREM InvHolds == Spec => []Inv
<1>1. Init => Inv
  BY InitInv
<1>2. Inv /\ [Next]_vars => Inv'
  BY NextInv
<1> QED BY <1>1, <1>2, PTL DEF Spec

(* TypeCorrect: no elevator leaves the building and the requires of Floor  *)
(* and Passenger never throw, whatever scheduler sends the elevators about.*)
THEOREM TypeCorrect == Spec => []TypeOK
<1>1. Inv => TypeOK
  BY DEF Inv
<1> QED BY <1>1, InvHolds, PTL

(* RidersAgree: the passengers of one elevator all want the way its doors  *)
(* were opened for, so that passengers.head speaks for all of them.        *)
THEOREM RidersAgree == Spec => []RidersGoOneWay
<1>1. Inv => RidersGoOneWay
  BY DEF Inv
<1> QED BY <1>1, InvHolds, PTL

(* QueueMatches: the direction-based scheduler's queue never forgets who   *)
(* waits, and is rid of all others whenever the loop starts over.          *)
THEOREM QueueMatches == Spec => []RequestsMatchWaiting
<1>1. Inv => RequestsMatchWaiting
  <2> SUFFICES ASSUME Inv, scheduler = "DirectionBased"
               PROVE  /\ Wanted \subseteq Range(requestQueue)
                      /\ phase = "update" /\ turn = 0 => Range(requestQueue) = Wanted
    BY DEF RequestsMatchWaiting, Wanted
  <2>1. phase = "update" /\ turn = 0 => Fetchers = {}
    BY SizesAssumption DEF Fetchers, HasUpdated, Elevators
  <2> QED BY <2>1 DEF Inv, QueueInv
<1> QED BY <1>1, InvHolds, PTL

(***************************************************************************)
(* elevator3: one step deals the first calls of the queue, in index order, *)
(* to the elevators that are empty.                                        *)
(***************************************************************************)

(* The rank of a number in a set of numbers, counted from one.             *)
Rank(E, e) == Cardinality({i \in E : i <= e})

(* Ranks number the members of a finite set from one to its size.          *)
LEMMA RankIsNumbering ==
  ASSUME NEW E \in SUBSET Int, IsFiniteSet(E)
  PROVE  /\ Cardinality(E) \in Nat
         /\ \A e \in E : Rank(E, e) \in 1..Cardinality(E)
         /\ \A e, f \in E : Rank(E, e) = Rank(E, f) => e = f
         /\ \A n \in 1..Cardinality(E) : \E e \in E : Rank(E, e) = n
<1> DEFINE upTo(e) == {i \in E : i <= e}
<1>1. Cardinality(E) \in Nat
  BY FS_CardinalityType
<1>2. \A e \in E : /\ IsFiniteSet(upTo(e)) /\ Rank(E, e) = Cardinality(upTo(e))
                   /\ Cardinality(upTo(e)) <= Cardinality(E) /\ Cardinality(upTo(e)) \in Nat
                   /\ upTo(e) # {}
  <2> TAKE e \in E
  <2>1. upTo(e) \in SUBSET E /\ e \in upTo(e)
    OBVIOUS
  <2>2. Rank(E, e) = Cardinality(upTo(e))
    BY DEF Rank
  <2> HIDE DEF upTo
  <2> QED BY <2>1, <2>2, FS_Subset, FS_CardinalityType
<1>3. \A e \in E : Rank(E, e) \in 1..Cardinality(E)
  <2> TAKE e \in E
  <2> HIDE DEF upTo
  <2>1. Cardinality(upTo(e)) # 0
    BY <1>2, FS_EmptySet
  <2> QED BY <1>1, <1>2, <2>1
<1>4. ASSUME NEW e \in E, NEW f \in E, e < f
      PROVE  Rank(E, e) # Rank(E, f)
  <2>1. ~ (f <= e) /\ f <= f /\ \A i \in E : i <= e => i <= f
    BY <1>4
  <2>2. upTo(e) \in SUBSET upTo(f) /\ f \in upTo(f) /\ f \notin upTo(e)
    BY <2>1
  <2> HIDE DEF upTo
  <2> QED BY <1>2, <2>2, FS_Subset
<1>5. \A e, f \in E : Rank(E, e) = Rank(E, f) => e = f
  <2> SUFFICES ASSUME NEW e \in E, NEW f \in E, e # f PROVE Rank(E, e) # Rank(E, f)
    OBVIOUS
  <2>1. e < f \/ f < e
    OBVIOUS
  <2> QED BY <1>4, <2>1
<1>6. \A n \in 1..Cardinality(E) : \E e \in E : Rank(E, e) = n
  <2> DEFINE rank == [e \in E |-> Rank(E, e)]
  <2>1. rank \in Injection(E, 1..Cardinality(E))
    BY <1>3, <1>5 DEF Injection, IsInjective
  <2>2. IsFiniteSet(1..Cardinality(E)) /\ Cardinality(1..Cardinality(E)) = Cardinality(E)
    BY <1>1, FS_Interval
  <2>3. rank \in Surjection(E, 1..Cardinality(E))
    <3> HIDE DEF rank
    <3> QED BY <2>1, <2>2, FS_Injection
  <2> QED BY <2>3 DEF Surjection
<1> QED BY <1>1, <1>3, <1>5, <1>6

(* There are as many members of a rank up to n as n, or all of them.       *)
LEMMA RankedUpTo ==
  ASSUME NEW E \in SUBSET Int, IsFiniteSet(E), NEW n \in Nat
  PROVE  Cardinality({e \in E : Rank(E, e) <= n}) =
           IF n <= Cardinality(E) THEN n ELSE Cardinality(E)
<1> DEFINE low  == {e \in E : Rank(E, e) <= n}
           m    == IF n <= Cardinality(E) THEN n ELSE Cardinality(E)
           rank == [e \in low |-> Rank(E, e)]
<1>1. /\ Cardinality(E) \in Nat
      /\ \A e \in E : Rank(E, e) \in 1..Cardinality(E)
      /\ \A e, f \in E : Rank(E, e) = Rank(E, f) => e = f
      /\ \A k \in 1..Cardinality(E) : \E e \in E : Rank(E, e) = k
  BY RankIsNumbering
<1>2. m \in Nat /\ \A k \in Nat : k <= m <=> k <= n /\ k <= Cardinality(E)
  BY <1>1
<1> HIDE DEF m
<1>3. \A e \in low : Rank(E, e) \in 1..m
  BY <1>1, <1>2
<1>4. \A k \in 1..m : \E e \in low : Rank(E, e) = k
  BY <1>1, <1>2
<1>5. rank \in Injection(low, 1..m)
  BY <1>1, <1>3 DEF Injection, IsInjective
<1>6. rank \in Surjection(low, 1..m)
  BY <1>3, <1>4 DEF Surjection
<1>7. IsFiniteSet(1..m) /\ Cardinality(1..m) = m
  BY <1>2, FS_Interval
<1> HIDE DEF low, rank
<1>8. Cardinality(low) = m
  BY <1>5, <1>6, <1>7, FS_Injection
<1> QED BY <1>8 DEF low, m

(* The elevators that get a call in a step.                                *)
Dealt == {e \in Empty : Turn(e) <= Len(pickupLocations)}

(* The polls of one step take a prefix of the queue, one call for each     *)
(* elevator they reach, and stop short of its end only when every empty    *)
(* elevator has got one.                                                   *)
LEMMA Dealing ==
  ASSUME FifoTypeOK
  PROVE  /\ NumPolled \in 0..Len(pickupLocations)
         /\ NumPolled < Len(pickupLocations) => Dealt = Empty
         /\ \A e \in ElevatorIds :
              Polled(e) = IF e \in Dealt THEN <<pickupLocations[Turn(e)]>> ELSE << >>
         /\ \A e \in Dealt : Turn(e) \in 1..NumPolled
         /\ \A e, f \in Dealt : Turn(e) = Turn(f) => e = f
         /\ \A n \in 1..NumPolled : \E e \in Dealt : Turn(e) = n
<1> DEFINE E == Empty
           L == Len(pickupLocations)
           N == NumPolled
<1>1. E \in SUBSET Int /\ IsFiniteSet(E)
  <2>1. ElevatorIds \in SUBSET Int /\ IsFiniteSet(ElevatorIds)
    BY FS_Interval, NumElevatorsAssumption DEF ElevatorIds
  <2>2. E \in SUBSET ElevatorIds
    BY DEF Empty
  <2> QED BY <2>1, <2>2, FS_Subset
<1>2. \A e : Turn(e) = Rank(E, e)
  BY DEF Turn, Rank
<1>3. L \in Nat
  BY DEF FifoTypeOK
<1> HIDE DEF E
<1>4. /\ Cardinality(E) \in Nat
      /\ \A e \in E : Rank(E, e) \in 1..Cardinality(E)
      /\ \A e, f \in E : Rank(E, e) = Rank(E, f) => e = f
      /\ \A n \in 1..Cardinality(E) : \E e \in E : Rank(E, e) = n
  BY <1>1, RankIsNumbering
<1>5. Dealt = {e \in E : Rank(E, e) <= L}
  BY <1>2 DEF Dealt, E
<1>6. \A e \in ElevatorIds :
        Polled(e) = IF e \in Dealt THEN <<pickupLocations[Turn(e)]>> ELSE << >>
  BY DEF Polled, Dealt
<1>7. N = IF L <= Cardinality(E) THEN L ELSE Cardinality(E)
  <2>1. {e \in ElevatorIds : Polled(e) # << >>} = Dealt
    <3>1. Dealt \subseteq ElevatorIds
      BY DEF Dealt, Empty
    <3>2. \A e \in ElevatorIds : Polled(e) # << >> <=> e \in Dealt
      BY <1>6
    <3> QED BY <3>1, <3>2
  <2>2. N = Cardinality(Dealt)
    BY <2>1, Zenon DEF NumPolled
  <2> HIDE DEF N, L
  <2> QED BY <1>1, <1>3, <1>5, <2>2, RankedUpTo
<1> HIDE DEF N, L
<1>8. N \in 0..L /\ \A k \in Nat : k <= N <=> k <= L /\ k <= Cardinality(E)
  BY <1>3, <1>4, <1>7
<1>9. N < L => Dealt = E
  BY <1>3, <1>4, <1>5, <1>7
<1>10. \A e \in Dealt : Turn(e) \in 1..N
  BY <1>2, <1>4, <1>5, <1>8
<1>11. \A e, f \in Dealt : Turn(e) = Turn(f) => e = f
  BY <1>2, <1>4, <1>5
<1>12. \A n \in 1..N : \E e \in Dealt : Turn(e) = n
  BY <1>2, <1>3, <1>4, <1>5, <1>8
<1> QED BY <1>6, <1>8, <1>9, <1>10, <1>11, <1>12 DEF E, L, N

(* What has left a queue is the first part of all that ever joined it.     *)
LEMMA QueueIsEnd ==
  ASSUME NEW S, NEW c \in Seq(S), NEW p \in Seq(S), Len(p) <= Len(c),
         \A k \in 1..Len(p) : p[k] = c[Len(c) - Len(p) + k]
  PROVE  /\ c = SubSeq(c, 1, Len(c) - Len(p)) \o p
         /\ Range(SubSeq(c, 1, Len(c) - Len(p))) = {c[i] : i \in 1..(Len(c) - Len(p))}
<1> DEFINE n == Len(c) - Len(p)
<1>1. n \in 0..Len(c) /\ Len(p) \in Nat /\ Len(c) \in Nat /\ n + Len(p) = Len(c)
  OBVIOUS
<1>2. PICK s : s = SubSeq(c, 1, n)
  OBVIOUS
<1>3. s \in Seq(S) /\ Len(s) = n /\ DOMAIN s = 1..n /\ \A i \in 1..n : s[i] = c[i]
  BY <1>1, <1>2
<1>4. Range(s) = {c[i] : i \in 1..n}
  BY <1>3 DEF Range
<1>5. PICK sp : sp = s \o p
  OBVIOUS
<1>6. /\ sp \in Seq(S) /\ Len(sp) = Len(s) + Len(p)
      /\ \A i \in 1..(Len(s) + Len(p)) : sp[i] = IF i <= Len(s) THEN s[i] ELSE p[i - Len(s)]
  BY <1>3, <1>5, ConcatProperties
<1> HIDE DEF n
<1>7. \A k \in 1..Len(p) : p[k] = c[n + k]
  BY DEF n
<1>8. \A i \in 1..Len(c) : sp[i] = c[i]
  <2> TAKE i \in 1..Len(c)
  <2>1. CASE i <= n
    BY <1>1, <1>3, <1>6, <2>1
  <2>2. CASE i > n
    <3>1. sp[i] = p[i - n] /\ i - n \in 1..Len(p)
      BY <1>1, <1>3, <1>6, <2>2
    <3>2. n + (i - n) = i
      BY <1>1
    <3> QED BY <1>7, <3>1, <3>2
  <2> QED BY <1>1, <2>1, <2>2
<1>9. c = sp
  BY <1>1, <1>3, <1>6, <1>8, SeqEqual
<1> QED BY <1>2, <1>4, <1>5, <1>9 DEF n

LEMMA EndIsQueue ==
  ASSUME NEW S, NEW c \in Seq(S), NEW p \in Seq(S),
         c = SubSeq(c, 1, Len(c) - Len(p)) \o p
  PROVE  Len(p) <= Len(c) /\ \A k \in 1..Len(p) : p[k] = c[Len(c) - Len(p) + k]
<1> DEFINE n == Len(c) - Len(p)
<1>1. n \in Int /\ n <= Len(c) /\ Len(p) \in Nat /\ Len(c) \in Nat /\ n = Len(c) - Len(p)
  OBVIOUS
<1>2. PICK s : s = SubSeq(c, 1, n)
  OBVIOUS
<1>3. s \in Seq(S) /\ Len(s) = IF n >= 1 THEN n ELSE 0
  BY <1>1, <1>2
<1>4. c = s \o p
  BY <1>2
<1> HIDE DEF n
<1>5. /\ Len(c) = Len(s) + Len(p)
      /\ \A i \in 1..(Len(s) + Len(p)) : c[i] = IF i <= Len(s) THEN s[i] ELSE p[i - Len(s)]
  BY <1>3, <1>4, ConcatProperties
<1>6. Len(s) = n /\ Len(p) <= Len(c)
  <2>1. Len(s) \in Nat /\ Len(c) = Len(s) + Len(p)
    BY <1>3, <1>5
  <2> QED BY <1>1, <2>1
<1>7. \A k \in 1..Len(p) : p[k] = c[n + k]
  <2> TAKE k \in 1..Len(p)
  <2>1. n + k \in 1..(Len(s) + Len(p)) /\ ~ (n + k <= Len(s)) /\ (n + k) - Len(s) = k
    BY <1>1, <1>6
  <2> QED BY <1>5, <2>1
<1> QED BY <1>6, <1>7 DEF n

-----------------------------------------------------------------------------
(* FifoInv: besides what EachJobInOrder says, no two calls are the same.   *)
FifoInv == FifoTypeOK /\ EachJobInOrder /\ IsInjective(called)

LEMMA FifoInitInv == FifoInit => FifoInv
<1> SUFFICES ASSUME FifoInit PROVE FifoInv
  OBVIOUS
<1>1. << >> \in Seq(Jobs) /\ << >> \in Seq(Calls) /\ 1 \in Int
  OBVIOUS
<1>2. FifoTypeOK
  BY <1>1 DEF FifoInit, FifoTypeOK
<1>3. Range(<< >>) = {} /\ IsInjective(<< >>)
  BY DEF Range, IsInjective
<1>4. TakenCalls = << >>
  BY DEF FifoInit, TakenCalls
<1>5. Given = {}
  BY <1>3 DEF FifoInit, Given
<1>6. EachJobInOrder
  BY <1>3, <1>4, <1>5 DEF FifoInit, EachJobInOrder
<1> QED BY <1>2, <1>3, <1>6 DEF FifoInv, FifoInit

(* The queue as the end of all calls, said of its members.                 *)
LEMMA FifoInvMeans ==
  ASSUME FifoInv
  PROVE  /\ Len(pickupLocations) <= Len(called)
         /\ \A k \in 1..Len(pickupLocations) :
              pickupLocations[k] = called[Len(called) - Len(pickupLocations) + k]
         /\ Given \cap Calls = {called[i] : i \in 1..(Len(called) - Len(pickupLocations))}
<1>1. PICK c, p : c = called /\ p = pickupLocations
  OBVIOUS
<1>2. c \in Seq(Calls) /\ p \in Seq(Calls) /\ c = SubSeq(c, 1, Len(c) - Len(p)) \o p
  BY <1>1 DEF FifoInv, FifoTypeOK, EachJobInOrder, TakenCalls
<1>3. Len(p) <= Len(c) /\ \A k \in 1..Len(p) : p[k] = c[Len(c) - Len(p) + k]
  BY <1>2, EndIsQueue
<1>4. Range(SubSeq(c, 1, Len(c) - Len(p))) = {c[i] : i \in 1..(Len(c) - Len(p))}
  BY <1>2, <1>3, QueueIsEnd
<1>5. Given \cap Calls = Range(SubSeq(c, 1, Len(c) - Len(p)))
  BY <1>1 DEF FifoInv, EachJobInOrder, TakenCalls
<1>6. Given \cap Calls = {c[i] : i \in 1..(Len(c) - Len(p))}
  BY <1>4, <1>5, Zenon
<1> QED BY <1>1, <1>3, <1>6

LEMMA PickUpAtInv ==
  ASSUME FifoInv, NEW j \in Calls, PickUpAt(j)
  PROVE  FifoInv'
<1>1. PICK c, p : c = called /\ p = pickupLocations
  OBVIOUS
<1>2. PICK d, q : d = Append(c, j) /\ q = Append(p, j)
  OBVIOUS
<1>3. /\ called' = d /\ pickupLocations' = q /\ j \notin Range(c)
      /\ UNCHANGED <<currentFloor, destinationFloors, given, served>>
  BY <1>1, <1>2 DEF PickUpAt
<1>4. c \in Seq(Calls) /\ p \in Seq(Calls) /\ IsInjective(c)
  BY <1>1 DEF FifoInv, FifoTypeOK
<1>5. /\ Len(p) <= Len(c) /\ \A k \in 1..Len(p) : p[k] = c[Len(c) - Len(p) + k]
      /\ Given \cap Calls = {c[i] : i \in 1..(Len(c) - Len(p))}
  BY <1>1, FifoInvMeans
<1>6. /\ d \in Seq(Calls) /\ Len(d) = Len(c) + 1 /\ d[Len(c) + 1] = j
      /\ \A i \in 1..Len(c) : d[i] = c[i]
      /\ q \in Seq(Calls) /\ Len(q) = Len(p) + 1 /\ q[Len(p) + 1] = j
      /\ \A i \in 1..Len(p) : q[i] = p[i]
      /\ Len(c) \in Nat /\ Len(p) \in Nat
  BY <1>2, <1>4
<1>7. IsInjective(d)
  BY <1>2, <1>3, <1>4, AppendDistinct
<1>8. Len(q) <= Len(d) /\ Len(d) - Len(q) = Len(c) - Len(p)
  BY <1>5, <1>6
<1>9. \A k \in 1..Len(q) : q[k] = d[Len(d) - Len(q) + k]
  <2> TAKE k \in 1..Len(q)
  <2>1. CASE k <= Len(p)
    <3>1. q[k] = p[k] /\ p[k] = c[Len(c) - Len(p) + k]
      BY <1>5, <1>6, <2>1
    <3>2. Len(c) - Len(p) + k \in 1..Len(c)
      BY <1>5, <1>6, <2>1
    <3> QED BY <1>6, <1>8, <3>1, <3>2
  <2>2. CASE k = Len(p) + 1
    <3>1. Len(d) - Len(q) + k = Len(c) + 1
      BY <1>6, <1>8, <2>2
    <3> QED BY <1>6, <2>2, <3>1
  <2> QED BY <1>6, <2>1, <2>2
<1>10. {d[i] : i \in 1..(Len(d) - Len(q))} = {c[i] : i \in 1..(Len(c) - Len(p))}
  <2>1. \A i \in 1..(Len(c) - Len(p)) : d[i] = c[i]
    BY <1>5, <1>6
  <2> QED BY <1>8, <2>1
<1>11. /\ d = SubSeq(d, 1, Len(d) - Len(q)) \o q
       /\ Range(SubSeq(d, 1, Len(d) - Len(q))) = {d[i] : i \in 1..(Len(d) - Len(q))}
  <2>1. d \in Seq(Calls) /\ q \in Seq(Calls) /\ Len(q) <= Len(d)
    BY <1>6, <1>8
  <2> QED BY <1>9, <2>1, QueueIsEnd
<1>12. Given' = Given
  BY <1>3 DEF Given
<1>13. EachJobInOrder'
  BY <1>3, <1>5, <1>10, <1>11, <1>12 DEF FifoInv, EachJobInOrder, TakenCalls
<1>14. FifoTypeOK'
  BY <1>3, <1>6 DEF FifoInv, FifoTypeOK
<1> QED BY <1>3, <1>7, <1>13, <1>14 DEF FifoInv

LEMMA DestinationInv ==
  ASSUME FifoInv, NEW e \in ElevatorIds, NEW j \in Destinations, Destination(e, j)
  PROVE  FifoInv'
<1> DEFINE g == given[e]
           d == destinationFloors[e]
<1>1. /\ destinationFloors' = [destinationFloors EXCEPT ![e] = Append(d, j)]
      /\ given' = [given EXCEPT ![e] = Append(g, j)] /\ j \notin Given
      /\ UNCHANGED <<currentFloor, pickupLocations, called, served>>
  BY DEF Destination
<1>2. /\ destinationFloors \in [ElevatorIds -> Seq(Jobs)] /\ given \in [ElevatorIds -> Seq(Jobs)]
      /\ served \in [ElevatorIds -> Seq(Jobs)]
      /\ j \in Jobs /\ j \notin Calls
  BY JobsAssumption DEF FifoInv, FifoTypeOK, Jobs
<1>3. g \in Seq(Jobs) /\ d \in Seq(Jobs) /\ served[e] \in Seq(Jobs)
  BY <1>2
<1>4. Append(g, j) \in Seq(Jobs) /\ Append(d, j) \in Seq(Jobs)
  BY <1>2, <1>3
<1>5. FifoTypeOK'
  <2> HIDE DEF g, d
  <2> QED BY <1>1, <1>2, <1>4 DEF FifoInv, FifoTypeOK
<1>6. /\ \A f \in ElevatorIds : given[f] = served[f] \o destinationFloors[f]
      /\ \A f \in ElevatorIds : IsInjective(given[f])
      /\ \A f, h \in ElevatorIds : f # h => Range(given[f]) \cap Range(given[h]) = {}
      /\ \A f \in ElevatorIds : j \notin Range(given[f])
  BY <1>1 DEF FifoInv, EachJobInOrder, Given
<1>7. Append(g, j) = served[e] \o Append(d, j)
  <2>1. PICK s, q, r : s = served[e] /\ q = d /\ r = g
    OBVIOUS
  <2>2. s \in Seq(Jobs) /\ q \in Seq(Jobs) /\ r = s \o q
    BY <1>3, <1>6, <2>1
  <2>3. j \in Jobs
    BY <1>2
  <2>4. Append(s \o q, j) = s \o Append(q, j)
    <3>1. s \in Seq(Jobs) /\ q \in Seq(Jobs)
      BY <2>2
    <3> QED BY <2>3, <3>1
  <2> QED BY <2>1, <2>2, <2>4
<1>8. Range(Append(g, j)) = Range(g) \cup {j} /\ IsInjective(Append(g, j))
  <2> HIDE DEF g
  <2>1. IsInjective(g) /\ j \notin Range(g)
    BY <1>6 DEF g
  <2> QED BY <1>2, <1>3, <2>1, AppendRange, AppendDistinct
<1>9. \A f \in ElevatorIds :
        /\ given'[f] = IF f = e THEN Append(g, j) ELSE given[f]
        /\ destinationFloors'[f] = IF f = e THEN Append(d, j) ELSE destinationFloors[f]
        /\ served'[f] = served[f]
  <2> HIDE DEF g, d
  <2> QED BY <1>1, <1>2
<1> HIDE DEF g, d
<1>10. \A f \in ElevatorIds :
         Range(given'[f]) = IF f = e THEN Range(given[f]) \cup {j} ELSE Range(given[f])
  BY <1>8, <1>9 DEF g
<1>11. \A f \in ElevatorIds : given'[f] = served'[f] \o destinationFloors'[f]
  <2> TAKE f \in ElevatorIds
  <2>1. CASE f = e
    BY <1>7, <1>9, <2>1
  <2>2. CASE f # e
    BY <1>6, <1>9, <2>2
  <2> QED BY <2>1, <2>2
<1>12. \A f \in ElevatorIds : IsInjective(given'[f])
  BY <1>6, <1>8, <1>9
<1>13. \A f, h \in ElevatorIds : f # h => Range(given'[f]) \cap Range(given'[h]) = {}
  BY <1>6, <1>10
<1>14. Given' \cap Calls = Given \cap Calls
  <2>1. Given' = UNION {Range(given'[f]) : f \in ElevatorIds}
    BY DEF Given
  <2>2. Given' = Given \cup {j}
    BY <1>10, <2>1 DEF Given
  <2> QED BY <1>2, <2>2
<1>15. TakenCalls' = TakenCalls /\ called' = called /\ pickupLocations' = pickupLocations
  BY <1>1 DEF TakenCalls
<1>16. EachJobInOrder'
  BY <1>11, <1>12, <1>13, <1>14, <1>15 DEF FifoInv, EachJobInOrder
<1> QED BY <1>5, <1>15, <1>16 DEF FifoInv

LEMMA OneMore ==
  ASSUME NEW S, NEW s \in Seq(S), NEW j \in S
  PROVE  s \o <<j>> = Append(s, j)
OBVIOUS

(* The calls dealt in a step: new ones, and no two the same.               *)
LEMMA DealtCalls ==
  ASSUME FifoInv
  PROVE  /\ \A e \in Dealt : /\ e \in ElevatorIds /\ Polled(e) = <<pickupLocations[Turn(e)]>>
                             /\ pickupLocations[Turn(e)] \in Calls \ Given
         /\ \A e \in ElevatorIds \ Dealt : Polled(e) = << >>
         /\ \A e, f \in Dealt :
              pickupLocations[Turn(e)] = pickupLocations[Turn(f)] => e = f
         /\ {pickupLocations[Turn(e)] : e \in Dealt} = {pickupLocations[n] : n \in 1..NumPolled}
<1>1. PICK c, p, N : c = called /\ p = pickupLocations /\ N = NumPolled
  OBVIOUS
<1>2. /\ N \in 0..Len(p)
      /\ \A e \in ElevatorIds : Polled(e) = IF e \in Dealt THEN <<p[Turn(e)]>> ELSE << >>
      /\ \A e \in Dealt : Turn(e) \in 1..N
      /\ \A e, f \in Dealt : Turn(e) = Turn(f) => e = f
      /\ \A n \in 1..N : \E e \in Dealt : Turn(e) = n
  BY <1>1, Dealing DEF FifoInv
<1>3. c \in Seq(Calls) /\ p \in Seq(Calls) /\ IsInjective(c)
  BY <1>1 DEF FifoInv, FifoTypeOK
<1>4. /\ Len(p) <= Len(c) /\ \A k \in 1..Len(p) : p[k] = c[Len(c) - Len(p) + k]
      /\ Given \cap Calls = {c[i] : i \in 1..(Len(c) - Len(p))}
  BY <1>1, FifoInvMeans
<1>5. PICK T : T = Len(c) - Len(p)
  OBVIOUS
<1>6. T \in Nat /\ Len(p) \in Nat /\ T + Len(p) = Len(c) /\ DOMAIN c = 1..Len(c)
  BY <1>3, <1>4, <1>5
<1>7. \A n \in 1..N : /\ p[n] \in Calls /\ p[n] = c[T + n] /\ T + n \in 1..Len(c) /\ n \in Nat
  BY <1>2, <1>3, <1>4, <1>5, <1>6
<1>8. \A n, m \in 1..N : p[n] = p[m] => n = m
  <2> TAKE n, m \in 1..N
  <2> HAVE p[n] = p[m]
  <2>1. T + n = T + m
    BY <1>3, <1>6, <1>7 DEF IsInjective
  <2> QED BY <1>6, <2>1
<1>9. \A n \in 1..N : p[n] \notin Given
  <2> SUFFICES ASSUME NEW n \in 1..N, p[n] \in Given PROVE FALSE
    OBVIOUS
  <2>1. PICK i \in 1..T : c[i] = p[n]
    BY <1>4, <1>5, <1>7
  <2>2. i \in 1..Len(c) /\ T + n \in 1..Len(c) /\ c[i] = c[T + n]
    BY <1>6, <1>7, <2>1
  <2>3. i = T + n
    BY <1>3, <1>6, <2>2 DEF IsInjective
  <2> QED BY <1>6, <2>3
<1>10. Dealt \subseteq ElevatorIds
  BY DEF Dealt, Empty
<1>11. {p[Turn(e)] : e \in Dealt} = {p[n] : n \in 1..N}
  BY <1>2
<1>12. \A e \in Dealt : e \in ElevatorIds /\ Polled(e) = <<p[Turn(e)]>> /\ p[Turn(e)] \in Calls \ Given
  BY <1>2, <1>7, <1>9, <1>10
<1>13. \A e, f \in Dealt : p[Turn(e)] = p[Turn(f)] => e = f
  BY <1>2, <1>8
<1>14. \A e \in ElevatorIds \ Dealt : Polled(e) = << >>
  BY <1>2
<1> QED BY <1>1, <1>11, <1>12, <1>13, <1>14

LEMMA StepAllInv ==
  ASSUME FifoInv, StepAll
  PROVE  FifoInv'
<1> DEFINE call(e) == pickupLocations[Turn(e)]
           d(e) == destinationFloors[e]
<1>1. /\ currentFloor \in [ElevatorIds -> Int] /\ destinationFloors \in [ElevatorIds -> Seq(Jobs)]
      /\ pickupLocations \in Seq(Calls) /\ called \in Seq(Calls)
      /\ given \in [ElevatorIds -> Seq(Jobs)] /\ served \in [ElevatorIds -> Seq(Jobs)]
  BY DEF FifoInv, FifoTypeOK
<1>2. /\ \A e \in ElevatorIds : given'[e] = given[e] \o Polled(e)
      /\ \A e \in ElevatorIds : destinationFloors'[e] = Queue(e)
      /\ \A e \in ElevatorIds :
           served'[e] = IF Holds(e) THEN Append(served[e], Head(d(e))) ELSE served[e]
      /\ given' = [e \in ElevatorIds |-> given'[e]]
      /\ destinationFloors' = [e \in ElevatorIds |-> destinationFloors'[e]]
      /\ served' = [e \in ElevatorIds |-> served'[e]]
      /\ called' = called
  BY DEF StepAll
<1>3. pickupLocations' = SubSeq(pickupLocations, NumPolled + 1, Len(pickupLocations))
  BY DEF StepAll
<1>4. \A e \in Dealt : /\ e \in ElevatorIds /\ Polled(e) = <<call(e)>>
                       /\ call(e) \in Calls /\ call(e) \notin Given
  BY DealtCalls
<1>5. \A e \in ElevatorIds \ Dealt : Polled(e) = << >>
  BY DealtCalls
<1>6. \A e, f \in Dealt : call(e) = call(f) => e = f
  BY DealtCalls
<1>7. {call(e) : e \in Dealt} = {pickupLocations[n] : n \in 1..NumPolled}
  BY DealtCalls
<1>8. NumPolled \in 0..Len(pickupLocations)
  BY Dealing DEF FifoInv
<1>9. /\ \A e \in ElevatorIds : given[e] = served[e] \o d(e)
      /\ \A e \in ElevatorIds : IsInjective(given[e])
      /\ \A e, f \in ElevatorIds : e # f => Range(given[e]) \cap Range(given[f]) = {}
      /\ Given = UNION {Range(given[e]) : e \in ElevatorIds}
      /\ IsInjective(called)
  BY DEF FifoInv, EachJobInOrder, Given
<1> HIDE DEF call
<1>10. \A e \in ElevatorIds : Polled(e) \in Seq(Jobs)
  <2> TAKE e \in ElevatorIds
  <2>1. CASE e \in Dealt
    <3>1. PICK j : j = call(e)
      OBVIOUS
    <3>2. j \in Jobs /\ Polled(e) = <<j>>
      BY <1>4, <2>1, <3>1 DEF Jobs
    <3> QED BY <3>2
  <2>2. CASE e \notin Dealt
    <3>1. << >> \in Seq(Jobs)
      OBVIOUS
    <3> QED BY <1>5, <2>2, <3>1
  <2> QED BY <2>1, <2>2
<1>11. \A e \in ElevatorIds : /\ given'[e] \in Seq(Jobs) /\ IsInjective(given'[e])
                             /\ Range(given'[e]) = IF e \in Dealt THEN Range(given[e]) \cup {call(e)}
                                                   ELSE Range(given[e])
  <2> TAKE e \in ElevatorIds
  <2>1. PICK g : g = given[e]
    OBVIOUS
  <2>2. g \in Seq(Jobs) /\ IsInjective(g) /\ given'[e] = g \o Polled(e)
    BY <1>1, <1>2, <1>9, <2>1
  <2>3. CASE e \in Dealt
    <3>1. PICK j : j = call(e)
      OBVIOUS
    <3>2. j \in Jobs /\ j \notin Range(g) /\ given'[e] = g \o <<j>>
      <4>1. j \in Jobs /\ j \notin Given /\ Polled(e) = <<j>>
        BY <1>4, <2>3, <3>1 DEF Jobs
      <4>2. Range(g) \subseteq Given
        BY <2>1 DEF Given
      <4> QED BY <2>2, <4>1, <4>2
    <3>3. given'[e] = Append(g, j)
      BY <2>2, <3>2, OneMore
    <3>4. Range(Append(g, j)) = Range(g) \cup {j} /\ IsInjective(Append(g, j))
      BY <2>2, <3>2, AppendRange, AppendDistinct
    <3>5. Append(g, j) \in Seq(Jobs)
      BY <2>2, <3>2
    <3> QED BY <2>1, <2>3, <3>1, <3>3, <3>4, <3>5
  <2>4. CASE e \notin Dealt
    <3>1. given'[e] = g \o << >>
      BY <1>5, <2>2, <2>4
    <3>2. given'[e] = g
      BY <2>2, <3>1, ConcatEmptySeq
    <3> QED BY <2>1, <2>2, <2>4, <3>2
  <2> QED BY <2>3, <2>4
<1>12. \A e \in ElevatorIds : /\ destinationFloors'[e] \in Seq(Jobs) /\ served'[e] \in Seq(Jobs)
                             /\ given'[e] = served'[e] \o destinationFloors'[e]
  <2> TAKE e \in ElevatorIds
  <2>1. PICK g, s, q, x : g = given[e] /\ s = served[e] /\ q = d(e) /\ x = Polled(e)
    OBVIOUS
  <2>2. /\ s \in Seq(Jobs) /\ q \in Seq(Jobs) /\ x \in Seq(Jobs)
        /\ g = s \o q /\ given'[e] = g \o x
    BY <1>1, <1>2, <1>9, <1>10, <2>1
  <2>3. /\ destinationFloors'[e] = (IF Holds(e) THEN Tail(q) ELSE q) \o x
        /\ served'[e] = IF Holds(e) THEN Append(s, Head(q)) ELSE s
    BY <1>2, <2>1 DEF Queue
  <2>4. CASE Holds(e)
    <3>1. q # << >>
      BY <2>1, <2>4 DEF Holds, Empty
    <3>2. Head(q) \in Jobs /\ Tail(q) \in Seq(Jobs)
      BY <2>2, <3>1, HeadTailProperties
    <3>3. Append(s, Head(q)) \in Seq(Jobs) /\ Tail(q) \o x \in Seq(Jobs)
      BY <2>2, <3>2
    <3>4. (s \o q) \o x = Append(s, Head(q)) \o (Tail(q) \o x)
      <4>1. PICK j, r, a, b : j = Head(q) /\ r = Tail(q) /\ a = <<j>> /\ b = Append(s, j)
        OBVIOUS
      <4>2. /\ s \in Seq(Jobs) /\ x \in Seq(Jobs) /\ r \in Seq(Jobs)
            /\ a \in Seq(Jobs) /\ b \in Seq(Jobs)
        BY <2>2, <3>2, <3>3, <4>1
      <4>3. q = a \o r /\ b = s \o a
        <5>1. q \in Seq(Jobs) /\ s \in Seq(Jobs) /\ j \in Jobs
          BY <2>2, <3>2, <4>1
        <5>2. b = s \o a
          BY <4>1, <5>1, OneMore
        <5>3. q = <<Head(q)>> \o Tail(q)
          BY <3>1, <5>1
        <5> QED BY <4>1, <5>2, <5>3
      <4>4. (s \o a) \o r = s \o (a \o r)
        BY <4>2
      <4>5. (b \o r) \o x = b \o (r \o x)
        BY <4>2
      <4>6. s \o q = b \o r
        BY <4>3, <4>4, Zenon
      <4> QED BY <4>1, <4>5, <4>6, Zenon
    <3> QED BY <2>2, <2>3, <2>4, <3>3, <3>4
  <2>5. CASE ~ Holds(e)
    <3>1. (s \o q) \o x = s \o (q \o x)
      <4>1. s \in Seq(Jobs) /\ q \in Seq(Jobs) /\ x \in Seq(Jobs)
        BY <2>2
      <4> QED BY <4>1
    <3>2. q \o x \in Seq(Jobs)
      BY <2>2, ConcatProperties, Zenon
    <3> QED BY <2>2, <2>3, <2>5, <3>1, <3>2
  <2> QED BY <2>4, <2>5
<1>13. \A e, f \in ElevatorIds : e # f => Range(given'[e]) \cap Range(given'[f]) = {}
  <2>1. \A e \in Dealt, f \in ElevatorIds : call(e) \notin Range(given[f])
    BY <1>4 DEF Given
  <2> SUFFICES ASSUME NEW e \in ElevatorIds, NEW f \in ElevatorIds, e # f,
                      NEW j \in Range(given'[e]), j \in Range(given'[f])
               PROVE  FALSE
    OBVIOUS
  <2>2. Range(given[e]) \cap Range(given[f]) = {}
    BY <1>9
  <2>3. j \in Range(given[e]) \/ (e \in Dealt /\ j = call(e))
    BY <1>11
  <2>4. j \in Range(given[f]) \/ (f \in Dealt /\ j = call(f))
    BY <1>11
  <2> QED BY <1>6, <2>1, <2>2, <2>3, <2>4
<1>14. Given' \cap Calls = (Given \cap Calls) \cup {call(e) : e \in Dealt}
  <2>1. Given' = UNION {Range(given'[e]) : e \in ElevatorIds}
    BY DEF Given
  <2>2. Given' = Given \cup {call(e) : e \in Dealt}
    <3>1. \A j \in Given' : j \in Given \cup {call(e) : e \in Dealt}
      BY <1>11, <2>1 DEF Given
    <3>2. \A j \in Given : j \in Given'
      BY <1>11, <2>1 DEF Given
    <3>3. \A e \in Dealt : call(e) \in Given'
      BY <1>4, <1>11, <2>1
    <3> QED BY <3>1, <3>2, <3>3
  <2> QED BY <1>4, <2>2
<1>15. PICK c, p, N, q : c = called /\ p = pickupLocations /\ N = NumPolled /\ q = pickupLocations'
  OBVIOUS
<1>16. /\ c \in Seq(Calls) /\ p \in Seq(Calls) /\ N \in 0..Len(p) /\ q = SubSeq(p, N + 1, Len(p))
  BY <1>1, <1>3, <1>8, <1>15
<1>17. q \in Seq(Calls) /\ Len(q) = Len(p) - N /\ \A k \in 1..Len(q) : q[k] = p[N + k]
  BY <1>16
<1>18. /\ Len(p) <= Len(c) /\ \A k \in 1..Len(p) : p[k] = c[Len(c) - Len(p) + k]
       /\ Given \cap Calls = {c[i] : i \in 1..(Len(c) - Len(p))}
  BY <1>15, FifoInvMeans
<1>19. PICK T : T = Len(c) - Len(p)
  OBVIOUS
<1>20. /\ T \in Nat /\ N \in Nat /\ Len(p) \in Nat /\ Len(c) \in Nat /\ N <= Len(p)
       /\ Len(q) <= Len(c) /\ Len(c) - Len(q) = T + N /\ Len(p) = N + Len(q) /\ Len(q) \in Nat
  <2>1. Len(c) \in Nat /\ Len(p) \in Nat /\ N \in Nat /\ N <= Len(p)
    BY <1>16
  <2> QED BY <1>17, <1>18, <1>19, <2>1
<1>21. \A n \in 1..Len(p) : p[n] = c[T + n]
  BY <1>18, <1>19
<1>22. \A k \in 1..Len(q) : q[k] = c[Len(c) - Len(q) + k]
  <2> TAKE k \in 1..Len(q)
  <2>1. N + k \in 1..Len(p) /\ T + (N + k) = (T + N) + k
    BY <1>20
  <2>2. q[k] = c[(T + N) + k]
    BY <1>17, <1>21, <2>1
  <2> QED BY <1>20, <2>2
<1>23. {c[i] : i \in 1..(T + N)} = {c[i] : i \in 1..T} \cup {p[n] : n \in 1..N}
  <2>1. \A n \in 1..N : p[n] = c[T + n] /\ T + n \in 1..(T + N)
    BY <1>20, <1>21
  <2>2. \A i \in 1..(T + N) : i \in 1..T \/ (i - T \in 1..N /\ T + (i - T) = i)
    BY <1>20
  <2>3. \A i \in 1..T : i \in 1..(T + N)
    BY <1>20
  <2>4. \A i \in 1..(T + N) : c[i] \in {c[k] : k \in 1..T} \cup {p[n] : n \in 1..N}
    <3> TAKE i \in 1..(T + N)
    <3>1. CASE i \in 1..T
      BY <3>1
    <3>2. CASE i - T \in 1..N /\ T + (i - T) = i
      BY <2>1, <3>2
    <3> QED BY <2>2, <3>1, <3>2
  <2> QED BY <2>1, <2>3, <2>4
<1>24. /\ c = SubSeq(c, 1, Len(c) - Len(q)) \o q
       /\ Range(SubSeq(c, 1, Len(c) - Len(q))) = {c[i] : i \in 1..(T + N)}
  <2>1. Len(q) <= Len(c)
    BY <1>20
  <2>2. /\ c = SubSeq(c, 1, Len(c) - Len(q)) \o q
        /\ Range(SubSeq(c, 1, Len(c) - Len(q))) = {c[i] : i \in 1..(Len(c) - Len(q))}
    <3>1. c \in Seq(Calls) /\ q \in Seq(Calls)
      BY <1>16, <1>17
    <3> QED BY <1>22, <2>1, <3>1, QueueIsEnd
  <2> QED BY <1>20, <2>2
<1>25. Given' \cap Calls = Range(SubSeq(c, 1, Len(c) - Len(q)))
  <2>1. {call(e) : e \in Dealt} = {p[n] : n \in 1..N}
    BY <1>7, <1>15
  <2>2. Given \cap Calls = {c[i] : i \in 1..T}
    BY <1>18, <1>19
  <2> QED BY <1>14, <1>23, <1>24, <2>1, <2>2
<1>26. EachJobInOrder'
  <2>1. called' = c /\ pickupLocations' = q /\ TakenCalls' = SubSeq(c, 1, Len(c) - Len(q))
    BY <1>2, <1>15 DEF TakenCalls
  <2> QED BY <1>11, <1>12, <1>13, <1>24, <1>25, <2>1 DEF EachJobInOrder
<1>27. FifoTypeOK'
  <2>1. currentFloor' \in [ElevatorIds -> Int]
    <3>1. currentFloor' = [e \in ElevatorIds |-> IF GoesUp(e) THEN currentFloor[e] + 1
                                                 ELSE IF GoesDown(e) THEN currentFloor[e] - 1
                                                 ELSE currentFloor[e]]
      BY DEF StepAll, MoveAll
    <3> QED BY <1>1, <3>1
  <2>2. given' \in [ElevatorIds -> Seq(Jobs)]
    BY <1>2, <1>11
  <2>3. destinationFloors' \in [ElevatorIds -> Seq(Jobs)] /\ served' \in [ElevatorIds -> Seq(Jobs)]
    BY <1>2, <1>12
  <2>4. called' \in Seq(Calls) /\ pickupLocations' \in Seq(Calls)
    BY <1>1, <1>2, <1>15, <1>17
  <2> QED BY <2>1, <2>2, <2>3, <2>4 DEF FifoTypeOK
<1> QED BY <1>2, <1>9, <1>26, <1>27 DEF FifoInv

LEMMA FifoInvNext == FifoInv /\ [FifoNext]_fifoVars => FifoInv'
<1> SUFFICES ASSUME FifoInv, [FifoNext]_fifoVars PROVE FifoInv'
  OBVIOUS
<1>1. ASSUME NEW j \in Calls, PickUpAt(j) PROVE FifoInv'
  BY <1>1, PickUpAtInv
<1>2. ASSUME NEW e \in ElevatorIds, NEW j \in Destinations, Destination(e, j) PROVE FifoInv'
  BY <1>2, DestinationInv
<1>3. CASE StepAll
  BY <1>3, StepAllInv
<1>4. CASE UNCHANGED fifoVars
  BY <1>4 DEF fifoVars, fields, FifoInv, FifoTypeOK, EachJobInOrder, Given, TakenCalls
<1> QED BY <1>1, <1>2, <1>3, <1>4 DEF FifoNext

(***************************************************************************)
(* FifoInvHolds: jobs are done in the order they were given and calls are  *)
(* dealt in the order they came, each to one elevator, for any number of   *)
(* elevators and any mix of calls, destinations and steps.                 *)
(***************************************************************************)
THEOREM FifoInvHolds == FifoSpec => []FifoInv
BY FifoInitInv, FifoInvNext, PTL DEF FifoSpec

(* FifoTypeCorrect: the queues of elevator3 hold jobs, those of the        *)
(* control system calls.                                                   *)
THEOREM FifoTypeCorrect == FifoSpec => []FifoTypeOK
BY FifoInvHolds, PTL DEF FifoInv

(* JobsInOrder: no job is dropped, doubled or overtaken, neither by the    *)
(* polls of a step nor by what is popped in the same step.                 *)
THEOREM JobsInOrder == FifoSpec => []EachJobInOrder
BY FifoInvHolds, PTL DEF FifoInv

(***************************************************************************)
(* NobodyIdles: an elevator that is empty before a step and after it was   *)
(* not reached by the polls, so they have emptied the queue.               *)
(***************************************************************************)
THEOREM NobodyIdles == FifoSpec => NoIdlingWhileCallsWait
<1>1. FifoInv /\ [FifoNext]_fifoVars =>
        [StepAll => pickupLocations' = << >> \/ Empty \cap Empty' = {}]_fifoVars
  <2> SUFFICES ASSUME FifoInv, StepAll, NEW e \in Empty, e \in Empty'
               PROVE  pickupLocations' = << >>
    OBVIOUS
  <2>1. e \in ElevatorIds /\ destinationFloors[e] = << >> /\ ~ Holds(e)
    BY DEF Empty, Holds
  <2>2. destinationFloors'[e] = << >> \o Polled(e) /\ destinationFloors'[e] = << >>
    BY <2>1 DEF StepAll, Queue, Empty
  <2>3. e \notin Dealt
    <3> SUFFICES ASSUME e \in Dealt PROVE FALSE
      OBVIOUS
    <3>1. PICK j : Polled(e) = <<j>>
      BY DealtCalls
    <3>2. << >> \o <<j>> = << >>
      BY <2>2, <3>1
    <3> QED BY <3>2
  <2>4. PICK p, N : p = pickupLocations /\ N = NumPolled
    OBVIOUS
  <2>5. N \in 0..Len(p) /\ (N < Len(p) => Dealt = Empty) /\ p \in Seq(Calls)
    BY <2>4, Dealing DEF FifoInv, FifoTypeOK
  <2>6. N = Len(p) /\ Len(p) \in Nat
    BY <2>3, <2>5
  <2>7. SubSeq(p, N + 1, Len(p)) = << >>
    BY <2>6, SubSeqEmpty
  <2> QED BY <2>4, <2>7 DEF StepAll
<1> QED BY <1>1, FifoInvHolds, PTL DEF FifoSpec, NoIdlingWhileCallsWait

(***************************************************************************)
(* elevator4: how far its elevators can stray, and that passengers lead    *)
(* them.                                                                   *)
(***************************************************************************)
State == [floor : -2..(floors - 1), pass : SUBSET (-2..(floors - 1)), pick : Seq(Call)]

(* A target is a passenger's destination or a call's floor, and the next   *)
(* floor lies between the elevator and its target.                         *)
LEMMA DirectionLeadsToTarget ==
  ASSUME NEW s \in State, NEW dir \in Directions(s)
  PROVE  \E d \in s.pass \cup CalledFrom(s) : /\ d \in -2..(floors - 1)
                                              /\ dir = Sign(d - s.floor)
<1>1. NearPass(s) \subseteq s.pass /\ s.pass \subseteq -2..(floors - 1)
  BY DEF NearPass, State
<1>2. s.pick \in Seq(Call)
  BY DEF State
<1>3. \A i \in DOMAIN s.pick : s.pick[i] \in Call /\ s.pick[i].floor \in Floors
  <2>1. \A i \in DOMAIN s.pick : s.pick[i] \in Call
    BY <1>2
  <2>2. \A c \in Call : c.floor \in Floors
    BY DEF Call
  <2> QED BY <2>1, <2>2
<1>4. NearPick(s) \subseteq CalledFrom(s)
  BY DEF NearPick, CalledFrom, Range
<1>5. CalledFrom(s) \subseteq Floors
  BY <1>3 DEF CalledFrom, Range
<1>6. Floors \subseteq -2..(floors - 1)
  BY GreedySizesAssumption DEF Floors
<1> QED BY <1>1, <1>4, <1>5, <1>6 DEF Directions

(* One step of one elevator keeps it, and the wishes of its passengers,    *)
(* at most two floors below the building.                                  *)
LEMMA StepsStayNear ==
  ASSUME NEW s \in State, NEW t \in Steps(s)
  PROVE  t \in State
<1>1. CASE s.pick = << >> /\ s.pass = {}
  BY <1>1 DEF Steps
<1>2. CASE ~ (s.pick = << >> /\ s.pass = {})
  <2>1. PICK dir \in Directions(s) : \E b \in Board(s, s.floor + dir) :
          t = [floor |-> s.floor + dir,
               pass  |-> (s.pass \ {s.floor + dir}) \cup b,
               pick  |-> WithoutCall(s.pick, s.floor + dir)]
    BY <1>2 DEF Steps
  <2> PICK b \in Board(s, s.floor + dir) :
          t = [floor |-> s.floor + dir,
               pass  |-> (s.pass \ {s.floor + dir}) \cup b,
               pick  |-> WithoutCall(s.pick, s.floor + dir)]
    BY <2>1
  <2>2. s.floor \in -2..(floors - 1) /\ s.pass \subseteq -2..(floors - 1) /\ s.pick \in Seq(Call)
    BY DEF State
  <2>3. s.floor + dir \in -2..(floors - 1) /\ dir \in {1, 0, -1}
    <3>1. PICK d \in -2..(floors - 1) : dir = Sign(d - s.floor)
      BY DirectionLeadsToTarget
    <3> QED BY <2>2, <3>1, GreedySizesAssumption DEF Sign
  <2>4. WithoutCall(s.pick, s.floor + dir) \in Seq(Call)
    BY <2>2, FilterProperties DEF WithoutCall
  <2>5. b \subseteq -2..(floors - 1)
    <3> DEFINE next   == s.floor + dir
               calls == {c \in Range(s.pick) : c.floor = next}
    <3>1. CASE calls = {}
      BY <3>1 DEF Board
    <3>2. CASE calls # {}
      <4>1. next \in Floors
        <5>1. PICK c \in Range(s.pick) : c.floor = next
          BY <3>2
        <5>2. Range(s.pick) \subseteq Call
          BY <2>2 DEF Range
        <5> QED BY <5>1, <5>2 DEF Call
      <4>2. b \in {{d} : d \in IF next <= 1 THEN {0} ELSE 0..(next - 1)}
              \cup {{d} : d \in (s.floor - 1)..(floors - 1)}
        BY <3>2 DEF Board
      <4> QED BY <2>2, <2>3, <4>1, <4>2, GreedySizesAssumption DEF Floors
    <3> QED BY <3>1, <3>2
  <2> QED BY <2>2, <2>3, <2>4, <2>5 DEF State
<1> QED BY <1>1, <1>2

LEMMA PutCallType ==
  ASSUME NEW pick \in Seq(Call), NEW c \in Call
  PROVE  PutCall(pick, c) \in Seq(Call)
<1>1. CASE \E i \in DOMAIN pick : pick[i].floor = c.floor
  BY <1>1 DEF PutCall
<1>2. CASE ~ \E i \in DOMAIN pick : pick[i].floor = c.floor
  BY <1>2 DEF PutCall
<1> QED BY <1>1, <1>2

(* NearTheBuilding: elevator4 never takes an elevator more than two floors *)
(* below the building or above its top, and no passenger wishes it to,     *)
(* whatever calls come and whatever destinations are drawn.                *)
THEOREM NearTheBuilding == GreedySpec => []GreedyTypeOK
<1>1. GreedyInit => GreedyTypeOK
  <2>1. floors \div 2 \in -2..(floors - 1)
    BY GreedySizesAssumption
  <2>2. << >> \in Seq(Call)
    OBVIOUS
  <2> QED BY <2>1, <2>2, GreedySizesAssumption DEF GreedyInit, GreedyTypeOK
<1>2. GreedyTypeOK /\ [GreedyNext]_greedyVars => GreedyTypeOK'
  <2> SUFFICES ASSUME GreedyTypeOK, [GreedyNext]_greedyVars PROVE GreedyTypeOK'
    OBVIOUS
  <2>1. lift \in [Lifts -> State]
    BY DEF GreedyTypeOK, State
  <2>2. CASE Step
    <3>1. PICK next \in [Lifts -> UNION {Steps(lift[e]) : e \in Lifts}] :
            /\ \A e \in Lifts : next[e] \in Steps(lift[e])
            /\ lift' = next
      BY <2>2 DEF Step
    <3>2. \A e \in Lifts : next[e] \in State
      BY <2>1, <3>1, StepsStayNear
    <3> QED BY <2>1, <2>2, <3>1, <3>2 DEF Step, GreedyTypeOK, State
  <2>3. ASSUME NEW c \in Call, PickUp(c) PROVE GreedyTypeOK'
    <3>1. PICK e \in Lifts : lift' = [lift EXCEPT ![e].pick = PutCall(@, c)]
      BY <2>3 DEF PickUp, Closest
    <3>2. PutCall(lift[e].pick, c) \in Seq(Call)
      BY <2>1, PutCallType DEF State
    <3>3. [lift[e] EXCEPT !.pick = PutCall(@, c)] \in State
      BY <2>1, <3>2 DEF State
    <3>4. lift' \in [Lifts -> State]
      BY <2>1, <3>1, <3>3
    <3>5. due' = "step"
      BY <2>3 DEF PickUp
    <3> QED BY <3>4, <3>5 DEF GreedyTypeOK, State
  <2>4. CASE UNCHANGED greedyVars
    BY <2>4 DEF greedyVars, GreedyTypeOK
  <2> QED BY <2>2, <2>3, <2>4 DEF GreedyNext
<1> QED BY <1>1, <1>2, PTL DEF GreedySpec

(***************************************************************************)
(* A step of an elevator with passengers goes one floor towards the wish   *)
(* that is nearest, and lets out nobody else.                              *)
(***************************************************************************)
LEMMA StepsFollowAWish ==
  ASSUME NEW s \in State, NEW t \in Steps(s), s.pass # {}
  PROVE  \E d \in NearPass(s) : /\ t.floor = s.floor + Sign(d - s.floor)
                                /\ s.pass \ {t.floor} \subseteq t.pass
<1>1. PICK dir \in Directions(s) : \E b \in Board(s, s.floor + dir) :
        t = [floor |-> s.floor + dir,
             pass  |-> (s.pass \ {s.floor + dir}) \cup b,
             pick  |-> WithoutCall(s.pick, s.floor + dir)]
  BY DEF Steps
<1>2. t.floor = s.floor + dir /\ s.pass \ {t.floor} \subseteq t.pass
  BY <1>1
<1>3. PICK d \in NearPass(s) : dir = Sign(d - s.floor)
  BY DEF Directions
<1> QED BY <1>2, <1>3

(* A floor's distance shrinks with a step towards it.                      *)
LEMMA StepComesNearer ==
  ASSUME NEW from \in Int, NEW d \in Int, from # d
  PROVE  Abs(d - (from + Sign(d - from))) < Abs(d - from)
BY DEF Abs, Sign

(***************************************************************************)
(* PassengersLead: whatever calls an elevator has collected, a step with   *)
(* passengers aboard delivers one of the nearest or comes nearer to one    *)
(* who stays aboard.  GreedyTypeOK is all the state it needs: that floors  *)
(* and wishes are numbers a distance is defined for.                       *)
(***************************************************************************)
THEOREM PassengersLead == GreedySpec => PassengersFirst
<1>1. GreedyTypeOK /\ [GreedyNext]_greedyVars =>
        [Step => \A e \in Lifts :
                   LET s == lift[e]  t == lift'[e]
                   IN  s.pass # {} =>
                         \E d \in NearPass(s) :
                           \/ t.floor = d
                           \/ d \in t.pass /\ Abs(d - t.floor) < Abs(d - s.floor)]_greedyVars
  <2> SUFFICES ASSUME GreedyTypeOK, Step, NEW e \in Lifts, lift[e].pass # {}
               PROVE  \E d \in NearPass(lift[e]) :
                        \/ lift'[e].floor = d
                        \/ /\ d \in lift'[e].pass
                           /\ Abs(d - lift'[e].floor) < Abs(d - lift[e].floor)
    OBVIOUS
  <2> DEFINE s == lift[e]
             t == lift'[e]
  <2>1. s \in State
    BY DEF GreedyTypeOK, State
  <2>2. t \in Steps(s)
    BY DEF Step
  <2> HIDE DEF s, t
  <2>3. PICK d \in NearPass(s) : /\ t.floor = s.floor + Sign(d - s.floor)
                                 /\ s.pass \ {t.floor} \subseteq t.pass
    BY <2>1, <2>2, StepsFollowAWish DEF s
  <2>4. d \in s.pass /\ d \in Int /\ s.floor \in Int
    BY <2>1, <2>3 DEF State, NearPass
  <2>5. t.floor = d \/ (d \in t.pass /\ Abs(d - t.floor) < Abs(d - s.floor))
    <3>1. CASE d = s.floor
      BY <2>3, <2>4, <3>1 DEF Sign
    <3>2. CASE d # s.floor
      BY <2>3, <2>4, <3>2, StepComesNearer
    <3> QED BY <3>1, <3>2
  <2> QED BY <2>3, <2>5 DEF s, t
<1> QED BY <1>1, NearTheBuilding, PTL DEF GreedySpec, PassengersFirst
=============================================================================
