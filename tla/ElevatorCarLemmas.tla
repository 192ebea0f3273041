------------------------- MODULE ElevatorCarLemmas -------------------------
(***************************************************************************)
(* What the handlers of one car return, for every car, floor and trip: the *)
(* facts the proofs about a single actor and about the control system use. *)
(***************************************************************************)
EXTENDS ElevatorCar, FilteringLemmas

(***************************************************************************)
(* StopServesAll: removeOnTheFlyGoals takes in exactly those who wait at   *)
(* this floor and lets out exactly those who want to leave at it.          *)
(***************************************************************************)
THEOREM StopServesAll ==
  ASSUME NEW c \in Car
  PROVE  LET r == RemoveOnTheFlyGoals(c)
         IN  /\ r \in Car
             /\ r.currentFloor = c.currentFloor
             /\ r.goalFloor = c.goalFloor
             /\ r.direction = c.direction
             /\ Waiting(r) = {t \in Waiting(c) : t.from # c.currentFloor}
             /\ Riding(r) = {t \in Riding(c) \cup {u \in Waiting(c) : u.from = c.currentFloor} :
                                t.to # c.currentFloor}
<1> DEFINE entering   == {t \in Trips : t.from = c.currentFloor}
           leaving    == {t \in Trips : t.to = c.currentFloor}
           boarding   == Only(c.pickUpQueue, entering)
           passengers == c.destinationQueue \o boarding
           pick       == Only(c.pickUpQueue, Trips \ entering)
           dest       == Only(passengers, Trips \ leaving)
           r          == RemoveOnTheFlyGoals(c)
<1>1. /\ c.pickUpQueue \in Seq(Trips) /\ c.destinationQueue \in Seq(Trips)
      /\ r = [c EXCEPT !.pickUpQueue = pick, !.destinationQueue = dest]
  BY DEF Car, RemoveOnTheFlyGoals
<1> HIDE DEF r
<1>2. /\ boarding \in Seq(Trips) /\ Range(boarding) = Waiting(c) \cap entering
      /\ pick \in Seq(Trips) /\ Range(pick) = Waiting(c) \cap (Trips \ entering)
  BY <1>1, FilterProperties DEF Waiting
<1>3. /\ passengers \in Seq(Trips)
      /\ Range(passengers) = Riding(c) \cup Range(boarding)
  <2> HIDE DEF boarding
  <2> QED BY <1>1, <1>2, ConcatProperties, RangeConcatenation DEF Riding
<1>4. dest \in Seq(Trips) /\ Range(dest) = Range(passengers) \cap (Trips \ leaving)
  <2> HIDE DEF passengers
  <2> QED BY <1>3, FilterProperties
<1>5. Waiting(c) \subseteq Trips /\ Riding(c) \subseteq Trips
  BY <1>1, RangeOfSeq DEF Waiting, Riding
<1> HIDE DEF pick, dest, passengers, boarding
<1>6. /\ r \in Car /\ r.pickUpQueue = pick /\ r.destinationQueue = dest
      /\ r.currentFloor = c.currentFloor /\ r.goalFloor = c.goalFloor
      /\ r.direction = c.direction
  BY <1>1, <1>2, <1>4 DEF Car
<1>7. Waiting(r) = Range(pick) /\ Riding(r) = Range(dest)
  BY <1>6 DEF Waiting, Riding
<1> QED BY <1>2, <1>3, <1>4, <1>5, <1>6, <1>7 DEF r

(* A stop leaves no trip twice in a queue or in both.                      *)
OnceEach(c) == /\ IsInjective(c.pickUpQueue)
               /\ IsInjective(c.destinationQueue)
               /\ Waiting(c) \cap Riding(c) = {}

LEMMA StopKeepsOnceEach ==
  ASSUME NEW c \in Car, OnceEach(c)
  PROVE  OnceEach(RemoveOnTheFlyGoals(c))
<1> DEFINE entering   == {t \in Trips : t.from = c.currentFloor}
           leaving    == {t \in Trips : t.to = c.currentFloor}
           boarding   == Only(c.pickUpQueue, entering)
           passengers == c.destinationQueue \o boarding
           pick       == Only(c.pickUpQueue, Trips \ entering)
           dest       == Only(passengers, Trips \ leaving)
           r          == RemoveOnTheFlyGoals(c)
<1>1. /\ c.pickUpQueue \in Seq(Trips) /\ c.destinationQueue \in Seq(Trips)
      /\ r.pickUpQueue = pick /\ r.destinationQueue = dest
      /\ IsInjective(c.pickUpQueue) /\ IsInjective(c.destinationQueue)
  BY DEF Car, RemoveOnTheFlyGoals, OnceEach
<1>2. Waiting(r) \cap Riding(r) = {}
  BY StopServesAll DEF OnceEach
<1> HIDE DEF r
<1>3. /\ boarding \in Seq(Trips) /\ Range(boarding) \subseteq Waiting(c)
      /\ IsInjective(boarding) /\ IsInjective(pick)
  BY <1>1, FilterProperties, FilterDistinct DEF Waiting
<1> HIDE DEF boarding
<1>4. passengers \in Seq(Trips) /\ IsInjective(passengers)
  BY <1>1, <1>3, ConcatProperties, ConcatDistinct DEF OnceEach, Riding
<1>5. IsInjective(dest)
  BY <1>4, FilterDistinct
<1> QED BY <1>1, <1>2, <1>3, <1>5 DEF OnceEach, r

(***************************************************************************)
(* MoveServesAll: a whole move changes the queues as its stop does, and    *)
(* leaves the car on a course to its goal, where somebody waits for it.    *)
(***************************************************************************)
THEOREM MoveServesAll ==
  ASSUME NEW c \in Car
  PROVE  /\ Move(c) \in Car
         /\ Move(c).pickUpQueue = RemoveOnTheFlyGoals(c).pickUpQueue
         /\ Move(c).destinationQueue = RemoveOnTheFlyGoals(c).destinationQueue
<1> DEFINE r == RemoveOnTheFlyGoals(c)
           n == SetNewGoal(r)
<1>1. r \in Car
  BY StopServesAll
<1> HIDE DEF r
<1>2. GetNewGoal(r) \in Int
  <2>1. /\ r.destinationQueue # << >> => Head(r.destinationQueue) \in Trips
        /\ r.pickUpQueue # << >> => Head(r.pickUpQueue) \in Trips
        /\ r.currentFloor \in Int
    BY <1>1 DEF Car
  <2> QED BY <2>1, TripsAssumption DEF GetNewGoal
<1>3. n \in Car /\ n.pickUpQueue = r.pickUpQueue /\ n.destinationQueue = r.destinationQueue
  <2>1. DirectionTo(GetNewGoal(r), r.currentFloor) \in Direction
    BY DEF DirectionTo, Direction, Up, Down, NoDirection
  <2> QED BY <1>1, <1>2, <2>1 DEF SetNewGoal, Car
<1> HIDE DEF n
<1>4. MoveElevator(n.direction, n.currentFloor) \in Int
  BY <1>3 DEF MoveElevator, Car
<1>5. Move(c) = [n EXCEPT !.currentFloor = MoveElevator(n.direction, @)]
  BY DEF Move, n, r
<1> QED BY <1>3, <1>4, <1>5 DEF Car, r

THEOREM MoveKeepsCourse ==
  ASSUME NEW c \in Car, LeadsToGoal(c), HasCaller(c)
  PROVE  LeadsToGoal(Move(c)) /\ HasCaller(Move(c))
<1> DEFINE r == RemoveOnTheFlyGoals(c)
           n == SetNewGoal(r)
           d == Move(c)
<1>1. /\ c \in Car /\ r \in Car /\ d \in Car
      /\ r.currentFloor = c.currentFloor /\ r.goalFloor = c.goalFloor /\ r.direction = c.direction
      /\ Waiting(d) = Waiting(r) /\ Riding(d) = Riding(r)
      /\ Waiting(r) = {t \in Waiting(c) : t.from # c.currentFloor}
      /\ Riding(r) = {t \in Riding(c) \cup {u \in Waiting(c) : u.from = c.currentFloor} :
                                t.to # c.currentFloor}
  BY StopServesAll, MoveServesAll DEF Waiting, Riding
<1>2. /\ d.currentFloor = MoveElevator(n.direction, n.currentFloor)
      /\ d.goalFloor = n.goalFloor /\ d.direction = n.direction
  <2>1. r \in Car
    BY <1>1
  <2>2. n.currentFloor = r.currentFloor /\ DOMAIN n = DOMAIN r
    <3> HIDE DEF r
    <3> QED BY <2>1 DEF SetNewGoal, Car
  <2>3. d = [n EXCEPT !.currentFloor = MoveElevator(n.direction, @)]
    BY DEF Move
  <2>4. DOMAIN n = DOMAIN r /\ DOMAIN r = {"currentFloor", "goalFloor", "direction",
                                           "pickUpQueue", "destinationQueue"}
    <3> HIDE DEF r, n
    <3> QED BY <2>1, <2>2 DEF Car
  <2> HIDE DEF d, n, r
  <2> QED BY <2>3, <2>4
<1> HIDE DEF r, d
<1>3. CASE IsGoalReached(r) \/ r.direction = NoDirection
  <2> DEFINE g == GetNewGoal(r)
  <2>1. /\ n.currentFloor = r.currentFloor /\ n.goalFloor = g
        /\ n.direction = DirectionTo(g, r.currentFloor)
    BY <1>1, <1>3 DEF SetNewGoal, Car
  <2>2. g \in Int /\ (\/ g = r.currentFloor
                      \/ \E t \in Waiting(r) : t.from = g
                      \/ \E t \in Riding(r) : t.to = g)
    <3>1. r.destinationQueue # << >> => Head(r.destinationQueue) \in Riding(r)
      BY <1>1 DEF Car, Riding, Range
    <3>2. r.pickUpQueue # << >> => Head(r.pickUpQueue) \in Waiting(r)
      BY <1>1 DEF Car, Waiting, Range
    <3>3. Riding(r) \subseteq Trips /\ Waiting(r) \subseteq Trips
      BY <1>1, RangeOfSeq DEF Car, Riding, Waiting
    <3>4. r.currentFloor \in Int
      BY <1>1 DEF Car
    <3> QED BY <3>1, <3>2, <3>3, <3>4, TripsAssumption DEF GetNewGoal
  <2> HIDE DEF g, n
  <2>3. r.currentFloor \in Int
    BY <1>1 DEF Car
  <2>4. LeadsToGoal(d)
    BY <1>2, <2>1, <2>2, <2>3
    DEF LeadsToGoal, DirectionTo, MoveElevator, IsGoalReached, Up, Down, NoDirection
  <2>5. HasCaller(d)
    BY <1>1, <1>2, <2>1, <2>2, <2>3
    DEF HasCaller, DirectionTo, MoveElevator, IsGoalReached, Up, Down, NoDirection
  <2> QED BY <2>4, <2>5 DEF d
<1>4. CASE ~ (IsGoalReached(r) \/ r.direction = NoDirection)
  <2>1. n = r
    BY <1>4 DEF SetNewGoal
  <2> HIDE DEF n
  <2>2. r.currentFloor \in Int /\ r.goalFloor \in Int /\ r.direction \in Direction
    BY <1>1 DEF Car
  <2>3. LeadsToGoal(d)
    BY <1>1, <1>2, <1>4, <2>1, <2>2
    DEF LeadsToGoal, MoveElevator, IsGoalReached, Direction, Up, Down, NoDirection
  <2>4. \/ \E t \in Waiting(r) : t.from = r.goalFloor
        \/ \E t \in Riding(r) : t.to = r.goalFloor
    BY <1>1, <1>4, <2>2 DEF HasCaller, IsGoalReached
  <2>5. HasCaller(d)
    BY <1>1, <1>2, <2>1, <2>4 DEF HasCaller
  <2> QED BY <2>3, <2>5 DEF d
<1> QED BY <1>3, <1>4 DEF d

(* PickUp puts the trip at the end of the pick-up queue and nothing else.  *)
LEMMA PickUpProperties ==
  ASSUME NEW c \in Car, NEW t \in Trips
  PROVE  /\ PickUp(c, t) \in Car
         /\ Waiting(PickUp(c, t)) = Waiting(c) \cup {t}
         /\ Riding(PickUp(c, t)) = Riding(c)
         /\ PickUp(c, t).currentFloor = c.currentFloor
         /\ PickUp(c, t).goalFloor = c.goalFloor
         /\ PickUp(c, t).direction = c.direction
         /\ OnceEach(c) /\ t \notin Waiting(c) \cup Riding(c) => OnceEach(PickUp(c, t))
<1> DEFINE p == PickUp(c, t)
<1>1. /\ c.pickUpQueue \in Seq(Trips)
      /\ p.pickUpQueue = Append(c.pickUpQueue, t) /\ p \in Car
      /\ p.destinationQueue = c.destinationQueue /\ p.currentFloor = c.currentFloor
      /\ p.goalFloor = c.goalFloor /\ p.direction = c.direction
  <2>1. c.pickUpQueue \in Seq(Trips)
    BY DEF Car
  <2>2. Append(c.pickUpQueue, t) \in Seq(Trips)
    BY <2>1
  <2>3. p = [c EXCEPT !.pickUpQueue = Append(c.pickUpQueue, t)]
    BY DEF PickUp
  <2> QED BY <2>1, <2>2, <2>3 DEF Car
<1> HIDE DEF p
<1>2. Waiting(p) = Waiting(c) \cup {t} /\ Riding(p) = Riding(c)
  BY <1>1, AppendRange DEF Waiting, Riding
<1>3. ASSUME OnceEach(c), t \notin Waiting(c) \cup Riding(c) PROVE OnceEach(p)
  <2>1. IsInjective(p.pickUpQueue)
    BY <1>1, <1>3, AppendDistinct DEF OnceEach, Waiting
  <2> QED BY <1>1, <1>2, <1>3, <2>1 DEF OnceEach
<1> QED BY <1>1, <1>2, <1>3 DEF p

(***************************************************************************)
(* MoveOneFloor: a move takes the car one floor at most.                   *)
(***************************************************************************)
THEOREM MoveOneFloor ==
  ASSUME NEW c \in Car
  PROVE  Move(c).currentFloor \in (c.currentFloor - 1)..(c.currentFloor + 1)
<1> DEFINE r == RemoveOnTheFlyGoals(c)
           n == SetNewGoal(r)
<1>1. r \in Car /\ r.currentFloor = c.currentFloor /\ c.currentFloor \in Int
  BY StopServesAll DEF Car
<1> HIDE DEF r
<1>2. n.currentFloor = r.currentFloor /\ DOMAIN n = DOMAIN r /\ "currentFloor" \in DOMAIN r
  BY <1>1 DEF SetNewGoal, Car
<1>3. Move(c) = [n EXCEPT !.currentFloor = MoveElevator(n.direction, @)]
  BY DEF Move, r
<1> HIDE DEF n
<1>4. Move(c).currentFloor = MoveElevator(n.direction, c.currentFloor)
  BY <1>1, <1>2, <1>3
<1> QED BY <1>1, <1>4 DEF MoveElevator
=============================================================================
