-------------------- MODULE ElevatorControlSystemProofs --------------------
(***************************************************************************)
(* Theorems about the control actor and its elevators, for any sets of     *)
(* elevators and trips and any bounds.                                     *)
(***************************************************************************)
EXTENDS ElevatorControlSystem, ElevatorCarLemmas, FiniteSetTheorems

(* Where the trips are: asked for, sent on, in a car.                      *)
TripsIn(q) == {t \in Trips : PickUpMsg(t) \in Range(q)}
Asked      == TripsIn(controlBox)
Sent(e)    == TripsIn(elevatorBox[e])
Aboard(e)  == Waiting(car[e]) \cup Riding(car[e])
With(e)    == Sent(e) \cup Aboard(e)

(* A request occurs once in a mailbox, and a trip once in a car.           *)
Once(m, q) == \A i, j \in DOMAIN q : q[i] = m /\ q[j] = m => i = j
OnceIn(q)  == \A t \in Trips : Once(PickUpMsg(t), q)
OnceInv    == /\ OnceIn(controlBox)
              /\ \A e \in Elevators : OnceIn(elevatorBox[e]) /\ OnceEach(car[e])

(* The places are disjoint and hold all trips.                             *)
Done     == dismissed \cup lost \cup arrived
PlaceInv ==
  /\ \A e \in Elevators : Sent(e) \cap Aboard(e) = {}
  /\ \A e, f \in Elevators : e # f => With(e) \cap With(f) = {}
  /\ \A e \in Elevators : With(e) \cap (Asked \cup unsent \cup Done) = {}
  /\ Asked \cap (unsent \cup Done) = {}
  /\ unsent \cap Done = {}
  /\ dismissed \cap (lost \cup arrived) = {}
  /\ lost \cap arrived = {}
  /\ \A t \in Trips : t \in Asked \cup unsent \cup Done \/ \E e \in Elevators : t \in With(e)

(* Nobody is in a car who has nowhere to go.                               *)
TravelInv == \A e \in Elevators : \A t \in Aboard(e) : IsTrip(t)

(* As long as the control actor knows no elevator it has sent none a trip, *)
(* and all of them stand where they began: a restart resets nothing.       *)
ColdInv == Known = {} => \A e \in Elevators : car[e] = NewCar /\ Sent(e) = {}

(* The last status of an elevator in a mailbox tells s.                    *)
Froms(q, e) == {i \in DOMAIN q : q[i].type = "ElevatorStatus" /\ q[i].id = e}
Tells(q, e, s) == \A i \in Froms(q, e) : (\A j \in Froms(q, e) : j <= i) => q[i].status = s
ViewInv ==
  \A e \in Elevators :
    /\ Tells(controlBox, e, Snapshot(car[e]))
    /\ Froms(controlBox, e) = {} /\ e \in Known => elevatorStatus[e] = Snapshot(car[e])

Inv == TypeOK /\ OnceInv /\ PlaceInv /\ TravelInv /\ ColdInv /\ ViewInv

-----------------------------------------------------------------------------
(* What each message is, and who is sent it.                               *)
LEMMA MessageFacts ==
  /\ StepMsg.type = "Step" /\ StatusMsg.type = "Status"
  /\ \A t : PickUpMsg(t).type = "PickUp" /\ PickUpMsg(t).trip = t
  /\ \A e, c : LET m == ElevatorStatusMsg(e, c)
               IN  m.type = "ElevatorStatus" /\ m.id = e /\ m.status = Snapshot(c)
BY DEF StepMsg, StatusMsg, PickUpMsg, ElevatorStatusMsg

LEMMA MailFacts ==
  /\ StepMsg \in ToElevator /\ StatusMsg \in ToElevator /\ StepMsg \in ToControl
  /\ \A t \in Trips : PickUpMsg(t) \in ToElevator /\ PickUpMsg(t) \in ToControl
  /\ \A e \in Elevators, c \in Car : ElevatorStatusMsg(e, c) \in ToControl
  /\ \A m \in ToElevator : m.type = "PickUp" => m.trip \in Trips /\ m = PickUpMsg(m.trip)
  /\ \A m \in ToControl : m.type = "PickUp" => m.trip \in Trips /\ m = PickUpMsg(m.trip)
  /\ \A m \in ToControl : m.type = "ElevatorStatus" => m.id \in Elevators /\ m.status \in Status
<1>1. \A e \in Elevators, c \in Car : ElevatorStatusMsg(e, c) \in ToControl
  BY DEF ElevatorStatusMsg, Snapshot, Car, Status, ToControl
<1>2. \A m \in ToElevator : m.type = "PickUp" => m.trip \in Trips /\ m = PickUpMsg(m.trip)
  <2> SUFFICES ASSUME NEW m \in ToElevator, m.type = "PickUp"
               PROVE  m.trip \in Trips /\ m = PickUpMsg(m.trip)
    OBVIOUS
  <2>1. PICK t \in Trips : m = PickUpMsg(t)
    BY MessageFacts DEF ToElevator
  <2> QED BY <2>1, MessageFacts
<1>3. \A m \in ToControl : m.type = "PickUp" => m.trip \in Trips /\ m = PickUpMsg(m.trip)
  <2> SUFFICES ASSUME NEW m \in ToControl, m.type = "PickUp"
               PROVE  m.trip \in Trips /\ m = PickUpMsg(m.trip)
    OBVIOUS
  <2>1. PICK t \in Trips : m = PickUpMsg(t)
    BY MessageFacts DEF ToControl
  <2> QED BY <2>1, MessageFacts
<1>4. \A m \in ToControl : m.type = "ElevatorStatus" => m.id \in Elevators /\ m.status \in Status
  <2> SUFFICES ASSUME NEW m \in ToControl, m.type = "ElevatorStatus"
               PROVE  m.id \in Elevators /\ m.status \in Status
    OBVIOUS
  <2>1. m \in [type : {"ElevatorStatus"}, id : Elevators, status : Status]
    BY MessageFacts DEF ToControl
  <2> QED BY <2>1
<1> QED BY <1>1, <1>2, <1>3, <1>4 DEF ToElevator, ToControl

(* A mailbox that gets a message, and one whose first message is taken.    *)
LEMMA BoxGets ==
  ASSUME NEW S, NEW q \in Seq(S), NEW m \in S
  PROVE  /\ Append(q, m) \in Seq(S)
         /\ Range(Append(q, m)) = Range(q) \cup {m}
         /\ \A x : Once(x, q) /\ (x = m => x \notin Range(q)) => Once(x, Append(q, m))
<1>1. /\ Append(q, m) \in Seq(S)
      /\ DOMAIN Append(q, m) = 1..(Len(q) + 1) /\ DOMAIN q = 1..Len(q) /\ Len(q) \in Nat
      /\ \A i \in 1..Len(q) : Append(q, m)[i] = q[i]
      /\ Append(q, m)[Len(q) + 1] = m
  OBVIOUS
<1>2. PICK r : r = Append(q, m)
  OBVIOUS
<1>3. ASSUME NEW x, Once(x, q), x = m => x \notin Range(q) PROVE Once(x, Append(q, m))
  <2>1. \A i \in 1..Len(q) : q[i] = m => x # m
    BY <1>1, <1>3 DEF Range
  <2> QED BY <1>1, <1>2, <1>3, <2>1 DEF Once
<1> QED BY <1>1, <1>3, AppendRange

LEMMA BoxTaken ==
  ASSUME NEW S, NEW q \in Seq(S), q # << >>
  PROVE  /\ Tail(q) \in Seq(S) /\ Head(q) \in S
         /\ Range(q) = Range(Tail(q)) \cup {Head(q)}
         /\ \A x : Once(x, q) => Once(x, Tail(q))
         /\ Once(Head(q), q) => Head(q) \notin Range(Tail(q))
<1>1. PICK r, h : r = Tail(q) /\ h = Head(q)
  OBVIOUS
<1>2. /\ r \in Seq(S) /\ h \in S /\ h = q[1] /\ Len(r) = Len(q) - 1
      /\ DOMAIN r = 1..(Len(q) - 1) /\ DOMAIN q = 1..Len(q) /\ Len(q) \in Nat /\ Len(q) >= 1
      /\ \A i \in 1..(Len(q) - 1) : r[i] = q[i + 1]
  BY <1>1
<1>3. Range(q) = Range(r) \cup {h}
  <2>1. ASSUME NEW i \in 1..Len(q) PROVE q[i] = h \/ \E j \in 1..(Len(q) - 1) : q[i] = r[j]
    <3>1. CASE i = 1
      BY <1>2, <3>1
    <3>2. CASE i # 1
      <4>1. i - 1 \in 1..(Len(q) - 1) /\ (i - 1) + 1 = i
        BY <1>2, <3>2
      <4> QED BY <1>2, <4>1
    <3> QED BY <3>1, <3>2
  <2>2. \A j \in 1..(Len(q) - 1) : \E i \in 1..Len(q) : r[j] = q[i]
    BY <1>2
  <2>3. h = q[1] /\ 1 \in 1..Len(q)
    BY <1>2
  <2>4. Range(q) = {q[i] : i \in 1..Len(q)} /\ Range(r) = {r[j] : j \in 1..(Len(q) - 1)}
    BY <1>2 DEF Range
  <2>5. \A x \in Range(q) : x \in Range(r) \cup {h}
    BY <2>1, <2>4
  <2>6. \A x \in Range(r) \cup {h} : x \in Range(q)
    BY <2>2, <2>3, <2>4
  <2> QED BY <2>5, <2>6
<1>4. ASSUME NEW x, Once(x, q) PROVE Once(x, r)
  <2> SUFFICES ASSUME NEW i \in 1..(Len(q) - 1), NEW j \in 1..(Len(q) - 1), r[i] = x, r[j] = x
               PROVE  i = j
    BY <1>2 DEF Once
  <2>1. i + 1 \in 1..Len(q) /\ j + 1 \in 1..Len(q) /\ q[i + 1] = x /\ q[j + 1] = x
    BY <1>2
  <2>2. i + 1 = j + 1
    BY <1>2, <1>4, <2>1 DEF Once
  <2> QED BY <2>2
<1>5. ASSUME Once(h, q) PROVE h \notin Range(r)
  BY <1>2, <1>5 DEF Once, Range
<1> QED BY <1>1, <1>2, <1>3, <1>4, <1>5

LEMMA TripsGet ==
  ASSUME NEW S, NEW q \in Seq(S), NEW m \in S
  PROVE  /\ Append(q, m) \in Seq(S)
         /\ m.type # "PickUp" => /\ TripsIn(Append(q, m)) = TripsIn(q)
                                 /\ OnceIn(q) => OnceIn(Append(q, m))
         /\ \A t \in Trips : m = PickUpMsg(t) =>
              /\ TripsIn(Append(q, m)) = TripsIn(q) \cup {t}
              /\ OnceIn(q) /\ t \notin TripsIn(q) => OnceIn(Append(q, m))
<1>1. /\ Append(q, m) \in Seq(S) /\ Range(Append(q, m)) = Range(q) \cup {m}
      /\ \A x : Once(x, q) /\ (x = m => x \notin Range(q)) => Once(x, Append(q, m))
  BY BoxGets
<1>2. PICK r : r = Append(q, m)
  OBVIOUS
<1>3. \A t, u : PickUpMsg(t) = PickUpMsg(u) => t = u
  BY MessageFacts
<1>4. ASSUME m.type # "PickUp" PROVE TripsIn(r) = TripsIn(q) /\ (OnceIn(q) => OnceIn(r))
  <2>1. \A t : PickUpMsg(t) # m
    BY <1>4, MessageFacts
  <2> QED BY <1>1, <1>2, <2>1 DEF TripsIn, OnceIn
<1>5. ASSUME NEW t \in Trips, m = PickUpMsg(t)
      PROVE  /\ TripsIn(r) = TripsIn(q) \cup {t}
             /\ OnceIn(q) /\ t \notin TripsIn(q) => OnceIn(r)
  <2>1. \A u : PickUpMsg(u) = m <=> u = t
    BY <1>3, <1>5
  <2> QED BY <1>1, <1>2, <1>5, <2>1 DEF TripsIn, OnceIn
<1> QED BY <1>1, <1>2, <1>4, <1>5

LEMMA TripsTaken ==
  ASSUME NEW S, NEW q \in Seq(S), q # << >>, OnceIn(q)
  PROVE  /\ Tail(q) \in Seq(S) /\ Head(q) \in S /\ OnceIn(Tail(q))
         /\ Head(q).type # "PickUp" => TripsIn(Tail(q)) = TripsIn(q)
         /\ \A t \in Trips : Head(q) = PickUpMsg(t) =>
              t \in TripsIn(q) /\ TripsIn(Tail(q)) = TripsIn(q) \ {t}
<1>1. PICK r, h : r = Tail(q) /\ h = Head(q)
  OBVIOUS
<1>2. /\ r \in Seq(S) /\ h \in S /\ Range(q) = Range(r) \cup {h}
      /\ \A x : Once(x, q) => Once(x, r)
      /\ Once(h, q) => h \notin Range(r)
  BY <1>1, BoxTaken
<1>3. \A t, u : PickUpMsg(t) = PickUpMsg(u) => t = u
  BY MessageFacts
<1>4. ASSUME h.type # "PickUp" PROVE TripsIn(r) = TripsIn(q)
  <2>1. \A t : PickUpMsg(t) # h
    BY <1>4, MessageFacts
  <2> QED BY <1>2, <2>1 DEF TripsIn
<1>5. ASSUME NEW t \in Trips, h = PickUpMsg(t)
      PROVE  t \in TripsIn(q) /\ TripsIn(r) = TripsIn(q) \ {t}
  <2>1. \A u : PickUpMsg(u) = h <=> u = t
    BY <1>3, <1>5
  <2>2. h \notin Range(r)
    BY <1>2, <1>5 DEF OnceIn
  <2> QED BY <1>2, <1>5, <2>1, <2>2 DEF TripsIn
<1>6. OnceIn(r)
  BY <1>2 DEF OnceIn
<1> QED BY <1>1, <1>2, <1>4, <1>5, <1>6

(* The same for the statuses in the control actor's mailbox.               *)
LEMMA StatusGets ==
  ASSUME NEW S, NEW q \in Seq(S), NEW m \in S, NEW e, NEW s
  PROVE  /\ m.type # "ElevatorStatus" \/ m.id # e =>
              /\ Froms(Append(q, m), e) = Froms(q, e)
              /\ Tells(q, e, s) => Tells(Append(q, m), e, s)
         /\ m.type = "ElevatorStatus" /\ m.id = e /\ m.status = s =>
              /\ Froms(Append(q, m), e) # {}
              /\ Tells(Append(q, m), e, s)
<1>1. PICK r : r = Append(q, m)
  OBVIOUS
<1>2. /\ DOMAIN r = 1..(Len(q) + 1) /\ DOMAIN q = 1..Len(q) /\ Len(q) \in Nat
      /\ \A i \in 1..Len(q) : r[i] = q[i]
      /\ r[Len(q) + 1] = m
  BY <1>1
<1>3. ASSUME m.type # "ElevatorStatus" \/ m.id # e
      PROVE  Froms(r, e) = Froms(q, e) /\ (Tells(q, e, s) => Tells(r, e, s))
  <2>1. Froms(r, e) = Froms(q, e) /\ Froms(q, e) \subseteq 1..Len(q)
    BY <1>2, <1>3 DEF Froms
  <2> QED BY <1>2, <2>1 DEF Tells
<1>4. ASSUME m.type = "ElevatorStatus", m.id = e, m.status = s
      PROVE  Froms(r, e) # {} /\ Tells(r, e, s)
  <2>1. Len(q) + 1 \in Froms(r, e) /\ Froms(r, e) \subseteq 1..(Len(q) + 1)
    BY <1>2, <1>4 DEF Froms
  <2> QED BY <1>2, <1>4, <2>1 DEF Tells
<1> QED BY <1>1, <1>3, <1>4

LEMMA StatusTaken ==
  ASSUME NEW S, NEW q \in Seq(S), q # << >>, NEW e, NEW s, Tells(q, e, s)
  PROVE  /\ Tells(Tail(q), e, s)
         /\ Froms(Tail(q), e) = {} /\ Froms(q, e) # {} =>
              Head(q).type = "ElevatorStatus" /\ Head(q).id = e /\ Head(q).status = s
<1>1. PICK r, h : r = Tail(q) /\ h = Head(q)
  OBVIOUS
<1>2. /\ h = q[1] /\ Len(r) = Len(q) - 1
      /\ DOMAIN r = 1..(Len(q) - 1) /\ DOMAIN q = 1..Len(q) /\ Len(q) \in Nat /\ Len(q) >= 1
      /\ \A i \in 1..(Len(q) - 1) : r[i] = q[i + 1]
  BY <1>1
<1>3. \A i \in Froms(r, e) : i + 1 \in Froms(q, e) /\ i \in 1..(Len(q) - 1)
  BY <1>2 DEF Froms
<1>4. \A i \in Froms(q, e) : i \in 1..Len(q) /\ (i # 1 => i - 1 \in Froms(r, e))
  <2> SUFFICES ASSUME NEW i \in Froms(q, e)
               PROVE  i \in 1..Len(q) /\ (i # 1 => i - 1 \in Froms(r, e))
    OBVIOUS
  <2>1. i \in 1..Len(q) /\ q[i].type = "ElevatorStatus" /\ q[i].id = e
    BY <1>2 DEF Froms
  <2>2. ASSUME i # 1 PROVE i - 1 \in Froms(r, e)
    <3>1. i - 1 \in 1..(Len(q) - 1) /\ (i - 1) + 1 = i
      BY <2>1, <2>2
    <3>2. r[i - 1] = q[i]
      BY <1>2, <3>1
    <3> QED BY <1>2, <2>1, <3>1, <3>2 DEF Froms
  <2> QED BY <2>1, <2>2
<1>5. Tells(r, e, s)
  <2> SUFFICES ASSUME NEW i \in Froms(r, e), \A j \in Froms(r, e) : j <= i
               PROVE  r[i].status = s
    BY DEF Tells
  <2>1. i + 1 \in Froms(q, e) /\ i \in 1..(Len(q) - 1)
    BY <1>3
  <2>2. \A j \in Froms(q, e) : j <= i + 1
    <3> SUFFICES ASSUME NEW j \in Froms(q, e) PROVE j <= i + 1
      OBVIOUS
    <3>1. j \in 1..Len(q) /\ (j # 1 => j - 1 <= i)
      BY <1>4
    <3> QED BY <2>1, <3>1
  <2>3. q[i + 1].status = s
    BY <2>1, <2>2 DEF Tells
  <2> QED BY <1>2, <2>1, <2>3
<1>6. ASSUME Froms(r, e) = {}, Froms(q, e) # {}
      PROVE  h.type = "ElevatorStatus" /\ h.id = e /\ h.status = s
  <2>1. \A i \in Froms(q, e) : i = 1
    BY <1>4, <1>6
  <2>2. 1 \in Froms(q, e) /\ \A j \in Froms(q, e) : j <= 1
    BY <1>6, <2>1
  <2> QED BY <1>2, <2>2 DEF Froms, Tells
<1> QED BY <1>1, <1>5, <1>6

LEMMA OnlyOfNone == \A K : Only(<< >>, K) = << >>
<1> SUFFICES ASSUME NEW K PROVE Only(<< >>, K) = << >>
  OBVIOUS
<1>1. PICK q : q = << >> /\ q \in Seq(Trips)
  <2>1. << >> \in Seq(Trips)
    OBVIOUS
  <2> QED BY <2>1, Zenon
<1>2. Kept(q, K)[0] = << >> /\ Len(q) = 0
  BY <1>1, KeptSteps, ZenonT(40)
<1> QED BY <1>1, <1>2 DEF Only

(* What the proofs use of the cars.                                        *)
LEMMA CarFacts ==
  /\ NewCar \in Car /\ OnceEach(NewCar) /\ Waiting(NewCar) = {} /\ Riding(NewCar) = {}
  /\ Move(NewCar) = NewCar
  /\ \A c \in Car : Snapshot(c) \in Status
  /\ \A c \in Car, t \in Trips : Snapshot(PickUp(c, t)) = Snapshot(c)
<1>1. NewCar \in Car
  BY DEF NewCar, Car, Direction, NoDirection
<1>2. Waiting(NewCar) = {} /\ Riding(NewCar) = {} /\ OnceEach(NewCar)
  BY DEF NewCar, Waiting, Riding, Range, OnceEach, IsInjective
<1>3. Move(NewCar) = NewCar
  <2>1. \A K : Only(<< >>, K) = << >>
    BY OnlyOfNone
  <2>2. /\ NewCar.currentFloor = 0 /\ NewCar.goalFloor = 0 /\ NewCar.direction = NoDirection
        /\ NewCar.pickUpQueue = << >> /\ NewCar.destinationQueue = << >>
    BY DEF NewCar
  <2>3. RemoveOnTheFlyGoals(NewCar) = NewCar
    <3>1. << >> \o << >> = << >>
      OBVIOUS
    <3>2. RemoveOnTheFlyGoals(NewCar) =
            [NewCar EXCEPT !.pickUpQueue = << >>, !.destinationQueue = << >>]
      BY <2>1, <2>2, <3>1 DEF RemoveOnTheFlyGoals
    <3> QED BY <1>1, <2>2, <3>2 DEF Car
  <2>4. SetNewGoal(NewCar) = NewCar
    <3>1. GetNewGoal(NewCar) = 0 /\ DirectionTo(0, 0) = NoDirection
      BY <2>2 DEF GetNewGoal, DirectionTo
    <3>2. SetNewGoal(NewCar) = [NewCar EXCEPT !.goalFloor = 0, !.direction = NoDirection]
      BY <2>2, <3>1 DEF SetNewGoal, IsGoalReached
    <3> QED BY <1>1, <2>2, <3>2 DEF Car
  <2>5. MoveElevator(NoDirection, 0) = 0
    BY DEF MoveElevator, NoDirection, Up, Down
  <2>6. Move(NewCar) = [NewCar EXCEPT !.currentFloor = 0]
    BY <2>2, <2>3, <2>4, <2>5 DEF Move
  <2> QED BY <1>1, <2>2, <2>6 DEF Car
<1>4. \A c \in Car : Snapshot(c) \in Status
  BY DEF Car, Snapshot, Status
<1>5. \A c \in Car, t \in Trips : Snapshot(PickUp(c, t)) = Snapshot(c)
  BY PickUpProperties DEF Snapshot
<1> QED BY <1>1, <1>2, <1>3, <1>4, <1>5

(* A new child's mailbox.                                                  *)
LEMMA FreshFacts ==
  /\ <<StatusMsg>> \in Seq(ToElevator)
  /\ TripsIn(<<StatusMsg>>) = {} /\ OnceIn(<<StatusMsg>>)
<1>1. PICK m : m = StatusMsg
  OBVIOUS
<1>2. m \in ToElevator /\ \A t : PickUpMsg(t) # m
  BY <1>1, MessageFacts, MailFacts
<1>3. <<m>> \in Seq(ToElevator) /\ TripsIn(<<m>>) = {} /\ OnceIn(<<m>>)
  BY <1>2 DEF TripsIn, OnceIn, Once, Range
<1> QED BY <1>1, <1>3

LEMMA InvStarts == Init => Inv
<1> SUFFICES ASSUME Init PROVE Inv
  OBVIOUS
<1>1. /\ car = FreshCars /\ elevatorBox = FreshBoxes /\ elevatorStatus = << >> /\ controlBox = << >>
      /\ unsent = Trips /\ dismissed = {} /\ lost = {} /\ arrived = {} /\ stepsLeft = MaxSteps
      /\ Known = {}
  BY DEF Init, Known
<1>2. TripsIn(<< >>) = {} /\ OnceIn(<< >>) /\ \A e : Froms(<< >>, e) = {}
  BY DEF TripsIn, OnceIn, Once, Range, Froms
<1>3. \A e \in Elevators : /\ car[e] = NewCar /\ elevatorBox[e] \in Seq(ToElevator)
                           /\ TripsIn(elevatorBox[e]) = {} /\ OnceIn(elevatorBox[e])
  BY <1>1, FreshFacts DEF FreshCars, FreshBoxes
<1>4. TypeOK
  BY <1>1, <1>3, CarFacts, BoundsAssumption DEF TypeOK, FreshCars, FreshBoxes
<1>5. OnceInv /\ TravelInv /\ ColdInv
  BY <1>1, <1>2, <1>3, CarFacts DEF OnceInv, TravelInv, ColdInv, Aboard, Sent
<1>6. PlaceInv
  BY <1>1, <1>2, <1>3, CarFacts DEF PlaceInv, With, Aboard, Sent, Asked, Done
<1>7. ViewInv
  BY <1>1, <1>2 DEF ViewInv, Tells
<1> QED BY <1>4, <1>5, <1>6, <1>7 DEF Inv

-----------------------------------------------------------------------------
(* One lemma for each action.  First those that put a message into the     *)
(* control actor's mailbox or an elevator's.                               *)
LEMMA RequestTripKeeps ==
  ASSUME Inv, NEW t \in Trips, RequestTrip(t)
  PROVE  Inv'
<1>1. /\ t \in unsent /\ unsent' = unsent \ {t}
      /\ controlBox' = Append(controlBox, PickUpMsg(t))
      /\ UNCHANGED <<car, elevatorBox, elevatorStatus, dismissed, lost, arrived, stepsLeft>>
  BY DEF RequestTrip, carVars
<1>2. controlBox \in Seq(ToControl) /\ PickUpMsg(t) \in ToControl
  BY MailFacts DEF Inv, TypeOK
<1>3. /\ controlBox' \in Seq(ToControl) /\ OnceIn(controlBox')
      /\ Asked' = Asked \cup {t}
  <2>1. OnceIn(controlBox) /\ t \notin Asked
    BY <1>1 DEF Inv, OnceInv, PlaceInv
  <2> QED BY <1>1, <1>2, <2>1, TripsGet DEF Asked
<1>4. TypeOK' /\ OnceInv' /\ TravelInv' /\ ColdInv'
  BY <1>1, <1>3 DEF Inv, TypeOK, OnceInv, TravelInv, Aboard, ColdInv, Sent, Known
<1>5. PlaceInv'
  <2>1. \A e \in Elevators : With(e)' = With(e) /\ Sent(e)' = Sent(e) /\ Aboard(e)' = Aboard(e)
    BY <1>1 DEF With, Sent, Aboard
  <2>2. Done' = Done
    BY <1>1 DEF Done
  <2> QED BY <1>1, <1>3, <2>1, <2>2 DEF Inv, PlaceInv
<1>6. ViewInv'
  BY <1>1, <1>2, StatusGets, MessageFacts DEF Inv, ViewInv, Known
<1> QED BY <1>4, <1>5, <1>6 DEF Inv

LEMMA RequestStepKeeps ==
  ASSUME Inv, RequestStep
  PROVE  Inv'
<1>1. /\ stepsLeft > 0 /\ stepsLeft' = stepsLeft - 1
      /\ controlBox' = Append(controlBox, StepMsg)
      /\ UNCHANGED <<car, elevatorBox, elevatorStatus, unsent, dismissed, lost, arrived>>
  BY DEF RequestStep, carVars, ledger
<1>2. controlBox \in Seq(ToControl) /\ StepMsg \in ToControl
  BY MailFacts DEF Inv, TypeOK
<1>3. /\ controlBox' \in Seq(ToControl) /\ OnceIn(controlBox')
      /\ Asked' = Asked
  BY <1>1, <1>2, TripsGet, MessageFacts DEF Asked, Inv, OnceInv
<1>4. TypeOK' /\ OnceInv' /\ TravelInv' /\ ColdInv'
  BY <1>1, <1>3, BoundsAssumption DEF Inv, TypeOK, OnceInv, TravelInv, Aboard, ColdInv, Sent, Known
<1>5. PlaceInv'
  BY <1>1, <1>3 DEF Inv, PlaceInv, With, Sent, Aboard, Done
<1>6. ViewInv'
  BY <1>1, <1>2, StatusGets, MessageFacts DEF Inv, ViewInv, Known
<1> QED BY <1>4, <1>5, <1>6 DEF Inv

(* Step messages in the elevators' mailboxes hold no trips.                *)
LEMMA StepsSent ==
  ASSUME Inv, NEW S \in SUBSET Elevators,
         elevatorBox' = [e \in Elevators |-> IF e \in S THEN Append(elevatorBox[e], StepMsg)
                                             ELSE elevatorBox[e]]
  PROVE  /\ elevatorBox' \in [Elevators -> Seq(ToElevator)]
         /\ \A e \in Elevators : OnceIn(elevatorBox'[e]) /\ Sent(e)' = Sent(e)
<1> SUFFICES ASSUME NEW e \in Elevators
             PROVE  /\ elevatorBox'[e] \in Seq(ToElevator) /\ OnceIn(elevatorBox'[e])
                    /\ TripsIn(elevatorBox'[e]) = TripsIn(elevatorBox[e])
  BY DEF Sent
<1>1. elevatorBox[e] \in Seq(ToElevator) /\ OnceIn(elevatorBox[e]) /\ StepMsg \in ToElevator
  BY MailFacts DEF Inv, TypeOK, OnceInv
<1> QED BY <1>1, TripsGet, MessageFacts

LEMMA TickKeeps ==
  ASSUME Inv, NEW e \in Elevators, Tick(e)
  PROVE  Inv'
<1>1. UNCHANGED <<car, elevatorStatus, controlBox, unsent, dismissed, lost, arrived, stepsLeft>>
  BY DEF Tick, controlVars, ledger
<1>2. /\ elevatorBox' \in [Elevators -> Seq(ToElevator)]
      /\ \A f \in Elevators : OnceIn(elevatorBox'[f]) /\ Sent(f)' = Sent(f)
  <2>1. elevatorBox' = [f \in Elevators |-> IF f \in {e} THEN Append(elevatorBox[f], StepMsg)
                                            ELSE elevatorBox[f]]
    BY DEF Tick, Inv, TypeOK
  <2> QED BY <2>1, StepsSent
<1>3. TypeOK' /\ OnceInv' /\ TravelInv' /\ ColdInv' /\ ViewInv'
  BY <1>1, <1>2 DEF Inv, TypeOK, OnceInv, TravelInv, Aboard, ColdInv, Sent, Known, ViewInv
<1>4. PlaceInv'
  BY <1>1, <1>2 DEF Inv, PlaceInv, With, Aboard, Asked, Done, Sent
<1> QED BY <1>3, <1>4 DEF Inv

-----------------------------------------------------------------------------
(* The control actor takes a message from its mailbox.                     *)
LEMMA ControlTakes ==
  ASSUME Inv, controlBox # << >>, TakeFromControlBox
  PROVE  LET m == Head(controlBox)
         IN  /\ m \in ToControl /\ controlBox' \in Seq(ToControl) /\ OnceIn(controlBox')
             /\ m.type # "PickUp" => Asked' = Asked
             /\ m.type = "PickUp" => /\ m.trip \in Trips /\ m = PickUpMsg(m.trip)
                                     /\ m.trip \in Asked /\ Asked' = Asked \ {m.trip}
             /\ \A e \in Elevators :
                  /\ Tells(controlBox', e, Snapshot(car[e]))
                  /\ Froms(controlBox', e) = {} /\ Froms(controlBox, e) # {} =>
                       m.type = "ElevatorStatus" /\ m.id = e /\ m.status = Snapshot(car[e])
<1>1. PICK m : m = Head(controlBox)
  OBVIOUS
<1>2. controlBox \in Seq(ToControl) /\ OnceIn(controlBox) /\ controlBox' = Tail(controlBox)
  BY DEF Inv, TypeOK, OnceInv, TakeFromControlBox
<1>3. /\ m \in ToControl /\ controlBox' \in Seq(ToControl) /\ OnceIn(controlBox')
      /\ m.type # "PickUp" => Asked' = Asked
      /\ \A t \in Trips : m = PickUpMsg(t) => t \in Asked /\ Asked' = Asked \ {t}
  BY <1>1, <1>2, TripsTaken DEF Asked
<1>4. m.type = "PickUp" => m.trip \in Trips /\ m = PickUpMsg(m.trip)
  BY <1>3, MailFacts
<1>5. ASSUME NEW e \in Elevators
      PROVE  /\ Tells(controlBox', e, Snapshot(car[e]))
             /\ Froms(controlBox', e) = {} /\ Froms(controlBox, e) # {} =>
                  m.type = "ElevatorStatus" /\ m.id = e /\ m.status = Snapshot(car[e])
  <2>1. Tells(controlBox, e, Snapshot(car[e]))
    BY DEF Inv, ViewInv
  <2> QED BY <1>1, <1>2, <2>1, StatusTaken
<1> QED BY <1>1, <1>3, <1>4, <1>5

LEMMA ReceiveStatusKeeps ==
  ASSUME Inv, ReceiveStatus
  PROVE  Inv'
<1>1. PICK m : m = Head(controlBox)
  OBVIOUS
<1>2. /\ controlBox # << >> /\ m.type = "ElevatorStatus" /\ TakeFromControlBox
      /\ UNCHANGED <<car, elevatorBox, unsent, dismissed, lost, arrived, stepsLeft>>
      /\ elevatorStatus' = [e \in Known \cup {m.id} |->
                              IF e = m.id THEN m.status ELSE elevatorStatus[e]]
  BY <1>1 DEF ReceiveStatus, NextToControl, carVars, ledger
<1>3. /\ m \in ToControl /\ controlBox' \in Seq(ToControl) /\ OnceIn(controlBox') /\ Asked' = Asked
      /\ \A e \in Elevators :
           /\ Tells(controlBox', e, Snapshot(car[e]))
           /\ Froms(controlBox', e) = {} /\ Froms(controlBox, e) # {} =>
                m.id = e /\ m.status = Snapshot(car[e])
  BY <1>1, <1>2, ControlTakes
<1>4. m.id \in Elevators /\ m.status \in Status
  BY <1>2, <1>3, MailFacts
<1>5. /\ Known' = Known \cup {m.id} /\ elevatorStatus'[m.id] = m.status
      /\ \A e \in Known : e # m.id => elevatorStatus'[e] = elevatorStatus[e]
  BY <1>2 DEF Known
<1>6. TypeOK' /\ OnceInv' /\ TravelInv' /\ ColdInv'
  BY <1>2, <1>3, <1>4, <1>5 DEF Inv, TypeOK, OnceInv, TravelInv, Aboard, ColdInv
<1>7. PlaceInv'
  <2>1. \A e \in Elevators : With(e)' = With(e) /\ Sent(e)' = Sent(e) /\ Aboard(e)' = Aboard(e)
    BY <1>2 DEF With, Sent, Aboard
  <2>2. Done' = Done
    BY <1>2 DEF Done
  <2> QED BY <1>2, <1>3, <2>1, <2>2 DEF Inv, PlaceInv
<1>8. ViewInv'
  <2> SUFFICES ASSUME NEW e \in Elevators
               PROVE  /\ Tells(controlBox', e, Snapshot(car[e]))
                      /\ Froms(controlBox', e) = {} /\ e \in Known' =>
                           elevatorStatus'[e] = Snapshot(car[e])
    BY <1>2 DEF ViewInv
  <2>1. CASE e = m.id
    <3>1. Froms(controlBox, e) # {}
      <4>1. controlBox \in Seq(ToControl)
        BY DEF Inv, TypeOK
      <4>2. 1 \in DOMAIN controlBox /\ controlBox[1] = m
        BY <1>1, <1>2, <4>1
      <4> QED BY <1>2, <2>1, <4>2 DEF Froms
    <3> QED BY <1>3, <1>5, <2>1, <3>1
  <2>2. CASE e # m.id
    <3>1. Froms(controlBox, e) = {} /\ e \in Known => elevatorStatus[e] = Snapshot(car[e])
      BY DEF Inv, ViewInv
    <3> QED BY <1>3, <1>5, <2>2, <3>1
  <2> QED BY <2>1, <2>2
<1> QED BY <1>6, <1>7, <1>8 DEF Inv

LEMMA ReceiveStepKeeps ==
  ASSUME Inv, ReceiveStep
  PROVE  Inv'
<1>1. /\ controlBox # << >> /\ Head(controlBox).type = "Step" /\ TakeFromControlBox
      /\ UNCHANGED <<car, elevatorStatus, unsent, dismissed, lost, arrived, stepsLeft>>
      /\ elevatorBox' = [e \in Elevators |-> Append(elevatorBox[e], StepMsg)]
  BY DEF ReceiveStep, NextToControl, ledger
<1>2. /\ controlBox' \in Seq(ToControl) /\ OnceIn(controlBox') /\ Asked' = Asked
      /\ \A e \in Elevators :
           /\ Tells(controlBox', e, Snapshot(car[e]))
           /\ Froms(controlBox', e) = {} => Froms(controlBox, e) = {}
  BY <1>1, ControlTakes
<1>3. /\ elevatorBox' \in [Elevators -> Seq(ToElevator)]
      /\ \A e \in Elevators : OnceIn(elevatorBox'[e]) /\ Sent(e)' = Sent(e)
  <2>1. elevatorBox' = [e \in Elevators |-> IF e \in Elevators THEN Append(elevatorBox[e], StepMsg)
                                            ELSE elevatorBox[e]]
    BY <1>1
  <2> QED BY <2>1, StepsSent
<1>4. TypeOK' /\ OnceInv' /\ TravelInv' /\ ColdInv' /\ ViewInv'
  BY <1>1, <1>2, <1>3 DEF Inv, TypeOK, OnceInv, TravelInv, Aboard, ColdInv, Sent, Known, ViewInv
<1>5. PlaceInv'
  <2>1. \A e \in Elevators : With(e)' = With(e) /\ Sent(e)' = Sent(e) /\ Aboard(e)' = Aboard(e)
    BY <1>1, <1>3 DEF With, Aboard, Sent
  <2>2. Done' = Done
    BY <1>1 DEF Done
  <2> QED BY <1>1, <1>2, <2>1, <2>2 DEF Inv, PlaceInv
<1> QED BY <1>4, <1>5 DEF Inv

(* Routing: the trip goes from the control actor's mailbox into one of an  *)
(* elevator the actor knows.                                               *)
LEMMA NearestAreKnown == \A t : NearestElevators(t) \subseteq Known
BY DEF NearestElevators, Closest, Approaching

LEMMA RouteEffect ==
  ASSUME Inv, RouteTrip
  PROVE  \E t \in Trips, e \in Elevators :
           /\ e \in Known /\ controlBox # << >> /\ TakeFromControlBox
           /\ Head(controlBox).type = "PickUp" /\ Head(controlBox).trip = t
           /\ UNCHANGED <<car, elevatorStatus, unsent, dismissed, lost, arrived, stepsLeft>>
           /\ t \in Asked /\ Asked' = Asked \ {t}
           /\ elevatorBox' \in [Elevators -> Seq(ToElevator)]
           /\ \A f \in Elevators : OnceIn(elevatorBox'[f])
           /\ Sent(e)' = Sent(e) \cup {t}
           /\ \A f \in Elevators \ {e} : Sent(f)' = Sent(f)
<1>1. PICK m : m = Head(controlBox)
  OBVIOUS
<1>2. /\ controlBox # << >> /\ m.type = "PickUp" /\ TakeFromControlBox
      /\ UNCHANGED <<car, elevatorStatus, unsent, dismissed, lost, arrived, stepsLeft>>
  BY <1>1 DEF RouteTrip, NextToControl, ledger
<1>3. PICK e \in NearestElevators(m.trip) :
        elevatorBox' = [elevatorBox EXCEPT ![e] = Append(elevatorBox[e], m)]
  BY <1>1 DEF RouteTrip
<1>4. e \in Known /\ e \in Elevators
  BY NearestAreKnown DEF Inv, TypeOK
<1>5. PICK t \in Trips : t = m.trip /\ m = PickUpMsg(t) /\ t \in Asked /\ Asked' = Asked \ {t}
  BY <1>1, <1>2, ControlTakes
<1>6. t \notin Sent(e)
  BY <1>4, <1>5 DEF Inv, PlaceInv, With
<1>7. /\ elevatorBox \in [Elevators -> Seq(ToElevator)] /\ m \in ToElevator
      /\ \A f \in Elevators : OnceIn(elevatorBox[f])
  BY <1>5, MailFacts DEF Inv, TypeOK, OnceInv
<1>8. /\ elevatorBox'[e] \in Seq(ToElevator) /\ OnceIn(elevatorBox'[e])
      /\ TripsIn(elevatorBox'[e]) = TripsIn(elevatorBox[e]) \cup {t}
  BY <1>3, <1>4, <1>5, <1>6, <1>7, TripsGet DEF Sent
<1>9. elevatorBox' \in [Elevators -> Seq(ToElevator)]
  BY <1>3, <1>4, <1>7, <1>8
<1>10. \A f \in Elevators \ {e} : elevatorBox'[f] = elevatorBox[f]
  BY <1>3, <1>7
<1> QED BY <1>1, <1>2, <1>4, <1>5, <1>7, <1>8, <1>9, <1>10 DEF Sent

LEMMA RouteTripKeeps ==
  ASSUME Inv, RouteTrip
  PROVE  Inv'
<1>1. PICK t \in Trips, e \in Elevators :
        /\ e \in Known /\ controlBox # << >> /\ TakeFromControlBox
        /\ Head(controlBox).type = "PickUp" /\ Head(controlBox).trip = t
        /\ UNCHANGED <<car, elevatorStatus, unsent, dismissed, lost, arrived, stepsLeft>>
        /\ t \in Asked /\ Asked' = Asked \ {t}
        /\ elevatorBox' \in [Elevators -> Seq(ToElevator)]
        /\ \A f \in Elevators : OnceIn(elevatorBox'[f])
        /\ Sent(e)' = Sent(e) \cup {t}
        /\ \A f \in Elevators \ {e} : Sent(f)' = Sent(f)
  BY RouteEffect
<1>2. /\ controlBox' \in Seq(ToControl) /\ OnceIn(controlBox')
      /\ \A f \in Elevators :
           /\ Tells(controlBox', f, Snapshot(car[f]))
           /\ Froms(controlBox', f) = {} => Froms(controlBox, f) = {}
  BY <1>1, ControlTakes
<1>3. TypeOK' /\ OnceInv' /\ TravelInv' /\ ColdInv' /\ ViewInv'
  BY <1>1, <1>2 DEF Inv, TypeOK, OnceInv, TravelInv, Aboard, ColdInv, Known, ViewInv
<1>4. PlaceInv'
  <2>1. /\ \A f \in Elevators : Aboard(f)' = Aboard(f) /\ With(f) = Sent(f) \cup Aboard(f)
        /\ \A f \in Elevators : With(f)' = IF f = e THEN With(f) \cup {t} ELSE With(f)
    BY <1>1 DEF With, Aboard
  <2>2. Done' = Done /\ t \in Asked
    BY <1>1 DEF Done
  <2> QED BY <1>1, <2>1, <2>2, SMTT(30) DEF Inv, PlaceInv
<1> QED BY <1>3, <1>4 DEF Inv

(* The restart: the children are as new, and stay so.                      *)
LEMMA RestartEffect ==
  ASSUME Inv, Restart
  PROVE  \E t \in Trips :
           /\ controlBox # << >> /\ TakeFromControlBox
           /\ Head(controlBox).type = "PickUp" /\ Head(controlBox).trip = t
           /\ t \in Asked /\ Asked' = Asked \ {t} /\ lost' = lost \cup {t}
           /\ UNCHANGED <<car, unsent, dismissed, arrived, stepsLeft>>
           /\ elevatorBox' \in [Elevators -> Seq(ToElevator)]
           /\ \A e \in Elevators : /\ car[e] = NewCar /\ OnceIn(elevatorBox'[e])
                                   /\ Sent(e) = {} /\ Sent(e)' = {}
           /\ Known' = {}
<1>1. PICK m : m = Head(controlBox)
  OBVIOUS
<1>2. /\ controlBox # << >> /\ m.type = "PickUp" /\ TakeFromControlBox /\ Known = {}
      /\ lost' = lost \cup {m.trip} /\ car' = FreshCars /\ elevatorBox' = FreshBoxes
      /\ elevatorStatus' = << >>
      /\ UNCHANGED <<unsent, dismissed, arrived, stepsLeft>>
  BY <1>1 DEF Restart, NextToControl
<1>3. PICK t \in Trips : t = m.trip /\ t \in Asked /\ Asked' = Asked \ {t}
  BY <1>1, <1>2, ControlTakes
<1>4. \A e \in Elevators : car[e] = NewCar /\ Sent(e) = {}
  BY <1>2 DEF Inv, ColdInv
<1>5. car' = car
  BY <1>2, <1>4 DEF FreshCars, Inv, TypeOK
<1>6. \A e \in Elevators : elevatorBox'[e] = <<StatusMsg>>
  BY <1>2 DEF FreshBoxes
<1>7. /\ elevatorBox' \in [Elevators -> Seq(ToElevator)]
      /\ \A e \in Elevators : OnceIn(elevatorBox'[e]) /\ Sent(e)' = {}
  BY <1>2, <1>6, FreshFacts DEF FreshBoxes, Sent
<1>8. Known' = {}
  BY <1>2 DEF Known
<1> QED BY <1>1, <1>2, <1>3, <1>4, <1>5, <1>7, <1>8

LEMMA RestartKeeps ==
  ASSUME Inv, Restart
  PROVE  Inv'
<1>1. PICK t \in Trips :
        /\ controlBox # << >> /\ TakeFromControlBox
        /\ Head(controlBox).type = "PickUp" /\ Head(controlBox).trip = t
        /\ t \in Asked /\ Asked' = Asked \ {t} /\ lost' = lost \cup {t}
        /\ UNCHANGED <<car, unsent, dismissed, arrived, stepsLeft>>
        /\ elevatorBox' \in [Elevators -> Seq(ToElevator)]
        /\ \A e \in Elevators : /\ car[e] = NewCar /\ OnceIn(elevatorBox'[e])
                                /\ Sent(e) = {} /\ Sent(e)' = {}
        /\ Known' = {}
  BY RestartEffect
<1>2. /\ controlBox' \in Seq(ToControl) /\ OnceIn(controlBox')
      /\ \A e \in Elevators : Tells(controlBox', e, Snapshot(car[e]))
  BY <1>1, ControlTakes
<1>3. TypeOK' /\ OnceInv' /\ TravelInv' /\ ColdInv' /\ ViewInv'
  BY <1>1, <1>2 DEF Inv, TypeOK, OnceInv, TravelInv, Aboard, ColdInv, ViewInv
<1>4. PlaceInv'
  <2>1. \A e \in Elevators : With(e)' = With(e) /\ Sent(e)' = Sent(e) /\ Aboard(e)' = Aboard(e)
    BY <1>1 DEF With, Aboard
  <2>2. Done' = Done \cup {t}
    BY <1>1 DEF Done
  <2>3. t \notin unsent \cup Done /\ \A e \in Elevators : t \notin With(e)
    BY <1>1 DEF Inv, PlaceInv
  <2>4. dismissed' \cap (lost' \cup arrived') = {} /\ lost' \cap arrived' = {}
    BY <1>1, <2>3 DEF Inv, PlaceInv, Done
  <2> QED BY <1>1, <2>1, <2>2, <2>3, <2>4 DEF Inv, PlaceInv
<1> QED BY <1>3, <1>4 DEF Inv

-----------------------------------------------------------------------------
(* An elevator takes a message from its mailbox.                           *)
LEMMA ElevatorTakes ==
  ASSUME Inv, NEW e \in Elevators, elevatorBox[e] # << >>, TakeFromBox(e)
  PROVE  LET m == Head(elevatorBox[e])
         IN  /\ m \in ToElevator
             /\ elevatorBox' \in [Elevators -> Seq(ToElevator)]
             /\ \A f \in Elevators : OnceIn(elevatorBox'[f])
             /\ \A f \in Elevators \ {e} : Sent(f)' = Sent(f)
             /\ m.type # "PickUp" => Sent(e)' = Sent(e)
             /\ m.type = "PickUp" => /\ m.trip \in Trips /\ m = PickUpMsg(m.trip)
                                     /\ m.trip \in Sent(e) /\ Sent(e)' = Sent(e) \ {m.trip}
<1>1. PICK q, m : q = elevatorBox[e] /\ m = Head(q)
  OBVIOUS
<1>2. /\ q \in Seq(ToElevator) /\ q # << >> /\ OnceIn(q)
      /\ elevatorBox \in [Elevators -> Seq(ToElevator)]
      /\ \A f \in Elevators : OnceIn(elevatorBox[f])
      /\ elevatorBox' = [elevatorBox EXCEPT ![e] = Tail(q)]
  BY <1>1 DEF Inv, TypeOK, OnceInv, TakeFromBox
<1>3. /\ Tail(q) \in Seq(ToElevator) /\ OnceIn(Tail(q)) /\ m \in ToElevator
      /\ m.type # "PickUp" => TripsIn(Tail(q)) = TripsIn(q)
      /\ \A t \in Trips : m = PickUpMsg(t) => t \in TripsIn(q) /\ TripsIn(Tail(q)) = TripsIn(q) \ {t}
  BY <1>1, <1>2, TripsTaken
<1>4. elevatorBox'[e] = Tail(q) /\ \A f \in Elevators \ {e} : elevatorBox'[f] = elevatorBox[f]
  BY <1>2
<1>5. elevatorBox' \in [Elevators -> Seq(ToElevator)] /\ \A f \in Elevators : OnceIn(elevatorBox'[f])
  <2> HIDE DEF ToElevator
  <2>1. elevatorBox' \in [Elevators -> Seq(ToElevator)]
    BY <1>2, <1>3
  <2>2. \A f \in Elevators : OnceIn(elevatorBox'[f])
    BY <1>2, <1>3, <1>4
  <2> QED BY <2>1, <2>2
<1>6. m.type = "PickUp" => m.trip \in Trips /\ m = PickUpMsg(m.trip)
  BY <1>3, MailFacts
<1> QED BY <1>1, <1>3, <1>4, <1>5, <1>6 DEF Sent

(* An elevator that reports tells what its car does from then on.          *)
LEMMA ElevatorReports ==
  ASSUME Inv, NEW e \in Elevators, NEW c \in Car, SendStatus(e, c), car' = [car EXCEPT ![e] = c],
         UNCHANGED elevatorStatus
  PROVE  /\ controlBox' \in Seq(ToControl) /\ OnceIn(controlBox') /\ Asked' = Asked
         /\ ViewInv'
<1>1. PICK m : m = ElevatorStatusMsg(e, c)
  OBVIOUS
<1>2. /\ m \in ToControl /\ m.type = "ElevatorStatus" /\ m.id = e /\ m.status = Snapshot(c)
      /\ controlBox \in Seq(ToControl) /\ OnceIn(controlBox) /\ controlBox' = Append(controlBox, m)
      /\ car \in [Elevators -> Car]
  BY <1>1, MessageFacts, MailFacts DEF SendStatus, Inv, TypeOK, OnceInv
<1>3. controlBox' \in Seq(ToControl) /\ OnceIn(controlBox') /\ Asked' = Asked
  BY <1>2, TripsGet DEF Asked
<1>4. ASSUME NEW f \in Elevators
      PROVE  /\ Tells(controlBox', f, Snapshot(car'[f]))
             /\ Froms(controlBox', f) = {} /\ f \in Known => elevatorStatus[f] = Snapshot(car'[f])
  <2>1. CASE f = e
    BY <1>2, <2>1, StatusGets
  <2>2. CASE f # e
    <3>1. /\ Tells(controlBox, f, Snapshot(car[f]))
          /\ Froms(controlBox, f) = {} /\ f \in Known => elevatorStatus[f] = Snapshot(car[f])
      BY DEF Inv, ViewInv
    <3>2. car'[f] = car[f]
      BY <1>2, <2>2
    <3> QED BY <1>2, <2>2, <3>1, <3>2, StatusGets
  <2> QED BY <2>1, <2>2
<1>5. ViewInv'
  BY <1>4 DEF ViewInv, Known
<1> QED BY <1>3, <1>5

LEMMA ReportsStatusKeeps ==
  ASSUME Inv, NEW e \in Elevators, ElevatorReportsStatus(e)
  PROVE  Inv'
<1>1. /\ elevatorBox[e] # << >> /\ Head(elevatorBox[e]).type = "Status" /\ TakeFromBox(e)
      /\ SendStatus(e, car[e])
      /\ UNCHANGED <<car, elevatorStatus, unsent, dismissed, lost, arrived, stepsLeft>>
  BY DEF ElevatorReportsStatus, NextTo, ledger
<1>2. /\ elevatorBox' \in [Elevators -> Seq(ToElevator)]
      /\ \A f \in Elevators : OnceIn(elevatorBox'[f]) /\ Sent(f)' = Sent(f)
  BY <1>1, ElevatorTakes
<1>3. /\ controlBox' \in Seq(ToControl) /\ OnceIn(controlBox') /\ Asked' = Asked
      /\ ViewInv'
  <2>1. car[e] \in Car /\ car' = [car EXCEPT ![e] = car[e]]
    BY <1>1 DEF Inv, TypeOK
  <2> QED BY <1>1, <2>1, ElevatorReports
<1>4. TypeOK' /\ OnceInv' /\ TravelInv' /\ ColdInv'
  BY <1>1, <1>2, <1>3 DEF Inv, TypeOK, OnceInv, TravelInv, Aboard, ColdInv, Sent, Known
<1>5. PlaceInv'
  <2>1. \A f \in Elevators : With(f)' = With(f) /\ Sent(f)' = Sent(f) /\ Aboard(f)' = Aboard(f)
    BY <1>1, <1>2 DEF With, Aboard, Sent
  <2>2. Done' = Done
    BY <1>1 DEF Done
  <2> QED BY <1>1, <1>3, <2>1, <2>2 DEF Inv, PlaceInv
<1> QED BY <1>3, <1>4, <1>5 DEF Inv

(* A pick-up: the trip goes from the mailbox into the car, or it leads     *)
(* nowhere.  The elevator is no longer one the control actor knows nothing *)
(* of.                                                                     *)
LEMMA PickUpEffect ==
  ASSUME Inv, NEW e \in Elevators, ElevatorPicksUp(e)
  PROVE  \E t \in Trips :
           /\ elevatorBox[e] # << >> /\ Head(elevatorBox[e]).trip = t
           /\ t \in Sent(e) /\ Sent(e)' = Sent(e) \ {t} /\ Known # {}
           /\ \A f \in Elevators \ {e} : Sent(f)' = Sent(f)
           /\ elevatorBox' \in [Elevators -> Seq(ToElevator)]
           /\ \A f \in Elevators : OnceIn(elevatorBox'[f])
           /\ UNCHANGED <<elevatorStatus, controlBox, unsent, lost, arrived, stepsLeft>>
           /\ \/ IsTrip(t) /\ car' = [car EXCEPT ![e] = PickUp(car[e], t)] /\ dismissed' = dismissed
              \/ ~IsTrip(t) /\ car' = car /\ dismissed' = dismissed \cup {t}
<1>1. /\ elevatorBox[e] # << >> /\ Head(elevatorBox[e]).type = "PickUp" /\ TakeFromBox(e)
      /\ UNCHANGED <<elevatorStatus, controlBox, unsent, lost, arrived, stepsLeft>>
  BY DEF ElevatorPicksUp, NextTo, controlVars
<1>2. PICK t \in Trips : /\ t = Head(elevatorBox[e]).trip
                         /\ t \in Sent(e) /\ Sent(e)' = Sent(e) \ {t}
  BY <1>1, ElevatorTakes
<1>3. /\ \A f \in Elevators \ {e} : Sent(f)' = Sent(f)
      /\ elevatorBox' \in [Elevators -> Seq(ToElevator)]
      /\ \A f \in Elevators : OnceIn(elevatorBox'[f])
  BY <1>1, ElevatorTakes
<1>4. \/ IsTrip(t) /\ car' = [car EXCEPT ![e] = PickUp(car[e], t)] /\ dismissed' = dismissed
      \/ ~IsTrip(t) /\ car' = car /\ dismissed' = dismissed \cup {t}
  BY <1>2 DEF ElevatorPicksUp
<1>5. Known # {}
  BY <1>2 DEF Inv, ColdInv
<1> QED BY <1>1, <1>2, <1>3, <1>4, <1>5

LEMMA PicksUpKeeps ==
  ASSUME Inv, NEW e \in Elevators, ElevatorPicksUp(e)
  PROVE  Inv'
<1>1. PICK t \in Trips :
        /\ elevatorBox[e] # << >> /\ Head(elevatorBox[e]).trip = t
        /\ t \in Sent(e) /\ Sent(e)' = Sent(e) \ {t} /\ Known # {}
        /\ \A f \in Elevators \ {e} : Sent(f)' = Sent(f)
        /\ elevatorBox' \in [Elevators -> Seq(ToElevator)]
        /\ \A f \in Elevators : OnceIn(elevatorBox'[f])
        /\ UNCHANGED <<elevatorStatus, controlBox, unsent, lost, arrived, stepsLeft>>
        /\ \/ IsTrip(t) /\ car' = [car EXCEPT ![e] = PickUp(car[e], t)] /\ dismissed' = dismissed
           \/ ~IsTrip(t) /\ car' = car /\ dismissed' = dismissed \cup {t}
  BY PickUpEffect
<1>2. /\ car \in [Elevators -> Car] /\ OnceEach(car[e])
      /\ t \notin Aboard(e) /\ t \notin unsent \cup Done \cup Asked
  BY <1>1 DEF Inv, TypeOK, OnceInv, PlaceInv, With
<1>3. ColdInv' /\ Asked' = Asked
  BY <1>1 DEF ColdInv, Known, Asked
<1>4. CASE IsTrip(t) /\ car' = [car EXCEPT ![e] = PickUp(car[e], t)] /\ dismissed' = dismissed
  <2>1. /\ car'[e] \in Car /\ OnceEach(car'[e]) /\ Snapshot(car'[e]) = Snapshot(car[e])
        /\ Waiting(car'[e]) = Waiting(car[e]) \cup {t} /\ Riding(car'[e]) = Riding(car[e])
    BY <1>2, <1>4, PickUpProperties, CarFacts DEF Aboard
  <2>2. car' \in [Elevators -> Car] /\ \A f \in Elevators \ {e} : car'[f] = car[f]
    BY <1>2, <1>4, <2>1
  <2>3. /\ Aboard(e)' = Aboard(e) \cup {t}
        /\ \A f \in Elevators \ {e} : Aboard(f)' = Aboard(f)
    BY <2>1, <2>2 DEF Aboard
  <2>4. TypeOK' /\ OnceInv' /\ TravelInv'
    <3>1. TypeOK'
      BY <1>1, <1>4, <2>2 DEF Inv, TypeOK, Known
    <3>2. OnceInv'
      BY <1>1, <1>4, <2>1, <2>2 DEF Inv, OnceInv
    <3>3. TravelInv'
      BY <1>4, <2>3 DEF Inv, TravelInv
    <3> QED BY <3>1, <3>2, <3>3
  <2>5. PlaceInv'
    <3>1. \A f \in Elevators : With(f)' = With(f) /\ Sent(f)' \cap Aboard(f)' = {}
      <4>1. \A f \in Elevators : Sent(f) \cap Aboard(f) = {}
        BY DEF Inv, PlaceInv
      <4> QED BY <1>1, <1>2, <2>3, <4>1 DEF With
    <3>2. Done' = Done
      BY <1>1, <1>4 DEF Done
    <3> QED BY <1>1, <1>3, <1>4, <3>1, <3>2 DEF Inv, PlaceInv
  <2>6. ViewInv'
    BY <1>1, <2>1, <2>2 DEF Inv, ViewInv, Known
  <2> QED BY <1>3, <2>4, <2>5, <2>6 DEF Inv
<1>5. CASE ~IsTrip(t) /\ car' = car /\ dismissed' = dismissed \cup {t}
  <2>1. TypeOK' /\ OnceInv' /\ TravelInv' /\ ViewInv'
    BY <1>1, <1>5 DEF Inv, TypeOK, OnceInv, TravelInv, Aboard, ViewInv, Known
  <2>2. /\ \A f \in Elevators : Aboard(f)' = Aboard(f)
        /\ \A f \in Elevators \ {e} : With(f)' = With(f)
        /\ With(e)' = With(e) \ {t} /\ t \in With(e)
    BY <1>1, <1>2, <1>5 DEF Aboard, With
  <2>3. PlaceInv'
    <3>1. Done' = Done \cup {t} /\ dismissed' \cap (lost' \cup arrived') = {}
      BY <1>1, <1>2, <1>5 DEF Done, Inv, PlaceInv
    <3>2. \A f \in Elevators : Sent(f)' \cap Aboard(f)' = {}
      BY <1>1, <2>2 DEF Inv, PlaceInv
    <3>3. \A f \in Elevators : With(f)' = IF f = e THEN With(f) \ {t} ELSE With(f)
      BY <2>2
    <3>4. \A u \in Trips : \/ u \in Asked' \cup unsent' \cup Done'
                           \/ \E f \in Elevators : u \in With(f)'
      <4>1. \A u \in Trips : u \in Asked \cup unsent \cup Done \/ \E f \in Elevators : u \in With(f)
        BY DEF Inv, PlaceInv
      <4> QED BY <1>1, <1>3, <3>1, <3>3, <4>1
    <3>5. /\ \A f \in Elevators : With(f)' \cap (Asked' \cup unsent' \cup Done') = {}
          /\ \A f, g \in Elevators : f # g => With(f)' \cap With(g)' = {}
      <4>1. /\ \A f \in Elevators : With(f) \cap (Asked \cup unsent \cup Done) = {}
            /\ \A f, g \in Elevators : f # g => With(f) \cap With(g) = {}
        BY DEF Inv, PlaceInv
      <4>2. \A f, g \in Elevators : f # g => With(f)' \cap With(g)' = {}
        BY <3>3, <4>1
      <4>3. ASSUME NEW f \in Elevators PROVE With(f)' \cap (Asked' \cup unsent' \cup Done') = {}
        <5>1. With(f) \cap (Asked \cup unsent \cup Done) = {} /\ (f # e => t \notin With(f))
          BY <2>2, <4>1
        <5> QED BY <1>1, <1>3, <3>1, <3>3, <5>1
      <4> QED BY <4>2, <4>3
    <3> QED BY <1>1, <1>2, <1>3, <3>1, <3>2, <3>4, <3>5 DEF Inv, PlaceInv
  <2> QED BY <1>3, <2>1, <2>3 DEF Inv
<1> QED BY <1>1, <1>4, <1>5

(* A move: who gets in was waiting, who gets out has arrived.              *)
LEMMA MoveFacts ==
  ASSUME NEW c \in Car, OnceEach(c)
  PROVE  LET entering == {t \in Waiting(c) : t.from = c.currentFloor}
         IN  /\ Move(c) \in Car /\ OnceEach(Move(c))
             /\ Waiting(Move(c)) = Waiting(c) \ entering
             /\ Riding(Move(c)) = {t \in Riding(c) \cup entering : t.to # c.currentFloor}
<1> DEFINE r == RemoveOnTheFlyGoals(c)
<1>1. /\ Move(c) \in Car
      /\ Move(c).pickUpQueue = r.pickUpQueue /\ Move(c).destinationQueue = r.destinationQueue
      /\ OnceEach(r)
      /\ Waiting(r) = {t \in Waiting(c) : t.from # c.currentFloor}
      /\ Riding(r) = {t \in Riding(c) \cup {u \in Waiting(c) : u.from = c.currentFloor} :
                         t.to # c.currentFloor}
  BY MoveServesAll, StopServesAll, StopKeepsOnceEach
<1> HIDE DEF r
<1>2. /\ OnceEach(Move(c)) /\ Waiting(Move(c)) = Waiting(r) /\ Riding(Move(c)) = Riding(r)
  BY <1>1 DEF OnceEach, Waiting, Riding
<1> QED BY <1>1, <1>2

LEMMA MovesEffect ==
  ASSUME Inv, NEW e \in Elevators, ElevatorMoves(e)
  PROVE  LET c        == car[e]
             entering == {t \in Waiting(c) : t.from = c.currentFloor}
         IN  /\ c \in Car /\ Move(c) \in Car /\ OnceEach(Move(c))
             /\ car' = [car EXCEPT ![e] = Move(c)] /\ SendStatus(e, Move(c))
             /\ Waiting(car'[e]) = Waiting(c) \ entering
             /\ Riding(car'[e]) = {t \in Riding(c) \cup entering : t.to # c.currentFloor}
             /\ car' \in [Elevators -> Car] /\ \A f \in Elevators \ {e} : car'[f] = car[f]
             /\ arrived' = arrived \cup {t \in Riding(c) \cup entering : t.to = c.currentFloor}
             /\ elevatorBox' \in [Elevators -> Seq(ToElevator)]
             /\ \A f \in Elevators : OnceIn(elevatorBox'[f]) /\ Sent(f)' = Sent(f)
             /\ UNCHANGED <<elevatorStatus, unsent, dismissed, lost, stepsLeft>>
<1>1. PICK c : c = car[e]
  OBVIOUS
<1> DEFINE entering == {t \in Waiting(c) : t.from = c.currentFloor}
<1>2. /\ elevatorBox[e] # << >> /\ Head(elevatorBox[e]).type = "Step" /\ TakeFromBox(e)
      /\ car' = [car EXCEPT ![e] = Move(c)] /\ SendStatus(e, car'[e])
      /\ arrived' = arrived \cup ((Riding(c) \cup Waiting(c))
                                     \ (Riding(car'[e]) \cup Waiting(car'[e])))
      /\ UNCHANGED <<elevatorStatus, unsent, dismissed, lost, stepsLeft>>
  BY <1>1 DEF ElevatorMoves, NextTo
<1>3. c \in Car /\ OnceEach(c) /\ car \in [Elevators -> Car]
  BY <1>1 DEF Inv, TypeOK, OnceInv
<1>4. /\ Move(c) \in Car /\ OnceEach(Move(c))
      /\ Waiting(Move(c)) = Waiting(c) \ entering
      /\ Riding(Move(c)) = {t \in Riding(c) \cup entering : t.to # c.currentFloor}
  BY <1>3, MoveFacts
<1>5. /\ car'[e] = Move(c) /\ car' \in [Elevators -> Car]
      /\ \A f \in Elevators \ {e} : car'[f] = car[f]
  BY <1>2, <1>3, <1>4
<1>6. /\ elevatorBox' \in [Elevators -> Seq(ToElevator)]
      /\ \A f \in Elevators : OnceIn(elevatorBox'[f]) /\ Sent(f)' = Sent(f)
  BY <1>2, ElevatorTakes
<1>7. (Riding(c) \cup Waiting(c)) \ (Riding(Move(c)) \cup Waiting(Move(c)))
        = {t \in Riding(c) \cup entering : t.to = c.currentFloor}
  BY <1>3, <1>4 DEF OnceEach
<1> QED BY <1>1, <1>2, <1>3, <1>4, <1>5, <1>6, <1>7

LEMMA MovesKeeps ==
  ASSUME Inv, NEW e \in Elevators, ElevatorMoves(e)
  PROVE  Inv'
<1>1. PICK c : c = car[e]
  OBVIOUS
<1>2. PICK off : off = {t \in Riding(c) \cup {u \in Waiting(c) : u.from = c.currentFloor} :
                          t.to = c.currentFloor}
  OBVIOUS
<1>3. /\ c \in Car /\ Move(c) \in Car /\ OnceEach(Move(c))
      /\ car' = [car EXCEPT ![e] = Move(c)] /\ SendStatus(e, Move(c))
      /\ car' \in [Elevators -> Car] /\ \A f \in Elevators \ {e} : car'[f] = car[f]
      /\ arrived' = arrived \cup off
      /\ elevatorBox' \in [Elevators -> Seq(ToElevator)]
      /\ \A f \in Elevators : OnceIn(elevatorBox'[f]) /\ Sent(f)' = Sent(f)
      /\ UNCHANGED <<elevatorStatus, unsent, dismissed, lost, stepsLeft>>
  BY <1>1, <1>2, MovesEffect
<1>4. Aboard(e)' = Aboard(e) \ off /\ off \subseteq Aboard(e) /\ off \subseteq Trips
  <2>1. /\ Waiting(car'[e]) = Waiting(c) \ {u \in Waiting(c) : u.from = c.currentFloor}
        /\ Riding(car'[e]) = {t \in Riding(c) \cup {u \in Waiting(c) : u.from = c.currentFloor} :
                                t.to # c.currentFloor}
    BY <1>1, MovesEffect
  <2>2. Waiting(c) \cup Riding(c) \subseteq Trips
    BY <1>3, RangeOfSeq DEF Waiting, Riding, Car
  <2>3. Waiting(c) \cap Riding(c) = {}
    BY <1>1 DEF Inv, OnceInv, OnceEach
  <2> QED BY <1>1, <1>2, <2>1, <2>2, <2>3 DEF Aboard
<1>5. \A f \in Elevators \ {e} : Aboard(f)' = Aboard(f)
  BY <1>3 DEF Aboard
<1>6. /\ controlBox' \in Seq(ToControl) /\ OnceIn(controlBox') /\ Asked' = Asked
      /\ ViewInv'
  BY <1>3, ElevatorReports
<1>7. car'[e] = Move(c)
  BY <1>3 DEF Inv, TypeOK
<1>8. TypeOK'
  BY <1>3, <1>4, <1>6 DEF Inv, TypeOK, Known
<1>9. OnceInv' /\ TravelInv'
  BY <1>3, <1>4, <1>5, <1>6, <1>7 DEF Inv, OnceInv, TravelInv
<1>10. ColdInv'
  <2>1. Known' = Known
    BY <1>3 DEF Known
  <2>2. Known = {} => car'[e] = NewCar
    BY <1>1, <1>7, CarFacts DEF Inv, ColdInv
  <2> QED BY <1>3, <2>1, <2>2 DEF Inv, ColdInv
<1>11. PlaceInv'
  <2>1. /\ \A f \in Elevators \ {e} : With(f)' = With(f)
        /\ With(e)' = With(e) \ off /\ off \subseteq With(e)
        /\ \A f \in Elevators : Sent(f)' \cap Aboard(f)' = {}
    <3>1. \A f \in Elevators : Sent(f) \cap Aboard(f) = {}
      BY DEF Inv, PlaceInv
    <3> QED BY <1>3, <1>4, <1>5, <3>1 DEF With
  <2>2. off \cap (unsent \cup Done \cup Asked) = {}
    BY <2>1 DEF Inv, PlaceInv
  <2>3. /\ Done' = Done \cup off
        /\ dismissed' \cap (lost' \cup arrived') = {} /\ lost' \cap arrived' = {}
    BY <1>3, <2>2 DEF Done, Inv, PlaceInv
  <2>4. \A f \in Elevators : With(f)' = IF f = e THEN With(f) \ off ELSE With(f)
    BY <2>1
  <2>5. \A u \in Trips : \/ u \in Asked' \cup unsent' \cup Done'
                         \/ \E f \in Elevators : u \in With(f)'
    <3>1. \A u \in Trips : u \in Asked \cup unsent \cup Done \/ \E f \in Elevators : u \in With(f)
      BY DEF Inv, PlaceInv
    <3> QED BY <1>3, <1>6, <2>3, <2>4, <3>1
  <2>6. /\ \A f \in Elevators : With(f)' \cap (Asked' \cup unsent' \cup Done') = {}
        /\ \A f, g \in Elevators : f # g => With(f)' \cap With(g)' = {}
    <3>1. /\ \A f \in Elevators : With(f) \cap (Asked \cup unsent \cup Done) = {}
          /\ \A f, g \in Elevators : f # g => With(f) \cap With(g) = {}
      BY DEF Inv, PlaceInv
    <3>2. \A f, g \in Elevators : f # g => With(f)' \cap With(g)' = {}
      BY <2>4, <3>1
    <3>3. ASSUME NEW f \in Elevators PROVE With(f)' \cap (Asked' \cup unsent' \cup Done') = {}
      <4>1. With(f) \cap (Asked \cup unsent \cup Done) = {} /\ (f # e => off \cap With(f) = {})
        BY <2>1, <3>1
      <4> QED BY <1>3, <1>6, <2>3, <2>4, <4>1
    <3> QED BY <3>2, <3>3
  <2> QED BY <1>3, <1>6, <2>1, <2>2, <2>3, <2>5, <2>6 DEF Inv, PlaceInv
<1> QED BY <1>6, <1>8, <1>9, <1>10, <1>11 DEF Inv

-----------------------------------------------------------------------------
LEMMA InvStep == Inv /\ [Next]_vars => Inv'
<1> SUFFICES ASSUME Inv, [Next]_vars PROVE Inv'
  OBVIOUS
<1>1. ASSUME NEW t \in Trips, RequestTrip(t) PROVE Inv'
  BY <1>1, RequestTripKeeps
<1>2. ASSUME NEW e \in Elevators, Tick(e) PROVE Inv'
  BY <1>2, TickKeeps
<1>3. ASSUME ControlHandles PROVE Inv'
  BY <1>3, ReceiveStatusKeeps, ReceiveStepKeeps, RouteTripKeeps, RestartKeeps DEF ControlHandles
<1>4. ASSUME NEW e \in Elevators, ElevatorHandles(e) PROVE Inv'
  BY <1>4, ReportsStatusKeeps, PicksUpKeeps, MovesKeeps DEF ElevatorHandles
<1>5. CASE UNCHANGED vars
  BY <1>5 DEF vars, carVars, controlVars, ledger, Inv, TypeOK, OnceInv, PlaceInv, TravelInv,
              ColdInv, ViewInv, With, Aboard, Sent, Asked, Done, Known
<1> QED BY <1>1, <1>2, <1>3, <1>4, <1>5, RequestStepKeeps DEF Next

LEMMA AlwaysInv == Spec => []Inv
BY InvStarts, InvStep, PTL DEF Spec

(* Fields, mailboxes, view and ledgers are of their types.                 *)
THEOREM TypeCorrect == Spec => []TypeOK
BY AlwaysInv, PTL DEF Inv

-----------------------------------------------------------------------------
(* The view: the last status of a mailbox is the one LastHeard chooses.    *)
LEMMA LatestExists ==
  ASSUME NEW n \in Nat, NEW S \in SUBSET (1..n), S # {}
  PROVE  \E i \in S : \A j \in S : j <= i
<1> DEFINE C == {n - i : i \in S}
<1>1. C \in SUBSET Nat /\ C # {}
  <2>1. \A i \in S : n - i \in Nat
    OBVIOUS
  <2> QED BY <2>1
<1>2. PICK m \in C : \A x \in C : m <= x
  <2> HIDE DEF C
  <2> QED BY <1>1, LeastNumber
<1>3. PICK i \in S : m = n - i
  OBVIOUS
<1>4. ASSUME NEW j \in S PROVE j <= i
  <2>1. n - j \in C /\ j \in Nat /\ i \in Nat
    OBVIOUS
  <2>2. n - i <= n - j
    BY <1>2, <1>3, <2>1
  <2> QED BY <2>1, <2>2
<1> QED BY <1>4

LEMMA ViewImplied == Inv => ViewCatchesUp
<1> SUFFICES ASSUME Inv, NEW e \in Elevators, StatusesFrom(e) # {} \/ e \in Known
             PROVE  LastHeard(e) = Snapshot(car[e])
  BY DEF ViewCatchesUp
<1>1. StatusesFrom(e) = Froms(controlBox, e)
  BY DEF StatusesFrom, Froms
<1>2. CASE StatusesFrom(e) = {}
  BY <1>1, <1>2 DEF Inv, ViewInv, LastHeard
<1>3. CASE StatusesFrom(e) # {}
  <2>1. PICK S : S = StatusesFrom(e)
    OBVIOUS
  <2>2. Len(controlBox) \in Nat /\ S \in SUBSET (1..Len(controlBox))
    BY <2>1 DEF StatusesFrom, Inv, TypeOK
  <2>3. \E i \in S : \A j \in S : j <= i
    BY <1>3, <2>1, <2>2, LatestExists
  <2>4. PICK i : i = CHOOSE k \in S : \A j \in S : j <= k
    OBVIOUS
  <2>5. i \in S /\ \A j \in S : j <= i
    BY <2>3, <2>4, Zenon
  <2>6. controlBox[i].status = Snapshot(car[e])
    BY <1>1, <2>1, <2>5 DEF Inv, ViewInv, Tells
  <2> QED BY <1>3, <2>1, <2>4, <2>6 DEF LastHeard
<1> QED BY <1>2, <1>3

(* ViewCurrent: the control actor never routes by more than what is still  *)
(* in its mailbox out of date, restarts of the control actor included.     *)
THEOREM ViewCurrent == Spec => []ViewCatchesUp
BY AlwaysInv, ViewImplied, PTL

-----------------------------------------------------------------------------
(* One place: the entries for a trip, from what the invariant says of it.  *)
LEMMA PlacesOf ==
  ASSUME NEW q, NEW x
  PROVE  /\ x \notin Range(q) => Places(x, q) = {}
         /\ Once(x, q) /\ x \in Range(q) => \E i : Places(x, q) = {i}
BY DEF Places, Once, Range

(* Of a family of sets of positions all but one are empty.                 *)
Family(kind, F) == UNION {{<<kind, e, i>> : i \in F[e]} : e \in Elevators}

LEMMA OneOfFamily ==
  ASSUME NEW F, NEW kind
  PROVE  /\ (\A e \in Elevators : F[e] = {}) => Family(kind, F) = {}
         /\ \A e \in Elevators : (/\ \E i : F[e] = {i}
                                  /\ \A f \in Elevators \ {e} : F[f] = {})
                                => \E p : Family(kind, F) = {p}
<1>1. \A x : x \in Family(kind, F) <=> \E e \in Elevators : \E i \in F[e] : x = <<kind, e, i>>
  BY DEF Family
<1>2. ASSUME \A e \in Elevators : F[e] = {} PROVE Family(kind, F) = {}
  BY <1>1, <1>2
<1>3. ASSUME NEW e \in Elevators, NEW i, F[e] = {i}, \A f \in Elevators \ {e} : F[f] = {}
      PROVE  Family(kind, F) = {<<kind, e, i>>}
  <2>1. \A x \in Family(kind, F) : x = <<kind, e, i>>
    BY <1>1, <1>3
  <2>2. <<kind, e, i>> \in Family(kind, F)
    BY <1>1, <1>3
  <2> QED BY <2>1, <2>2
<1> QED BY <1>2, <1>3

LEMMA OnePlaceImplied == Inv => EachTripHasOnePlace
<1> SUFFICES ASSUME Inv, NEW t \in Trips PROVE \E p : Entries(t) = {p}
  BY FS_Singleton DEF EachTripHasOnePlace
<1> DEFINE box  == [e \in Elevators |-> Places(PickUpMsg(t), elevatorBox[e])]
           wait == [e \in Elevators |-> Places(t, car[e].pickUpQueue)]
           ride == [e \in Elevators |-> Places(t, car[e].destinationQueue)]
<1>1. Entries(t) = AmongRequests(t) \cup Family("mailbox", box) \cup Family("pickUp", wait)
                     \cup Family("riding", ride) \cup Recorded(t, "unsent", unsent)
                     \cup Recorded(t, "dismissed", dismissed) \cup Recorded(t, "lost", lost)
                     \cup Recorded(t, "arrived", arrived)
  <2>1. /\ InMailboxes(t) = Family("mailbox", box)
        /\ AtCars(t) = Family("pickUp", wait)
        /\ InCars(t) = Family("riding", ride)
    BY DEF Family, InMailboxes, AtCars, InCars
  <2> HIDE DEF box, wait, ride
  <2> QED BY <2>1 DEF Entries
<1>2. /\ t \notin Asked => AmongRequests(t) = {}
      /\ t \in Asked => \E p : AmongRequests(t) = {p}
  <2>1. /\ t \in Asked <=> PickUpMsg(t) \in Range(controlBox)
        /\ Once(PickUpMsg(t), controlBox)
    BY DEF Asked, TripsIn, Inv, OnceInv, OnceIn
  <2>2. PICK P : P = Places(PickUpMsg(t), controlBox)
    OBVIOUS
  <2>3. (t \notin Asked => P = {}) /\ (t \in Asked => \E i : P = {i})
    BY <2>1, <2>2, PlacesOf
  <2>4. P = {} => {<<"control", i>> : i \in P} = {}
    OBVIOUS
  <2>5. \A i : P = {i} => {<<"control", j>> : j \in P} = {<<"control", i>>}
    OBVIOUS
  <2> QED BY <2>2, <2>3, <2>4, <2>5, Zenon DEF AmongRequests
<1>3. ASSUME NEW e \in Elevators
      PROVE  /\ t \notin Sent(e) => box[e] = {}
             /\ t \in Sent(e) => \E i : box[e] = {i}
             /\ t \notin Waiting(car[e]) => wait[e] = {}
             /\ t \in Waiting(car[e]) => \E i : wait[e] = {i}
             /\ t \notin Riding(car[e]) => ride[e] = {}
             /\ t \in Riding(car[e]) => \E i : ride[e] = {i}
  <2>1. /\ t \in Sent(e) <=> PickUpMsg(t) \in Range(elevatorBox[e])
        /\ Once(PickUpMsg(t), elevatorBox[e])
    BY DEF Sent, TripsIn, Inv, OnceInv, OnceIn
  <2>2. Once(t, car[e].pickUpQueue) /\ Once(t, car[e].destinationQueue)
    BY DEF Inv, OnceInv, OnceEach, IsInjective, Once
  <2> QED BY <2>1, <2>2, PlacesOf DEF Waiting, Riding
<1>4. \A S, what : /\ t \notin S => Recorded(t, what, S) = {}
                   /\ t \in S => Recorded(t, what, S) = {<<what>>}
  BY DEF Recorded
<1> HIDE DEF box, wait, ride
<1>5. /\ (\A e \in Elevators : t \notin Sent(e)) => Family("mailbox", box) = {}
      /\ (\A e \in Elevators : t \notin Waiting(car[e])) => Family("pickUp", wait) = {}
      /\ (\A e \in Elevators : t \notin Riding(car[e])) => Family("riding", ride) = {}
  BY <1>3, OneOfFamily
<1>6. /\ \A e \in Elevators : With(e) \cap (Asked \cup unsent \cup Done) = {}
      /\ \A e, f \in Elevators : e # f => With(e) \cap With(f) = {}
      /\ \A e \in Elevators : Sent(e) \cap Aboard(e) = {} /\ Waiting(car[e]) \cap Riding(car[e]) = {}
      /\ \A e \in Elevators : /\ Aboard(e) = Waiting(car[e]) \cup Riding(car[e])
                              /\ With(e) = Sent(e) \cup Aboard(e)
  BY DEF Inv, PlaceInv, OnceInv, OnceEach, Aboard, With
<1>7. ASSUME NEW e \in Elevators, t \in With(e)
      PROVE  \E p : Entries(t) = {p}
  <2>1. /\ \A f \in Elevators \ {e} : t \notin Sent(f) \cup Waiting(car[f]) \cup Riding(car[f])
        /\ t \notin Asked \cup unsent \cup dismissed \cup lost \cup arrived
    BY <1>6, <1>7 DEF Done
  <2>2. Entries(t) = Family("mailbox", box) \cup Family("pickUp", wait) \cup Family("riding", ride)
    BY <1>1, <1>2, <1>4, <2>1
  <2>3. CASE t \in Sent(e)
    <3>1. t \notin Waiting(car[e]) \cup Riding(car[e])
      BY <1>6, <2>3
    <3>2. Family("pickUp", wait) = {} /\ Family("riding", ride) = {}
      BY <1>5, <2>1, <3>1
    <3>3. \E p : Family("mailbox", box) = {p}
      BY <1>3, <2>1, <2>3, OneOfFamily, ZenonT(40)
    <3> QED BY <2>2, <3>2, <3>3
  <2>4. CASE t \in Waiting(car[e])
    <3>1. t \notin Sent(e) \cup Riding(car[e])
      BY <1>6, <2>4
    <3>2. Family("mailbox", box) = {} /\ Family("riding", ride) = {}
      BY <1>5, <2>1, <3>1
    <3>3. \E p : Family("pickUp", wait) = {p}
      <4>1. (\E i : wait[e] = {i}) /\ \A f \in Elevators \ {e} : wait[f] = {}
        BY <1>3, <2>1, <2>4
      <4> QED BY <4>1, OneOfFamily
    <3> QED BY <2>2, <3>2, <3>3
  <2>5. CASE t \in Riding(car[e])
    <3>1. t \notin Sent(e) \cup Waiting(car[e])
      BY <1>6, <2>5
    <3>2. Family("mailbox", box) = {} /\ Family("pickUp", wait) = {}
      BY <1>5, <2>1, <3>1
    <3>3. \E p : Family("riding", ride) = {p}
      <4>1. (\E i : ride[e] = {i}) /\ \A f \in Elevators \ {e} : ride[f] = {}
        BY <1>3, <2>1, <2>5
      <4> QED BY <4>1, OneOfFamily
    <3> QED BY <2>2, <3>2, <3>3
  <2> QED BY <1>6, <1>7, <2>3, <2>4, <2>5
<1>8. ASSUME \A e \in Elevators : t \notin With(e)
      PROVE  \E p : Entries(t) = {p}
  <2>1. Entries(t) = AmongRequests(t) \cup Recorded(t, "unsent", unsent) \cup Recorded(t, "dismissed", dismissed)
                       \cup Recorded(t, "lost", lost) \cup Recorded(t, "arrived", arrived)
    BY <1>1, <1>5, <1>6, <1>8
  <2>2. /\ t \in Asked \cup unsent \cup dismissed \cup lost \cup arrived
        /\ Asked \cap (unsent \cup dismissed \cup lost \cup arrived) = {}
        /\ unsent \cap (dismissed \cup lost \cup arrived) = {}
        /\ dismissed \cap (lost \cup arrived) = {} /\ lost \cap arrived = {}
    BY <1>8 DEF Inv, PlaceInv, Done
  <2>3. CASE t \in Asked
    <3>1. Entries(t) = AmongRequests(t)
      BY <1>4, <2>1, <2>2, <2>3
    <3> QED BY <1>2, <2>3, <3>1
  <2>4. CASE t \notin Asked
    <3>1. AmongRequests(t) = {}
      BY <1>2, <2>4
    <3>2. PICK u, d, l, a : /\ u = Recorded(t, "unsent", unsent) /\ d = Recorded(t, "dismissed", dismissed)
                            /\ l = Recorded(t, "lost", lost) /\ a = Recorded(t, "arrived", arrived)
      OBVIOUS
    <3>3. Entries(t) = u \cup d \cup l \cup a
      BY <2>1, <3>1, <3>2
    <3>4. /\ (t \notin unsent => u = {}) /\ (t \in unsent => \E p : u = {p})
          /\ (t \notin dismissed => d = {}) /\ (t \in dismissed => \E p : d = {p})
          /\ (t \notin lost => l = {}) /\ (t \in lost => \E p : l = {p})
          /\ (t \notin arrived => a = {}) /\ (t \in arrived => \E p : a = {p})
      BY <1>4, <3>2
    <3>5. CASE t \in unsent
      BY <2>2, <3>3, <3>4, <3>5
    <3>6. CASE t \in dismissed
      BY <2>2, <3>3, <3>4, <3>6
    <3>7. CASE t \in lost
      BY <2>2, <3>3, <3>4, <3>7
    <3>8. CASE t \in arrived
      BY <2>2, <3>3, <3>4, <3>8
    <3> QED BY <2>2, <2>4, <3>5, <3>6, <3>7, <3>8
  <2> QED BY <2>3, <2>4
<1> QED BY <1>7, <1>8

(* OnePlaceAlways: neither routing, a restart nor a ride drops or doubles  *)
(* a trip.                                                                 *)
THEOREM OnePlaceAlways == Spec => []EachTripHasOnePlace
BY AlwaysInv, OnePlaceImplied, PTL

-----------------------------------------------------------------------------
(* The refinement: what a trip has come to, from where it is.              *)
Carrier(t) == IF CarOf(t) = {} THEN 0 ELSE CHOOSE e \in CarOf(t) : TRUE

StageIs == \A t \in Trips :
  /\ t \in dismissed => Stage(t) = "dismissed"
  /\ t \in lost => Stage(t) = "lost"
  /\ t \in arrived => Stage(t) = "arrived"
  /\ \A e \in Elevators : /\ t \in Waiting(car[e]) => Stage(t) = "waiting" /\ Carrier(t) = e
                          /\ t \in Riding(car[e]) => Stage(t) = "riding" /\ Carrier(t) = e
  /\ (\A e \in Elevators : t \notin Aboard(e)) =>
       Carrier(t) = 0 /\ (t \notin Done => Stage(t) = "requested")

LEMMA StageFacts == Inv => StageIs
<1> SUFFICES ASSUME Inv, NEW t \in Trips
             PROVE  /\ t \in dismissed => Stage(t) = "dismissed"
                    /\ t \in lost => Stage(t) = "lost"
                    /\ t \in arrived => Stage(t) = "arrived"
                    /\ \A e \in Elevators :
                         /\ t \in Waiting(car[e]) => Stage(t) = "waiting" /\ Carrier(t) = e
                         /\ t \in Riding(car[e]) => Stage(t) = "riding" /\ Carrier(t) = e
                    /\ (\A e \in Elevators : t \notin Aboard(e)) =>
                         Carrier(t) = 0 /\ (t \notin Done => Stage(t) = "requested")
  BY DEF StageIs
<1>1. /\ dismissed \cap (lost \cup arrived) = {} /\ lost \cap arrived = {}
      /\ \A e \in Elevators : /\ t \in Aboard(e) => t \notin Done
                              /\ Waiting(car[e]) \cap Riding(car[e]) = {}
      /\ \A e, f \in Elevators : e # f => Aboard(e) \cap Aboard(f) = {}
  BY DEF Inv, PlaceInv, With, OnceInv, OnceEach
<1>2. t \in dismissed => Stage(t) = "dismissed"
  BY DEF Stage
<1>3. t \in lost => Stage(t) = "lost"
  BY <1>1 DEF Stage
<1>4. t \in arrived => Stage(t) = "arrived"
  BY <1>1 DEF Stage
<1>5. ASSUME NEW e \in Elevators, t \in Aboard(e) PROVE Carrier(t) = e
  <2>1. CarOf(t) = {e}
    BY <1>1, <1>5 DEF CarOf, Aboard
  <2>2. (CHOOSE f \in {e} : TRUE) = e /\ {e} # {}
    OBVIOUS
  <2> QED BY <2>1, <2>2 DEF Carrier
<1>6. ASSUME NEW e \in Elevators
      PROVE  /\ t \in Waiting(car[e]) => Stage(t) = "waiting"
             /\ t \in Riding(car[e]) => Stage(t) = "riding"
  <2>1. t \in Waiting(car[e]) => Stage(t) = "waiting"
    BY <1>1 DEF Stage, Aboard, Done
  <2>2. ASSUME t \in Riding(car[e]) PROVE Stage(t) = "riding"
    <3>1. \A f \in Elevators : t \notin Waiting(car[f])
      BY <1>1, <2>2 DEF Aboard
    <3> QED BY <1>1, <2>2, <3>1 DEF Stage, Aboard, Done
  <2> QED BY <2>1, <2>2
<1>7. ASSUME \A e \in Elevators : t \notin Aboard(e)
      PROVE  Carrier(t) = 0 /\ (t \notin Done => Stage(t) = "requested")
  BY <1>7 DEF Carrier, CarOf, Stage, Aboard, Done
<1> QED BY <1>2, <1>3, <1>4, <1>5, <1>6, <1>7 DEF Aboard

(* A trip the step does not concern stays where it is.                     *)
LEMMA StageKept ==
  ASSUME NEW t,
         t \in dismissed <=> t \in dismissed',
         t \in lost <=> t \in lost',
         t \in arrived <=> t \in arrived',
         \A e \in Elevators : t \in Waiting(car[e]) <=> t \in Waiting(car'[e]),
         \A e \in Elevators : t \in Riding(car[e]) <=> t \in Riding(car'[e])
  PROVE  Stage(t)' = Stage(t) /\ Carrier(t)' = Carrier(t)
<1>1. Stage(t)' = Stage(t)
  BY DEF Stage
<1>2. CarOf(t)' = CarOf(t)
  BY DEF CarOf
<1> QED BY <1>1, <1>2 DEF Carrier

LEMMA ServiceStarts == Init => Service!Init
<1> SUFFICES ASSUME Init PROVE Service!Init
  OBVIOUS
<1>1. \A e \in Elevators : car[e] = NewCar /\ NewCar.currentFloor = 0
  BY DEF Init, FreshCars, NewCar
<1>2. \A t \in Trips : Stage(t) = "requested" /\ Carrier(t) = 0
  <2>1. Inv
    BY InvStarts
  <2>2. Done = {} /\ \A e \in Elevators : Aboard(e) = {}
    BY <1>1, CarFacts DEF Init, Done, Aboard
  <2> QED BY <2>1, <2>2, StageFacts DEF StageIs
<1> QED BY <1>1, <1>2 DEF Service!Init, Carrier

(* Steps of which the passengers notice nothing.                           *)
LEMMA ServiceStutters ==
  ASSUME UNCHANGED <<car, dismissed, lost, arrived>>
  PROVE  UNCHANGED Service!vars
<1>1. \A t \in Trips : Stage(t)' = Stage(t) /\ Carrier(t)' = Carrier(t)
  BY StageKept
<1> QED BY <1>1 DEF Service!vars, Carrier

LEMMA StageFactsNext == Inv' => StageIs'
BY StageFacts, PTL

LEMMA ServicePicksUp ==
  ASSUME Inv, Inv', NEW e \in Elevators, ElevatorPicksUp(e)
  PROVE  Service!Next
<1>1. PICK t \in Trips :
        /\ t \in Sent(e)
        /\ UNCHANGED <<lost, arrived>>
        /\ \/ IsTrip(t) /\ car' = [car EXCEPT ![e] = PickUp(car[e], t)] /\ dismissed' = dismissed
           \/ ~IsTrip(t) /\ car' = car /\ dismissed' = dismissed \cup {t}
  BY PickUpEffect
<1>2. car \in [Elevators -> Car] /\ t \notin Done /\ \A f \in Elevators : t \notin Aboard(f)
  BY <1>1 DEF Inv, TypeOK, PlaceInv, With
<1>3. Stage(t) = "requested" /\ Carrier(t) = 0
  BY <1>2, StageFacts DEF StageIs
<1> DEFINE stage   == [u \in Trips |-> Stage(u)]
           carrier == [u \in Trips |-> Carrier(u)]
           at      == [f \in Elevators |-> car[f].currentFloor]
<1>4. CASE IsTrip(t) /\ car' = [car EXCEPT ![e] = PickUp(car[e], t)] /\ dismissed' = dismissed
  <2>1. /\ Waiting(car'[e]) = Waiting(car[e]) \cup {t} /\ Riding(car'[e]) = Riding(car[e])
        /\ car'[e].currentFloor = car[e].currentFloor
        /\ \A f \in Elevators \ {e} : car'[f] = car[f]
    BY <1>2, <1>4, PickUpProperties
  <2>2. Stage(t)' = "waiting" /\ Carrier(t)' = e
    BY <2>1, StageFactsNext DEF StageIs
  <2>3. ASSUME NEW u \in Trips, u # t PROVE Stage(u)' = Stage(u) /\ Carrier(u)' = Carrier(u)
    <3>1. \A f \in Elevators : /\ u \in Waiting(car[f]) <=> u \in Waiting(car'[f])
                               /\ u \in Riding(car[f]) <=> u \in Riding(car'[f])
      BY <2>1, <2>3
    <3> QED BY <1>1, <1>4, <3>1, StageKept
  <2>4. stage' = [stage EXCEPT ![t] = "waiting"] /\ carrier' = [carrier EXCEPT ![t] = e]
    BY <2>2, <2>3
  <2>5. at' = at
    BY <2>1
  <2>6. Service!Accept(t, e)
    BY <1>3, <2>4, <2>5 DEF Service!Accept, Carrier
  <2> QED BY <2>6 DEF Service!Next
<1>5. CASE ~IsTrip(t) /\ car' = car /\ dismissed' = dismissed \cup {t}
  <2>1. Stage(t)' = "dismissed" /\ Carrier(t)' = 0
    <3>1. \A f \in Elevators : t \notin Aboard(f)'
      BY <1>2, <1>5 DEF Aboard
    <3> QED BY <1>5, <3>1, StageFactsNext DEF StageIs
  <2>2. ASSUME NEW u \in Trips, u # t PROVE Stage(u)' = Stage(u) /\ Carrier(u)' = Carrier(u)
    BY <1>1, <1>5, <2>2, StageKept
  <2>3. stage' = [stage EXCEPT ![t] = "dismissed"] /\ carrier' = carrier /\ at' = at
    BY <1>3, <1>5, <2>1, <2>2
  <2>4. Service!Refuse(t, "dismissed")
    BY <1>3, <2>3 DEF Service!Refuse, Carrier
  <2> QED BY <2>4 DEF Service!Next
<1> QED BY <1>1, <1>4, <1>5

LEMMA ServiceRestarts ==
  ASSUME Inv, Inv', Restart
  PROVE  Service!Next
<1>1. PICK t \in Trips :
        /\ t \in Asked /\ lost' = lost \cup {t} /\ UNCHANGED <<car, dismissed, arrived>>
  BY RestartEffect
<1>2. t \notin Done /\ \A f \in Elevators : t \notin Aboard(f)
  BY <1>1 DEF Inv, PlaceInv, With
<1>3. Stage(t) = "requested" /\ Carrier(t) = 0
  BY <1>2, StageFacts DEF StageIs
<1> DEFINE stage   == [u \in Trips |-> Stage(u)]
           carrier == [u \in Trips |-> Carrier(u)]
           at      == [f \in Elevators |-> car[f].currentFloor]
<1>4. Stage(t)' = "lost" /\ Carrier(t)' = 0
  <2>1. \A f \in Elevators : t \notin Aboard(f)'
    BY <1>1, <1>2 DEF Aboard
  <2> QED BY <1>1, <2>1, StageFactsNext DEF StageIs
<1>5. ASSUME NEW u \in Trips, u # t PROVE Stage(u)' = Stage(u) /\ Carrier(u)' = Carrier(u)
  BY <1>1, <1>5, StageKept
<1>6. stage' = [stage EXCEPT ![t] = "lost"] /\ carrier' = carrier /\ at' = at
  BY <1>1, <1>3, <1>4, <1>5
<1>7. Service!Refuse(t, "lost")
  BY <1>3, <1>6 DEF Service!Refuse, Carrier
<1> QED BY <1>7 DEF Service!Next

LEMMA ServiceMoves ==
  ASSUME Inv, Inv', NEW e \in Elevators, ElevatorMoves(e)
  PROVE  Service!Next
<1>1. PICK c : c = car[e]
  OBVIOUS
<1> DEFINE floor    == c.currentFloor
           entering == {t \in Waiting(c) : t.from = floor}
           leaving  == {t \in Riding(c) : t.to = floor}
           stage    == [u \in Trips |-> Stage(u)]
           carrier  == [u \in Trips |-> Carrier(u)]
           at       == [f \in Elevators |-> car[f].currentFloor]
<1>2. /\ c \in Car /\ car' = [car EXCEPT ![e] = Move(c)] /\ car \in [Elevators -> Car]
      /\ Waiting(car'[e]) = Waiting(c) \ entering
      /\ Riding(car'[e]) = (Riding(c) \cup entering) \ leaving
      /\ \A f \in Elevators \ {e} : car'[f] = car[f]
      /\ arrived' = arrived \cup leaving
      /\ UNCHANGED <<dismissed, lost>>
  <2>1. \A t \in entering : t.to # floor
    BY <1>1 DEF Inv, TravelInv, Aboard, IsTrip
  <2> QED BY <1>1, <2>1, MovesEffect DEF Inv, TypeOK
<1>3. /\ Waiting(c) \cup Riding(c) \subseteq Trips
      /\ entering \subseteq Waiting(c) /\ leaving \subseteq Riding(c)
      /\ Waiting(c) \cap Riding(c) = {}
  BY <1>1, <1>2, RangeOfSeq DEF Waiting, Riding, Car, Inv, OnceInv, OnceEach
<1>4. PICK next \in (floor - 1)..(floor + 1) : next = Move(c).currentFloor
  BY <1>2, MoveOneFloor
<1>5. Service!Of(e, "waiting") = Waiting(c) /\ Service!Of(e, "riding") = Riding(c)
  <2>1. ASSUME NEW t \in Trips
        PROVE  /\ Stage(t) = "waiting" /\ Carrier(t) = e <=> t \in Waiting(c)
               /\ Stage(t) = "riding" /\ Carrier(t) = e <=> t \in Riding(c)
    <3>1. StageIs
      BY StageFacts
    <3>2. CASE \E f \in Elevators : t \in Waiting(car[f])
      BY <1>1, <1>3, <3>1, <3>2 DEF StageIs
    <3>3. CASE \E f \in Elevators : t \in Riding(car[f])
      BY <1>1, <1>3, <3>1, <3>3 DEF StageIs
    <3>4. CASE \A f \in Elevators : t \notin Waiting(car[f]) \cup Riding(car[f])
      BY <1>1, <3>1, <3>4 DEF StageIs, Aboard, Done
    <3> QED BY <3>2, <3>3, <3>4
  <2> QED BY <1>3, <2>1 DEF Service!Of, Carrier
<1>6. ASSUME NEW t \in entering PROVE Stage(t)' = "riding" /\ Carrier(t)' = e /\ Carrier(t) = e
  <2>1. t \in Waiting(c) /\ t \notin leaving
    BY <1>3
  <2>2. t \in Riding(car'[e]) /\ t \in Trips
    BY <1>2, <1>3, <2>1
  <2> QED BY <1>1, <2>1, <2>2, StageFacts, StageFactsNext DEF StageIs
<1>7. ASSUME NEW t \in leaving PROVE Stage(t)' = "arrived" /\ Carrier(t)' = 0
  <2>1. t \in arrived' /\ t \in Trips
    BY <1>2, <1>3
  <2>2. \A f \in Elevators : t \notin Aboard(f)'
    BY <2>1 DEF Inv, PlaceInv, With, Done
  <2> QED BY <2>1, <2>2, StageFactsNext DEF StageIs
<1>8. ASSUME NEW t \in Trips, t \notin entering, t \notin leaving
      PROVE  Stage(t)' = Stage(t) /\ Carrier(t)' = Carrier(t)
  <2> HIDE DEF entering, leaving
  <2>1. \A f \in Elevators : /\ t \in Waiting(car[f]) <=> t \in Waiting(car'[f])
                             /\ t \in Riding(car[f]) <=> t \in Riding(car'[f])
    BY <1>1, <1>2, <1>8
  <2>2. /\ t \in arrived <=> t \in arrived'
        /\ t \in dismissed <=> t \in dismissed'
        /\ t \in lost <=> t \in lost'
    BY <1>2, <1>8
  <2> QED BY <2>1, <2>2, StageKept
<1>9. /\ stage' = [t \in Trips |-> IF t \in entering THEN "riding"
                                   ELSE IF t \in leaving THEN "arrived" ELSE stage[t]]
      /\ carrier' = [t \in Trips |-> IF t \in leaving THEN 0 ELSE carrier[t]]
  <2>1. entering \cap leaving = {}
    BY <1>3
  <2> HIDE DEF entering, leaving
  <2> QED BY <1>6, <1>7, <1>8, <2>1
<1>10. at' = [at EXCEPT ![e] = next]
  BY <1>2, <1>4
<1>11. at[e] = floor
  BY <1>1
<1>12. Service!Serve(e, next)
  BY <1>5, <1>9, <1>10, <1>11 DEF Service!Serve, Carrier
<1> QED BY <1>4, <1>11, <1>12 DEF Service!Next

LEMMA ServiceNext ==
  ASSUME Inv, Inv', [Next]_vars
  PROVE  [Service!Next]_(Service!vars)
<1>1. CASE UNCHANGED <<car, dismissed, lost, arrived>>
  BY <1>1, ServiceStutters
<1>2. ASSUME NEW e \in Elevators, ElevatorHandles(e), ~UNCHANGED <<car, dismissed, lost, arrived>>
      PROVE  Service!Next
  BY <1>2, ServicePicksUp, ServiceMoves DEF ElevatorHandles, ElevatorReportsStatus, ledger
<1>3. ASSUME ControlHandles, ~UNCHANGED <<car, dismissed, lost, arrived>>
      PROVE  Service!Next
  BY <1>3, ServiceRestarts DEF ControlHandles, ReceiveStatus, ReceiveStep, RouteTrip, carVars, ledger
<1> QED BY <1>1, <1>2, <1>3
        DEF Next, RequestTrip, RequestStep, Tick, vars, carVars, ledger

(* ServiceImplemented: over all the cars and mailboxes the system keeps    *)
(* the promise TripService makes; a pick-up is an acceptance or a refusal, *)
(* a restart a refusal, and a Step of the timer serves the car's floor.    *)
THEOREM ServiceImplemented == Spec => ImplementsTripService
<1>1. Inv /\ Inv' /\ [Next]_vars => [Service!Next]_(Service!vars)
  BY ServiceNext
<1> QED BY <1>1, ServiceStarts, AlwaysInv, PTL DEF Spec, ImplementsTripService, Service!Spec
=============================================================================
