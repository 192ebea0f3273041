----------------------- MODULE ElevatorControlSystem -----------------------
(***************************************************************************)
(* ElevatorControlSystemActor and the ElevatorActors it supervises         *)
(* (elevator2/core).  Actors share nothing and talk through mailboxes: a   *)
(* mailbox is a sequence, a send appends to it, an actor handles one       *)
(* message at a time and a handler is one action.                          *)
(*                                                                         *)
(* A pick-up that arrives before the first status makes minBy throw on an  *)
(* empty map; Akka's default supervision then restarts the control actor:  *)
(* it stops its children, drops the message and builds new children, while *)
(* its mailbox, and any status an old child has put there, survives.  A    *)
(* child that is still handling a message when it is stopped is a child    *)
(* that handled it before the restart, so the restart is one action.       *)
(*                                                                         *)
(* Bounds: MaxSteps commands Step to the control actor, and at most        *)
(* MaxBacklog statuses of one elevator in the control actor's mailbox and  *)
(* one Step of the timer in an elevator's.                                 *)
(***************************************************************************)
EXTENDS ElevatorCar, FiniteSets

CONSTANTS Elevators, MaxSteps, MaxBacklog

ASSUME ElevatorsAssumption == Elevators # {}       \* require(numberOfElevators >= 1)
ASSUME BoundsAssumption == MaxSteps \in Nat /\ MaxBacklog \in Nat \ {0}

VARIABLES
  car,              \* the fields of each ElevatorActor
  elevatorBox,      \* and its mailbox
  elevatorStatus,   \* the control actor's last status of each elevator it heard of
  controlBox,       \* and its mailbox
  unsent,           \* trips no client has asked for yet
  dismissed, lost, arrived,   \* what became of the others
  stepsLeft         \* Step commands clients may still send to the control actor

carVars     == <<car, elevatorBox>>
controlVars == <<elevatorStatus, controlBox>>
ledger      == <<unsent, dismissed, lost, arrived>>
vars        == <<carVars, controlVars, ledger, stepsLeft>>

PickUpMsg(t) == [type |-> "PickUp", trip |-> t]
StepMsg      == [type |-> "Step"]
StatusMsg    == [type |-> "Status"]

(* What a status tells; the queues it also carries are only reported.      *)
Snapshot(c) == [currentFloor |-> c.currentFloor, goalFloor |-> c.goalFloor,
                direction |-> c.direction]
ElevatorStatusMsg(e, c) == [type |-> "ElevatorStatus", id |-> e, status |-> Snapshot(c)]

Known == DOMAIN elevatorStatus

(* The constructor: new children, each asked for its status.               *)
FreshCars  == [e \in Elevators |-> NewCar]
FreshBoxes == [e \in Elevators |-> <<StatusMsg>>]

Init == /\ car = FreshCars
        /\ elevatorBox = FreshBoxes
        /\ elevatorStatus = << >>
        /\ controlBox = << >>
        /\ unsent = Trips
        /\ dismissed = {} /\ lost = {} /\ arrived = {}
        /\ stepsLeft = MaxSteps

-----------------------------------------------------------------------------
(* Clients of the control actor, and each elevator's timer.                *)
RequestTrip(t) ==
  /\ t \in unsent
  /\ unsent' = unsent \ {t}
  /\ controlBox' = Append(controlBox, PickUpMsg(t))
  /\ UNCHANGED <<carVars, elevatorStatus, dismissed, lost, arrived, stepsLeft>>

RequestStep ==
  /\ stepsLeft > 0
  /\ stepsLeft' = stepsLeft - 1
  /\ controlBox' = Append(controlBox, StepMsg)
  /\ UNCHANGED <<carVars, elevatorStatus, ledger>>

Tick(e) ==
  /\ StepMsg \notin Range(elevatorBox[e])
  /\ elevatorBox' = [elevatorBox EXCEPT ![e] = Append(@, StepMsg)]
  /\ UNCHANGED <<car, controlVars, ledger, stepsLeft>>

-----------------------------------------------------------------------------
(* The control actor handles the first message of its mailbox.             *)
NextToControl(type) == controlBox # << >> /\ Head(controlBox).type = type
TakeFromControlBox  == controlBox' = Tail(controlBox)

ReceiveStatus ==
  /\ NextToControl("ElevatorStatus")
  /\ TakeFromControlBox
  /\ LET m == Head(controlBox)
     IN  elevatorStatus' = [e \in Known \cup {m.id} |->
                              IF e = m.id THEN m.status ELSE elevatorStatus[e]]
  /\ UNCHANGED <<carVars, ledger, stepsLeft>>

ReceiveStep ==
  /\ NextToControl("Step")
  /\ TakeFromControlBox
  /\ elevatorBox' = [e \in Elevators |-> Append(elevatorBox[e], StepMsg)]
  /\ UNCHANGED <<car, elevatorStatus, ledger, stepsLeft>>

Distance(e, t) == LET d == t.from - elevatorStatus[e].currentFloor
                  IN  IF d < 0 THEN -d ELSE d

Approaching(t) ==
  {e \in Known : LET s == elevatorStatus[e]
                 IN  \/ s.direction = Up   /\ t.from > s.currentFloor
                     \/ s.direction = Down /\ t.from < s.currentFloor
                     \/ s.direction = NoDirection}

(* minBy: any of the nearest, for it takes the first one the map yields.   *)
Closest(S, t) == {e \in S : \A f \in S : Distance(e, t) <= Distance(f, t)}

NearestApproaching(t) == Closest(Approaching(t), t)    \* variant: no fallback

NearestElevators(t) ==
  Closest(IF Approaching(t) = {} THEN Known ELSE Approaching(t), t)

RouteTripToEachNearest ==      \* variant: a tie sends the trip to all of them
  /\ NextToControl("PickUp")
  /\ TakeFromControlBox
  /\ NearestElevators(Head(controlBox).trip) # {}
  /\ elevatorBox' = [e \in Elevators |-> IF e \in NearestElevators(Head(controlBox).trip)
                                         THEN Append(elevatorBox[e], Head(controlBox))
                                         ELSE elevatorBox[e]]
  /\ UNCHANGED <<car, elevatorStatus, ledger, stepsLeft>>

RouteBareTrip ==                \* variant: the trip is sent without its PickUp
  /\ NextToControl("PickUp")
  /\ TakeFromControlBox
  /\ LET m == Head(controlBox)
     IN  \E e \in NearestElevators(m.trip) :
           elevatorBox' = [elevatorBox EXCEPT ![e] = Append(@, m.trip)]
  /\ UNCHANGED <<car, elevatorStatus, ledger, stepsLeft>>

RouteTrip ==
  /\ NextToControl("PickUp")
  /\ TakeFromControlBox
  /\ LET m == Head(controlBox)
     IN  \E e \in NearestElevators(m.trip) :
           elevatorBox' = [elevatorBox EXCEPT ![e] = Append(@, m)]
  /\ UNCHANGED <<car, elevatorStatus, ledger, stepsLeft>>

RestartAtAnyPickUp ==          \* variant: a pick-up may fail at any time
  /\ NextToControl("PickUp")
  /\ TakeFromControlBox
  /\ lost' = lost \cup {Head(controlBox).trip}
  /\ car' = FreshCars
  /\ elevatorBox' = FreshBoxes
  /\ elevatorStatus' = << >>
  /\ UNCHANGED <<unsent, dismissed, arrived, stepsLeft>>

Restart ==
  /\ NextToControl("PickUp")
  /\ Known = {}                                    \* minBy of nothing
  /\ TakeFromControlBox
  /\ lost' = lost \cup {Head(controlBox).trip}
  /\ car' = FreshCars
  /\ elevatorBox' = FreshBoxes
  /\ elevatorStatus' = << >>
  /\ UNCHANGED <<unsent, dismissed, arrived, stepsLeft>>

-----------------------------------------------------------------------------
(* Elevator e handles the first message of its mailbox.                    *)
NextTo(e, type)      == elevatorBox[e] # << >> /\ Head(elevatorBox[e]).type = type
TakeFromBox(e)       == elevatorBox' = [elevatorBox EXCEPT ![e] = Tail(@)]
StatusesFrom(e)      == {i \in DOMAIN controlBox : /\ controlBox[i].type = "ElevatorStatus"
                                                   /\ controlBox[i].id = e}
SendStatus(e, c)     == /\ Cardinality(StatusesFrom(e)) < MaxBacklog
                        /\ controlBox' = Append(controlBox, ElevatorStatusMsg(e, c))

ElevatorReportsStatus(e) ==
  /\ NextTo(e, "Status")
  /\ TakeFromBox(e)
  /\ SendStatus(e, car[e])
  /\ UNCHANGED <<car, elevatorStatus, ledger, stepsLeft>>

ElevatorPicksUp(e) ==
  /\ NextTo(e, "PickUp")
  /\ TakeFromBox(e)
  /\ LET t == Head(elevatorBox[e]).trip
     IN  IF IsTrip(t)
         THEN /\ car' = [car EXCEPT ![e] = PickUp(@, t)]
              /\ UNCHANGED dismissed
         ELSE /\ dismissed' = dismissed \cup {t}
              /\ UNCHANGED car
  /\ UNCHANGED <<controlVars, unsent, lost, arrived, stepsLeft>>

ElevatorReportsThenMoves(e) == \* variant: the status tells of before the move
  /\ NextTo(e, "Step")
  /\ TakeFromBox(e)
  /\ SendStatus(e, car[e])
  /\ car' = [car EXCEPT ![e] = Move(@)]
  /\ arrived' = arrived \cup ((Riding(car[e]) \cup Waiting(car[e]))
                                 \ (Riding(car'[e]) \cup Waiting(car'[e])))
  /\ UNCHANGED <<elevatorStatus, unsent, dismissed, lost, stepsLeft>>

ElevatorMoves(e) ==
  /\ NextTo(e, "Step")
  /\ TakeFromBox(e)
  /\ car' = [car EXCEPT ![e] = Move(@)]
  /\ SendStatus(e, car'[e])
  /\ arrived' = arrived \cup ((Riding(car[e]) \cup Waiting(car[e]))
                                 \ (Riding(car'[e]) \cup Waiting(car'[e])))
  /\ UNCHANGED <<elevatorStatus, unsent, dismissed, lost, stepsLeft>>

-----------------------------------------------------------------------------
ControlHandles == ReceiveStatus \/ ReceiveStep \/ RouteTrip \/ Restart
ElevatorHandles(e) == ElevatorReportsStatus(e) \/ ElevatorPicksUp(e) \/ ElevatorMoves(e)

Next == \/ \E t \in Trips : RequestTrip(t)
        \/ RequestStep
        \/ \E e \in Elevators : Tick(e)
        \/ ControlHandles
        \/ \E e \in Elevators : ElevatorHandles(e)

Spec == Init /\ [][Next]_vars

(***************************************************************************)
(* The dispatcher runs every actor that has a message, and the timers run  *)
(* as long as the actors live.                                             *)
(***************************************************************************)
FairSpec == /\ Spec
            /\ WF_vars(ControlHandles)
            /\ \A e \in Elevators : WF_vars(Tick(e)) /\ WF_vars(ElevatorHandles(e))

-----------------------------------------------------------------------------
(* TypeOK: fields, mailboxes, view and ledgers hold what their declarations *)
(* say, and each kind of message is only ever sent to who understands it.   *)
Status == [currentFloor : Int, goalFloor : Int, direction : Direction]
ToElevator == {StepMsg, StatusMsg} \cup {PickUpMsg(t) : t \in Trips}
ToControl  == {StepMsg} \cup {PickUpMsg(t) : t \in Trips}
              \cup [type : {"ElevatorStatus"}, id : Elevators, status : Status]
TypeOK == /\ car \in [Elevators -> Car]
          /\ elevatorBox \in [Elevators -> Seq(ToElevator)]
          /\ Known \subseteq Elevators
          /\ \A e \in Known : elevatorStatus[e] \in Status
          /\ controlBox \in Seq(ToControl)
          /\ unsent \subseteq Trips /\ dismissed \subseteq Trips
          /\ lost \subseteq Trips /\ arrived \subseteq Trips
          /\ stepsLeft \in 0..MaxSteps

(* ViewCatchesUp: what the control actor will know of an elevator once it  *)
(* has handled the statuses in its mailbox is what the elevator is doing   *)
(* now; so a route is chosen from a state the car really was in, also when *)
(* a status of a child that a restart has stopped arrives after it.        *)
LastHeard(e) ==
  IF StatusesFrom(e) # {}
  THEN controlBox[CHOOSE i \in StatusesFrom(e) : \A j \in StatusesFrom(e) : j <= i].status
  ELSE elevatorStatus[e]
ViewCatchesUp ==
  \A e \in Elevators : StatusesFrom(e) # {} \/ e \in Known => LastHeard(e) = Snapshot(car[e])

(* EachTripHasOnePlace: a trip is with its client, in one mailbox, in one  *)
(* queue of one car, or done with; neither routing nor a restart, which    *)
(* throws the cars and their mailboxes away, drops or doubles one that the *)
(* control actor had passed on.                                            *)
Places(t, q)     == {i \in DOMAIN q : q[i] = t}
AmongRequests(t) == {<<"control", i>> : i \in Places(PickUpMsg(t), controlBox)}
InMailboxes(t)   ==
  UNION {{<<"mailbox", e, i>> : i \in Places(PickUpMsg(t), elevatorBox[e])} : e \in Elevators}
AtCars(t)        ==
  UNION {{<<"pickUp", e, i>> : i \in Places(t, car[e].pickUpQueue)} : e \in Elevators}
InCars(t)        ==
  UNION {{<<"riding", e, i>> : i \in Places(t, car[e].destinationQueue)} : e \in Elevators}
Recorded(t, what, S) == {<<what>> : x \in {t} \cap S}
Entries(t) == UNION {AmongRequests(t), InMailboxes(t), AtCars(t), InCars(t),
                     Recorded(t, "unsent", unsent), Recorded(t, "dismissed", dismissed),
                     Recorded(t, "lost", lost), Recorded(t, "arrived", arrived)}
EachTripHasOnePlace == \A t \in Trips : Cardinality(Entries(t)) = 1

(* ImplementsTripService: over all cars and mailboxes, a trip is accepted  *)
(* by one car, boards it where it waits and leaves it where it wants to;   *)
(* one that came to nothing had not been accepted.                         *)
CarOf(t) == {e \in Elevators : t \in Waiting(car[e]) \cup Riding(car[e])}
Stage(t) == IF t \in dismissed THEN "dismissed"
            ELSE IF t \in lost THEN "lost"
            ELSE IF t \in arrived THEN "arrived"
            ELSE IF \E e \in Elevators : t \in Waiting(car[e]) THEN "waiting"
            ELSE IF \E e \in Elevators : t \in Riding(car[e]) THEN "riding"
            ELSE "requested"
Service == INSTANCE TripService WITH
             Cars    <- Elevators, NoCar <- 0,
             stage   <- [t \in Trips |-> Stage(t)],
             carrier <- [t \in Trips |-> IF CarOf(t) = {} THEN 0
                                         ELSE CHOOSE e \in CarOf(t) : TRUE],
             at      <- [e \in Elevators |-> car[e].currentFloor]
ImplementsTripService == Service!Spec

(* EveryTripEnds: each request that reaches the control actor comes to an  *)
(* end: the passenger arrives, unless the trip led nowhere or the request  *)
(* met a control actor that knew no elevator yet (floors from 0 up).       *)
EveryTripEnds ==
  (\A t \in Trips : t.from >= 0 /\ t.to >= 0) =>
    \A t \in Trips : t \notin unsent ~> t \in dismissed \cup lost \cup arrived

(* EveryTripRouted: ElevatorControlSystem.scala:25 says of pickup that it  *)
(* "Routes a given [[ElevatorTrip]] request to an elevator".               *)
EveryTripRouted == lost = {}
=============================================================================
