------------------------------ MODULE Airplane ------------------------------
(***************************************************************************)
(* The plane simulation (akka/airplane): main asks the plane for its       *)
(* controls and schedules movements of the stick and the end; the controls *)
(* turn them into rates of climb, the altimeter ticks and tells its        *)
(* listeners the altitude.                                                 *)
(*   Timers and actors may be late by any time, so that of the clock only  *)
(* the order of the deadlines matters: Await, the time main waits for the  *)
(* controls, and the end of the flight are 2, the movements in that scale. *)
(* Main asks by Horizon - 2 * Await at the latest.                         *)
(* Amounts are in halves, rates in halves of maxRateOfClimb.               *)
(***************************************************************************)
EXTENDS Filtering

CONSTANTS Horizon,    \* where the clock stops
          MaxTicks,   \* how many ticks the altimeter is sent, at most
          Nobody      \* not a message

Await == 2

ASSUME BoundsAssumption == Horizon \in Nat /\ Horizon >= 2 * Await /\ MaxTicks \in Nat

VARIABLES
  now,
  mainThread, mainSince,   \* and when it asked, then scheduled its tasks
  todo,                    \* the tasks that have not run
  plane, controls, altimeter,
  planeBox, controlsBox, altimeterBox,
  listeners,               \* the plane as often as it is registered
  rateOfClimb, altitude, lastTick,
  nextTick,                \* when the ticker fires next
  ticks,                   \* history: how many ticks the altimeter has read
  heard                    \* history: the last update the plane has read

mainVars == <<mainThread, mainSince, todo>>
flightVars == <<rateOfClimb, altitude, lastTick, ticks>>
airplaneVars == <<now, mainVars, plane, controls, altimeter, planeBox, controlsBox, altimeterBox,
                  listeners, flightVars, nextTick, heard>>

-----------------------------------------------------------------------------
GiveMeControl    == [msg |-> "GiveMeControl"]
RegisterListener == [msg |-> "RegisterListener"]
Tick             == [msg |-> "Tick"]
StickBack(amount)    == [msg |-> "StickBack", amount |-> amount]
StickForward(amount) == [msg |-> "StickForward", amount |-> amount]
RateChange(amount)   == [msg |-> "RateChange", amount |-> amount]
AltitudeUpdate(n, a) == [msg |-> "AltitudeUpdate", n |-> n, altitude |-> a]
Update == [msg : {"AltitudeUpdate"}, n : Int, altitude : Int]

ASSUME NobodyAssumption == Nobody \notin Update

(* What main schedules once it has the controls: movements, and the end.   *)
Movements == << [at |-> 0, do |-> StickBack(2)], [at |-> 0, do |-> StickBack(0)],
                [at |-> 1, do |-> StickBack(1)], [at |-> 1, do |-> StickBack(0)] >>
End == [at |-> 2, do |-> Nobody]
AllTasks == Append(Movements, End)

(* The system and the plane exist, and the plane's own thread may run on   *)
(* before main asks for the controls.                                      *)
AirplaneInit ==
  /\ now = 0
  /\ mainThread = "starting" /\ mainSince = 0 /\ todo = {}
  /\ plane = "new" /\ controls = "none" /\ altimeter = "none"
  /\ planeBox = << >> /\ controlsBox = << >> /\ altimeterBox = << >>
  /\ listeners = 0
  /\ rateOfClimb = 0 /\ altitude = 0 /\ lastTick = 0 /\ nextTick = 0
  /\ ticks = 0 /\ heard = Nobody

(* The clock waits for main at its next deadline: the end of its wait, the *)
(* end of the flight.                                                      *)
ClockEnd == IF mainThread = "starting" THEN Horizon - 2 * Await ELSE mainSince + Await

Advance == /\ now < ClockEnd
           /\ now' = now + 1
           /\ UNCHANGED <<mainVars, plane, controls, altimeter, planeBox, controlsBox,
                          altimeterBox, listeners, flightVars, nextTick, heard>>

-----------------------------------------------------------------------------
(* The plane: its constructor creates the two others, preStart registers   *)
(* it.  A stopped actor's messages are lost.                               *)
PlaneConstructs ==
  /\ plane = "new"
  /\ plane' = "constructed" /\ controls' = "up" /\ altimeter' = "new"
  /\ UNCHANGED <<now, mainVars, planeBox, controlsBox, altimeterBox, listeners, flightVars,
                 nextTick, heard>>

PlanePreStart ==
  /\ plane = "constructed"
  /\ plane' = "up"
  /\ altimeterBox' = Append(altimeterBox, RegisterListener)
  /\ UNCHANGED <<now, mainVars, controls, altimeter, planeBox, controlsBox, listeners, flightVars,
                 nextTick, heard>>

PlaneGivesControl ==
  /\ plane = "up" /\ planeBox # << >> /\ Head(planeBox) = GiveMeControl
  /\ planeBox' = Tail(planeBox)
  /\ mainThread' = IF mainThread = "waiting" THEN "answered" ELSE mainThread
  /\ UNCHANGED <<now, mainSince, todo, plane, controls, altimeter, controlsBox, altimeterBox,
                 listeners, flightVars, nextTick, heard>>

PlaneHears ==
  /\ plane = "up" /\ planeBox # << >> /\ Head(planeBox).msg = "AltitudeUpdate"
  /\ planeBox' = Tail(planeBox)
  /\ heard' = Head(planeBox)
  /\ UNCHANGED <<now, mainVars, plane, controls, altimeter, controlsBox, altimeterBox, listeners,
                 flightVars, nextTick>>

-----------------------------------------------------------------------------
ControlsMove ==
  /\ controls = "up" /\ controlsBox # << >>
  /\ LET m == Head(controlsBox)
     IN  altimeterBox' =
           IF altimeter = "stopped" THEN altimeterBox
           ELSE Append(altimeterBox, RateChange(IF m.msg = "StickBack" THEN m.amount ELSE -1 * m.amount))
  /\ controlsBox' = Tail(controlsBox)
  /\ UNCHANGED <<now, mainVars, plane, controls, altimeter, planeBox, listeners, flightVars,
                 nextTick, heard>>

-----------------------------------------------------------------------------
(* The altimeter.  Its constructor sets lastTick and starts the ticker.    *)
AltimeterStarts ==
  /\ altimeter = "new"
  /\ altimeter' = "up"
  /\ lastTick' = now /\ nextTick' = now + 1
  /\ UNCHANGED <<now, mainVars, plane, controls, planeBox, controlsBox, altimeterBox, listeners,
                 rateOfClimb, altitude, ticks, heard>>

TicksSent == ticks + Len(Only(altimeterBox, {Tick}))
TickerFires ==
  /\ altimeter = "up" /\ now >= nextTick /\ TicksSent < MaxTicks
  /\ nextTick' = nextTick + 1
  /\ altimeterBox' = Append(altimeterBox, Tick)
  /\ UNCHANGED <<now, mainVars, plane, controls, altimeter, planeBox, controlsBox, listeners,
                 flightVars, heard>>

AltimeterReads(m) ==
  /\ altimeter = "up" /\ altimeterBox # << >>
  /\ Head(altimeterBox).msg = m
  /\ altimeterBox' = Tail(altimeterBox)
  /\ UNCHANGED <<now, mainVars, plane, controls, altimeter, controlsBox, nextTick, heard>>

AddListener ==
  /\ AltimeterReads("RegisterListener")
  /\ listeners' = listeners + 1
  /\ UNCHANGED <<planeBox, flightVars>>

ChangeRate ==
  /\ AltimeterReads("RateChange")
  /\ LET amount == Head(altimeterBox).amount
     IN  rateOfClimb' = IF amount > 2 THEN 2 ELSE IF amount < -2 THEN -2 ELSE amount
  /\ UNCHANGED <<planeBox, listeners, altitude, lastTick, ticks>>

(* sendEvent.                                                              *)
SendUpdate(a) ==
  planeBox' = planeBox \o [i \in 1..listeners |-> AltitudeUpdate(ticks', a)]

Climb(since) == altitude' = altitude + (now - since) * rateOfClimb

HandleTickForgettingIt ==                  \* variant: lastTick stays
  /\ Climb(lastTick) /\ ticks' = ticks + 1 /\ SendUpdate(altitude') /\ UNCHANGED lastTick
HandleTickSendingFirst ==                  \* variant: the event before the assignment
  /\ Climb(lastTick) /\ ticks' = ticks + 1 /\ SendUpdate(altitude) /\ lastTick' = now
HandleTick ==
  /\ Climb(lastTick) /\ ticks' = ticks + 1 /\ SendUpdate(altitude') /\ lastTick' = now

AltimeterTicks ==
  /\ AltimeterReads("Tick")
  /\ HandleTick
  /\ UNCHANGED <<listeners, rateOfClimb>>

-----------------------------------------------------------------------------
(* main asks for the controls, waits for them and schedules its tasks; the *)
(* answer may come too late: then main throws and schedules none.          *)
MainAsks ==
  /\ mainThread = "starting"
  /\ mainThread' = "waiting" /\ mainSince' = now
  /\ planeBox' = Append(planeBox, GiveMeControl)
  /\ UNCHANGED <<now, todo, plane, controls, altimeter, controlsBox, altimeterBox, listeners,
                 flightVars, nextTick, heard>>

TakeOffForEver == todo' = DOMAIN Movements        \* variant: no end is scheduled
TakeOff == todo' = DOMAIN AllTasks

MainGoesOn ==
  /\ mainThread = "answered"
  /\ mainThread' = "done" /\ mainSince' = now
  /\ TakeOff
  /\ UNCHANGED <<now, plane, controls, altimeter, planeBox, controlsBox, altimeterBox, listeners,
                 flightVars, nextTick, heard>>

MainThrows ==
  /\ mainThread = "waiting" /\ now >= mainSince + Await
  /\ mainThread' = "failed"
  /\ UNCHANGED <<now, mainSince, todo, plane, controls, altimeter, planeBox, controlsBox,
                 altimeterBox, listeners, flightVars, nextTick, heard>>

(* A task that is due runs on a thread of its own; none does when the      *)
(* scheduler has been closed with the system.                              *)
Due(i) == i \in todo /\ now >= mainSince + AllTasks[i].at /\ plane # "stopped"

MoveStick(i) ==
  /\ Due(i) /\ i \in DOMAIN Movements
  /\ todo' = todo \ {i}
  /\ controlsBox' = IF controls = "stopped" THEN controlsBox
                    ELSE Append(controlsBox, Movements[i].do)
  /\ UNCHANGED <<now, mainThread, mainSince, plane, controls, altimeter, planeBox, altimeterBox,
                 listeners, flightVars, nextTick, heard>>

(* terminate: the plane reads no more messages and stops behind the two    *)
(* others, in either order; the altimeter cancels its ticker.              *)
TerminateSystem ==
  /\ Due(Len(AllTasks))
  /\ todo' = todo \ {Len(AllTasks)}
  /\ plane' = "stopping"
  /\ UNCHANGED <<now, mainThread, mainSince, controls, altimeter, planeBox, controlsBox,
                 altimeterBox, listeners, flightVars, nextTick, heard>>

ControlsStop ==
  /\ plane = "stopping" /\ controls = "up"
  /\ controls' = "stopped" /\ controlsBox' = << >>
  /\ UNCHANGED <<now, mainVars, plane, altimeter, planeBox, altimeterBox, listeners, flightVars,
                 nextTick, heard>>

AltimeterStops ==
  /\ plane = "stopping" /\ altimeter \in {"new", "up"}
  /\ altimeter' = "stopped" /\ altimeterBox' = << >>
  /\ UNCHANGED <<now, mainVars, plane, controls, planeBox, controlsBox, listeners, flightVars,
                 nextTick, heard>>

PlaneStops ==
  /\ plane = "stopping" /\ controls = "stopped" /\ altimeter = "stopped"
  /\ plane' = "stopped" /\ planeBox' = << >>
  /\ UNCHANGED <<now, mainVars, controls, altimeter, controlsBox, altimeterBox, listeners,
                 flightVars, nextTick, heard>>

Plane     == PlaneConstructs \/ PlanePreStart \/ PlaneGivesControl \/ PlaneHears
Altimeter == AltimeterStarts \/ AddListener \/ ChangeRate \/ AltimeterTicks
Stops     == ControlsStop \/ AltimeterStops \/ PlaneStops
Main      == MainAsks \/ MainGoesOn \/ MainThrows

AirplaneNext == \/ Advance \/ Main \/ Plane \/ ControlsMove \/ Altimeter \/ TickerFires
                \/ (\E i \in DOMAIN Movements : MoveStick(i)) \/ TerminateSystem \/ Stops

(* Threads and timers run; how late they are is open.                      *)
AirplaneSpec == /\ AirplaneInit /\ [][AirplaneNext]_airplaneVars
                /\ WF_airplaneVars(Advance) /\ WF_airplaneVars(Main)
                /\ WF_airplaneVars(Plane) /\ WF_airplaneVars(TerminateSystem)
                /\ WF_airplaneVars(Stops)

-----------------------------------------------------------------------------
(* AirplaneTypeOK: actors, tasks and mailboxes are what they should be,    *)
(* and the plane is no higher than the best climb since its start could    *)
(* take it: no stretch of time is counted twice.                           *)
AirplaneTypeOK ==
  /\ now \in 0..Horizon /\ mainSince \in 0..Horizon /\ todo \subseteq DOMAIN AllTasks
  /\ mainThread \in {"starting", "waiting", "answered", "done", "failed"}
  /\ plane \in {"new", "constructed", "up", "stopping", "stopped"}
  /\ controls \in {"none", "up", "stopped"}
  /\ altimeter \in {"none", "new", "up", "stopped"}
  /\ \A k \in DOMAIN planeBox : planeBox[k].msg \in {"GiveMeControl", "AltitudeUpdate"}
  /\ \A k \in DOMAIN controlsBox : controlsBox[k].msg \in {"StickBack", "StickForward"}
  /\ \A k \in DOMAIN altimeterBox :
       altimeterBox[k].msg \in {"RegisterListener", "RateChange", "Tick"}
  /\ listeners \in {0, 1} /\ ticks \in 0..MaxTicks
  /\ rateOfClimb \in -2..2 /\ lastTick \in 0..now
  /\ altitude \in Int /\ altitude <= 2 * lastTick /\ altitude >= -2 * lastTick

(* PlaneHearsTheFlight: from the tick after its registration on, however   *)
(* late that was, the plane hears of every tick, once and in order: what   *)
(* it has heard and what is in its mailbox run up to the last tick, and    *)
(* the newest is the altitude the altimeter has now.                       *)
Updates == Only(planeBox, Update)
PlaneHearsTheFlight ==
  plane # "stopped" =>
    LET news == IF heard = Nobody THEN Updates ELSE <<heard>> \o Updates
    IN  /\ \A k \in DOMAIN news : news[k].n = ticks - Len(news) + k
        /\ news # << >> => news[Len(news)].altitude = altitude

(* FlightEnds: the program ends, in whatever order the tasks, the actors   *)
(* and their stops come, except where main has not got the controls in     *)
(* time: then the actor system goes on for ever.                           *)
FlightEnds == <>(mainThread = "failed" \/ (mainThread = "done" /\ plane = "stopped"))
=============================================================================
