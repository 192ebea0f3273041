-------------------------- MODULE GreedyElevators --------------------------
(***************************************************************************)
(* elevator4: BuildingState and ElevatorState (com.johndulin.playground).  *)
(* pickup gives a call, a floor and a direction, to an elevator; step      *)
(* moves every elevator by a floor at most, lets out who wants the next    *)
(* floor and lets in one passenger for a call from there, who chooses his  *)
(* destination at random.                                                  *)
(*                                                                         *)
(* Simulation makes a call, of any floor and direction, before every step, *)
(* for ever.  No bound is put on it: floors, destinations and the calls of *)
(* an elevator, one per floor, are finitely many.                          *)
(***************************************************************************)
EXTENDS Filtering

CONSTANTS numElevators, floors

ASSUME GreedySizesAssumption == numElevators \in Nat \ {0} /\ floors \in Nat \ {0}

Lifts == 0..(numElevators - 1)
Floors    == 0..(floors - 1)          \* where Simulation.request makes calls
Dir       == {1, -1}
Call      == [floor : Floors, dir : Dir]

VARIABLES lift,       \* the fields floor, pass and pick of each ElevatorState
          due         \* what the loop of Simulation does next

greedyVars == <<lift, due>>

GreedyInit == /\ lift = [e \in Lifts |->
                           [floor |-> floors \div 2, pass |-> {}, pick |-> << >>]]
              /\ due = "pickup"

Abs(n)    == IF n < 0 THEN -n ELSE n
Sign(n)   == IF n > 0 THEN 1 ELSE IF n < 0 THEN -1 ELSE 0
CalledFrom(s) == {c.floor : c \in Range(s.pick)}

-----------------------------------------------------------------------------
(* near of the passengers' destinations: one at the least distance.        *)
NearPass(s) == {d \in s.pass : \A x \in s.pass : Abs(d - s.floor) <= Abs(x - s.floor)}

(* near of the calls: the first whose DIRECTION is nearest to the floor.   *)
(* A Scala Map of at most four entries goes by the order they were put in, *)
(* one that has had more by its hashes.                                    *)
NearPick(s) ==
  LET dist(i) == Abs(s.pick[i].dir - s.floor)
  IN  {s.pick[i].floor : i \in {k \in DOMAIN s.pick :
         \A j \in DOMAIN s.pick :
            dist(k) < dist(j) \/ (dist(k) = dist(j) /\ (floors <= 4 => k <= j))}}

(* direction: passengers first, then calls, else none.                     *)
DirectionsCallsFirst(s) ==       \* variant: calls come before passengers
  LET targets == IF s.pick # << >> THEN NearPick(s) ELSE NearPass(s)
  IN  {Sign(d - s.floor) : d \in targets}
Directions(s) ==
  LET targets == IF s.pass # {} THEN NearPass(s) ELSE NearPick(s)
  IN  {Sign(d - s.floor) : d \in targets}

(* board: the destinations the new passenger may choose.                   *)
BoardUpToFloors(s, next) ==      \* variant: the upper bound is one too high
  LET called == {c \in Range(s.pick) : c.floor = next}
  IN  IF called = {} THEN {{}}
      ELSE IF \E c \in called : c.dir < 0
      THEN {{d} : d \in IF next <= 1 THEN {0} ELSE 0..(next - 1)}
      ELSE {{d} : d \in (s.floor - 1)..floors}
Board(s, next) ==
  LET called == {c \in Range(s.pick) : c.floor = next}
  IN  IF called = {} THEN {{}}
      ELSE IF \E c \in called : c.dir < 0
      THEN {{d} : d \in IF next <= 1 THEN {0} ELSE 0..(next - 1)}
      ELSE {{d} : d \in (s.floor - 1)..(floors - 1)}

WithoutCall(pick, floor) == Only(pick, {c \in Call : c.floor # floor})

(* step of one elevator; the assignment of 1 to a second `next` when the   *)
(* first is 0 has no effect.                                               *)
StepsForgettingPassengers(s) ==  \* variant: who boards takes the place of the others
  IF s.pick = << >> /\ s.pass = {} THEN {s}
  ELSE UNION {{[floor |-> s.floor + dir,
                pass  |-> IF b = {} THEN s.pass \ {s.floor + dir} ELSE b,
                pick  |-> WithoutCall(s.pick, s.floor + dir)] : b \in Board(s, s.floor + dir)}
              : dir \in Directions(s)}
Steps(s) ==
  IF s.pick = << >> /\ s.pass = {} THEN {s}
  ELSE UNION {{[floor |-> s.floor + dir,
                pass  |-> (s.pass \ {s.floor + dir}) \cup b,
                pick  |-> WithoutCall(s.pick, s.floor + dir)] : b \in Board(s, s.floor + dir)}
              : dir \in Directions(s)}

Step ==
  /\ due = "step"
  /\ due' = "pickup"
  /\ \E next \in [Lifts -> UNION {Steps(lift[e]) : e \in Lifts}] :
       /\ \A e \in Lifts : next[e] \in Steps(lift[e])
       /\ lift' = next

-----------------------------------------------------------------------------
(* ElevatorState.pickup: a call from a floor that already has one replaces *)
(* its direction and keeps its place.                                      *)
PutCall(pick, c) ==
  IF \E i \in DOMAIN pick : pick[i].floor = c.floor
  THEN [i \in DOMAIN pick |-> IF pick[i].floor = c.floor THEN c ELSE pick[i]]
  ELSE Append(pick, c)

(* closest: the first of all elevators at the least distance, whatever     *)
(* intersection found possible.                                            *)
Distance(e, floor) == Abs(lift[e].floor - floor)
Closest(floor) ==
  {e \in Lifts : \A f \in Lifts :
     \/ Distance(e, floor) < Distance(f, floor)
     \/ Distance(e, floor) = Distance(f, floor) /\ e <= f}

PickUp(c) ==
  /\ due = "pickup"
  /\ due' = "step"
  /\ \E e \in Closest(c.floor) : lift' = [lift EXCEPT ![e].pick = PutCall(@, c)]

(* One turn of the loop: any call, then a step.                            *)
GreedyNext == (\E c \in Call : PickUp(c)) \/ Step

GreedySpec == GreedyInit /\ [][GreedyNext]_greedyVars

(***************************************************************************)
(* The loop is one thread and never ends.  Nothing is asked of what it     *)
(* draws: a run of draws in which some floor is never called is possible.  *)
(***************************************************************************)
GreedyFairSpec == GreedySpec /\ WF_greedyVars(GreedyNext)

-----------------------------------------------------------------------------
(* GreedyTypeOK: the elevators stay within two floors below and the top of *)
(* the building, since a passenger who boards at 0 may choose a floor      *)
(* below the one the elevator comes from; nobody has another wish.         *)
GreedyTypeOK == /\ lift \in [Lifts -> [floor : -2..(floors - 1),
                                        pass  : SUBSET (-2..(floors - 1)),
                                        pick  : Seq(Call)]]
                /\ due \in {"pickup", "step"}

(* PassengersFirst: with passengers aboard, a step lets one of them out or *)
(* brings the elevator nearer to the one whose floor was nearest: no call  *)
(* diverts it ("Prioritizes dropping passengers off", ElevatorState:79).   *)
PassengersFirst ==
  [][Step => \A e \in Lifts :
               LET s == lift[e]  t == lift'[e]
               IN  s.pass # {} =>
                     \E d \in NearPass(s) :
                       \/ t.floor = d
                       \/ d \in t.pass /\ Abs(d - t.floor) < Abs(d - s.floor)]_greedyVars

(* SomebodyGetsOut: an elevator that is never empty again lets people out  *)
(* again and again, though passengers who board on the way change which    *)
(* destination is nearest and turn it round, and though calls come before  *)
(* every step.  Not everybody: who boards later and wants a nearer floor   *)
(* gets out first, for ever if such passengers go on boarding.             *)
SomebodyGetsOut ==
  \A e \in Lifts : \/ []<>(lift[e].pass = {})
                   \/ []<><<lift'[e].floor \in lift[e].pass>>_greedyVars

(* NobodyGoingAway: elevator4/README.md:45 says that on a new pick-up "the *)
(* control system excludes any elevators from possible assignment which    *)
(* are going the other way from the passenger".                            *)
Space(floor, dir) == IF dir = 1 THEN floor..(floors - 1)
                     ELSE IF dir = -1 THEN 0..floor ELSE Floors
Idle(e) == lift[e].pick = << >> /\ lift[e].pass = {}
Intersection(c) ==
  {e \in Lifts : \/ Idle(e)
                 \/ \E dir \in Directions(lift[e]) :
                      Space(c.floor, c.dir) \subseteq Space(lift[e].floor, dir)}
NobodyGoingAway ==
  [][\A c \in Call : PickUp(c) /\ Intersection(c) # {} =>
                       Closest(c.floor) \subseteq Intersection(c)]_greedyVars
=============================================================================
