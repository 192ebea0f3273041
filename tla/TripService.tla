---------------------------- MODULE TripService ----------------------------
(***************************************************************************)
(* What the Akka elevator system promises its passengers, without queues,  *)
(* goals, directions or messages: a trip is accepted by one car or comes   *)
(* to nothing; a car takes in everyone who waits for it at the floor where *)
(* it stands, lets out everyone who wants to leave there, and goes on by   *)
(* one floor at most.                                                      *)
(* ElevatorActor and ElevatorControlSystem are shown to implement it.      *)
(***************************************************************************)
EXTENDS Integers

CONSTANTS Trips, Cars, NoCar

VARIABLES stage,        \* how far each trip has come
          carrier,      \* the car it waits for or rides in
          at            \* the floor where each car stands

vars == <<stage, carrier, at>>

Stage == {"requested", "waiting", "riding", "arrived", "dismissed", "lost"}

TypeOK == /\ stage \in [Trips -> Stage]
          /\ carrier \in [Trips -> Cars \cup {NoCar}]
          /\ at \in [Cars -> Int]

Init == /\ stage = [t \in Trips |-> "requested"]
        /\ carrier = [t \in Trips |-> NoCar]
        /\ at = [c \in Cars |-> 0]

Accept(t, c) ==
  /\ stage[t] = "requested"
  /\ stage' = [stage EXCEPT ![t] = "waiting"]
  /\ carrier' = [carrier EXCEPT ![t] = c]
  /\ UNCHANGED at

Refuse(t, why) ==
  /\ stage[t] = "requested"
  /\ stage' = [stage EXCEPT ![t] = why]
  /\ UNCHANGED <<carrier, at>>

Of(c, s) == {t \in Trips : stage[t] = s /\ carrier[t] = c}

Serve(c, next) ==
  LET entering == {t \in Of(c, "waiting") : t.from = at[c]}
      leaving  == {t \in Of(c, "riding") : t.to = at[c]}
  IN  /\ stage' = [t \in Trips |-> IF t \in entering THEN "riding"
                                   ELSE IF t \in leaving THEN "arrived"
                                   ELSE stage[t]]
      /\ carrier' = [t \in Trips |-> IF t \in leaving THEN NoCar ELSE carrier[t]]
      /\ at' = [at EXCEPT ![c] = next]

Next == \/ \E t \in Trips, c \in Cars : Accept(t, c)
        \/ \E t \in Trips, why \in {"dismissed", "lost"} : Refuse(t, why)
        \/ \E c \in Cars : \E next \in (at[c] - 1)..(at[c] + 1) : Serve(c, next)

Spec == Init /\ [][Next]_vars
=============================================================================
