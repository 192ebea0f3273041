# A TLA+ verification project for learning.jvm

`learning.jvm` is a collection of small JVM programs (Scala and Java): elevator
control systems, concurrency and actor examples, network servers, security
protocols and illustrations of language features.  The programs share no state
and no code; each directory is a system of its own.  The project models the
programs that have behaviour, the ones with state that several actors change:
the four elevator control systems under `misc/elevator/3rd`, which hold most of the
repository's control logic, the threads and actors of `computing/concurrent`, the
netty servers, and the browser program that comes with the documentation under
`basics/design patterns/behavioral/di/doc/api`, the repository's only JavaScript.

Contents: [1 Inventory](#1-inventory) - [2 Plan](#2-plan) -
[3 Modules and code](#3-modules-and-code) - [4 Runs](#4-runs) -
[5 Fairness](#5-fairness) - [6 Proofs](#6-proofs) -
[7 Disagreements](#7-disagreements-between-code-and-documentation) -
[8 What is not modelled](#8-what-is-not-modelled) - [9 Running it](#9-running-it)

## 1 Inventory

All paths are below `src/`.  `PROJECT.json` lists every component with its
files, and the hazards at their lines.

### 1.1 Elevators (`misc/elevator`)

| component | state | operations | interaction |
|---|---|---|---|
| **elevator1** `Simulation`, `Elevator` | waiting and delivered passengers; per elevator a floor, a set of passengers, a delivery direction | `updateSimulation` (release, take), `step` | one thread; asks the planner for every elevator's action in turn |
| **elevator1** planner and the two schedulers | a queue of pick-up requests; for FCFS the request assigned to each elevator | `nextActionFor`, `nextIdleElevatorAction`, `isReadyToPickup`, `pickupCompleted` | called by the simulation; mutable queue shared by all elevators |
| **elevator2** `ElevatorActor` | floor, goal, direction, the vectors `pickUpQueue` and `destinationQueue` | `PickUp`, `Step`, `Status` | messages from the control actor and from a timer of one second; a status to its parent after each move |
| **elevator2** `ElevatorControlSystemActor` | last status of each elevator it has heard of | `PickUp` (route), `Step` (broadcast), `ElevatorStatus` | supervises the elevators; a thrown exception restarts it and replaces them all |
| **elevator3** `ElevatorControlSystem`, `Elevator` | queue of calls; per elevator a floor and a queue of destinations | `pickUp`, `destination`, `step` | plain calls, made by tests |
| **elevator4** `BuildingState`, `ElevatorState` | per elevator a floor, a set of destinations, a map of calls | `pickup`, `step` | immutable states, advanced by a key prompt |
| author's `SimpleElevatorControlSystem` | a set of elevators | `pickup`, `update`, `step` | callers hold snapshots of elevators |

*Hard:* messages in any order, statuses that lag behind (elevator2); restart by
supervision (elevator2); one elevator serving or removing the request of another
(elevator1, elevator4); goals kept while the queues change (elevator2);
boundaries of the building, unchecked everywhere but in elevator1.
*Correct when* each request is served once and not lost, every passenger arrives,
an elevator keeps its way while it has passengers or a goal, and the floor stays
in the building as far as the code means it to.

### 1.2 Concurrency (`computing/concurrent`)

| component | state | operations | interaction |
|---|---|---|---|
| busy-waiting worker | a mutable queue of tasks | `asynchronous`, `poll`, the run loop | main thread and one daemon thread, the queue's monitor |
| latch and executor | count of a latch; queue and run state of a thread pool | `await`, `terminate`; `submit`, `gracefulShutdown` | which threads keep the JVM alive |
| futures and promises | promise: empty, success or failure | `myFuture`, `map`, `flatMap`, `foreach` | callbacks on daemon threads, a main thread that sleeps |
| airplane (Akka) | listeners; rate of climb, altitude, last tick; controls | `RegisterListener`, `UnregisterListener`, `RateChange`, `Tick`, `StickBack`, `StickForward`, `GiveMeControl` | three actors, a ticker, scheduled commands, termination |

*Hard:* JVM exit against unfinished work; a worker killed by a task; time-outs
whose result nobody looks at; the order of scheduled commands.
*Correct when* each task runs at most once and in order, whatever is submitted
runs or is known to be cancelled, and the JVM ends exactly when it should.

### 1.3 Servers (`web/general/netty`) and security (`web/security`)

| component | state | operations | interaction |
|---|---|---|---|
| telnet, echo, file, discard servers | listening channel; per connection open or closed, outbound buffer, owned buffers and files | `channelActive`, `channelRead`, `channelReadComplete`, `exceptionCaught`, main | event loops and the main thread; one client's request shuts the server down |
| OAuth service (Lagom) | an event log per entity, never read | six commands, each persisted then answered | concurrent callers, entity passivation and recovery |
| JWT server (akka-http) | none besides the clock | `login`, `user`, binding | requests |
| SASL exchange | challenge and completion state of the JDK mechanism | challenge, response, evaluate | one client, one server, one thread |

*Hard:* a reply that is written and not flushed when its channel is closed; one
connection ending the others; commands repeated after a time-out; recovery from
events nobody handles.
*Correct when* replies come in the order of requests and are complete before a
close, a shutdown ends every connection and the program, and an entity's answers
agree with its log.

### 1.4 Documentation browser (`basics/design patterns/behavioral/di/doc/api`)

Scaladoc's pages and scripts; `lib/index.js`, `lib/scheduler.js` and `lib/template.js`
are its own program, the rest of `lib` is third-party.

| component | state | operations | interaction |
|---|---|---|---|
| scheduler (`scheduler.js`) | queues of work under labels, a timer | `addLabel`, `add`, `clear`, `nextWork` | one piece of work per timer event |
| entity list (`index.js`) | the list displayed, text, focus, kind, hidden packages, handlers bound to links | `textFilter` and its `searchLoop`, `focusFilter`, `kindFilter`, `hidePackage`, `showPackage` | events of the user; its search runs in pieces on the scheduler |
| frame, address, title (`index.js`, `template.js`) | `location.hash`, `lastFragment`, where the frame is, the title | load, hashchange, `windowTitle`, links | events of the browser, in any order it allows; the page in the frame sets the title of the window |
| member page (`template.js`) | text, visibility, order, linearization; which members are displayed | `filter`, `orderAlpha`, `orderInherit`, `initInherit` | events of the user; starts afresh with every page |

*Hard:* a search in pieces while its inputs change; a handler that throws half-way;
handlers bound again after each search; an address that both follows the frame and
leads it; two member lists, of which one is filtered only when it is displayed.
*Correct when* the list answers the filters as they are, every link does once what it
says, address and title name the page shown, no member is displayed twice or missing,
and all comes to rest when the user does.

### 1.5 The rest

`computing/distributed` (an RMI hello world, a Spark word count), `basics`
(zippers, monoids, design patterns, dependency injection, type-level programming),
`parsing`, `misc/pickling`, `misc/fpinscala`: sequential programs of a few lines,
calls of libraries, or code that only the compiler looks at.  Section 8
has the reasons.

## 2 Plan

Order of work; the most involved protocols first.

| # | module(s) | builds on | what it states | state |
|---|---|---|---|---|
| 1 | `Filtering`, `ElevatorCar`, `ElevatorActor` | - | queues and course of one elevator actor | done |
| 2 | `TripService` | - | abstract: what a passenger is promised | done |
| 3 | `ElevatorControlSystem` | `ElevatorCar`, `TripService` | control actor, children, mailboxes, restart | done |
| 4 | `FilteringLemmas`, `ElevatorCarLemmas`, `ElevatorActorProofs`, `ElevatorControlSystemProofs` | 1-3 | invariants and refinements for every set of trips and elevators | done |
| 5 | `PickupScheduler`, `ElevatorSimulation` | `Filtering` | elevator1 with both schedulers | done |
| 6 | `FifoElevators` | - | elevator3 | done |
| 7 | `GreedyElevators` | `Filtering` | elevator4 | done |
| - | `SteppedElevatorsProofs` | 5-7 | invariants of the elevators that are called in steps | done |
| 8 | `JvmLifetime` | - | daemon worker, latch, executor, future: the tasks of a program against the end of its JVM | done |
| 9 | `Airplane` | `Filtering` | the plane's actors with ticks and shutdown | done |
| - | `ConcurrentProofs` | 8, 9 | invariants of both for every number of tasks and ticks | done |
| 10 | `NettyServer`, `NettyServerProofs` | - | connections, buffers, close and shutdown of the four servers | done |
| 11 | `Scheduler`, `EntityIndex` | - | the documentation's list of entities and its filters | done, proved in 13 |
| 12 | `TemplateFrame`, `MemberPage` | - | the frame with its address and title; the page in it | done, proved in 13 |
| 13 | `DocBrowser`, `DocBrowserProofs` | 11, 12 | the window: list, frame and page together | done |

Abstract specification: `TripService` (implemented by 1 and 3).

The safety properties and action properties of all these runs are proved (section 6);
the liveness properties stay with TLC.

## 3 Modules and code

Constants are parameters with named assumptions; one handler or method that
changes state is one action; a `\* variant:` definition beside a definition is a
plausible slip of the same code, which the `mutants` of `PROJECT.json` put in its
place to see that a property notices.

| module | models | state and actions |
|---|---|---|
| `Filtering` | `Vector.filter`, `filterNot`, `dequeueAll` | `Only(q, S)`: the elements of `q` in `S`, written as a recursive function so that it can be proved about |
| `ElevatorCar` | the fields and computations of `ElevatorActor.scala` | a car is a record; `PickUp`, `Move` (which is `removeOnTheFlyGoals`, the choice of goal and direction, and one floor of travel) |
| `ElevatorActor` | one actor, as its unit test drives it | `ReceivePickUp`, `ReceiveEmptyPickUp` (from a floor to itself), `ReceiveStep` |
| `TripService` | the promise to a passenger (abstract) | `Accept`, `Refuse`, `Serve` |
| `ElevatorControlSystem` | `ElevatorControlSystemActor.scala` and its children | mailboxes as sequences; `RequestTrip`, `RequestStep`, `Tick`, `ReceiveStatus`, `ReceiveStep`, `RouteTrip`, `Restart`, and the three handlers of an elevator |
| `PickupScheduler` | the two schedulers of elevator1 | operators on the queue and the assignment |
| `ElevatorSimulation` | `Simulation.scala`, `Elevator.scala`, `ElevatorActionPlanner.scala` | the two loops over the elevators, one action per branch; `phase` and `turn` say where the thread is |
| `FifoElevators` | elevator3 | `PickUpAt`, `Destination`, `StepAll` |
| `GreedyElevators` | elevator4 under the loop of `Simulation` | `PickUp` and `Step` in turn, for ever, as the only driver has it (`due`); the random call and the random destination of a new passenger are any the code can draw |
| `NettyServer` | the four programs of `web/general/netty` | per connection the units sent, read, being handled, written and received; the handlers (`LineTooLong` is `exceptionCaught` after the decoder has thrown), `Connect`, `Read`, `Lose` (the client's end fails), `CloseListening` (boss loop), `MainWakes`, `CloseAll` and `LoopsEnd` (the loops' shutdown) |
| `JvmLifetime` | `busy-waiting.scala`, `executor/Main.java`, `myfuture.scala`, `latches/system.scala` | one of the four programs, the threads alive, the queue; the main thread's steps (`Submit`, `Sleep`, `Shutdown`, `ShutdownNow`, `Terminate`, ...), the worker's (`Poll`, `TaskReturns`, `TaskThrows`, ...), and `JvmEnds` |
| `Airplane` | `akka/airplane` | the three actors with their mailboxes, main (`MainAsks`, `MainGoesOn`, `MainThrows`), its tasks and the clock; one action per handler, constructor, hook and timer |
| `Scheduler` | `scheduler.js` | the scheduler is a record; its methods are operators |
| `EntityIndex` | `index.js`: the list and its filters | `Type`, `KeyUp`, `ClickClear`, `ClickFocus`, `ClickFocusRemove`, `ClickKind`, `ClickHide`; `Timer*`: what the timer runs |
| `TemplateFrame` | `index.js`: frame, fragment, title; `windowTitle` | `FollowLink`, `FollowAnchor`, `EditHash`; `FrameArrives`, `FrameLoads`, `HashChange`; `readable` says whether the two documents may read each other, and what the `catch` branches do follows it |
| `MemberPage` | `template.js`: members and controls | `EnterText`, `ToggleClass`, `HideAll`, `ShowAll`, `SetVisibility`, `SetOrder`, each with the `filter` it ends in |
| `DocBrowser` | the window | the three together: a displayed entity is a link for the frame, a page that arrives has fresh controls and names the window |
| `MC*` | - | the small sets of trips and jobs the runs use |
| `*Lemmas`, `*Proofs` | - | theorems (section 6).  Where one module proves things of several specifications it extends them all, which is why `FifoElevators`, `GreedyElevators` and `Airplane` put their name before `Init`, `Next` and the like |

Choices worth knowing:

* *Identity.* Trips of elevator2 and jobs of elevator3 carry an id, which the code
  does not have, so that two equal requests can be told apart.  Nothing the models
  do looks at it.
* *Ghost state.* `requested`, `dismissed`, `arrived` (elevator2), `called`, `given`,
  `served` (elevator3) record what became of a request and guard only the clients,
  who use each request once.
* *Actors.* A handler is one action: an actor handles one message at a time and
  shares nothing.  A mailbox is a sequence.  Akka orders the messages of one sender
  only; handlers of different senders interleave freely, and so do their sends.
* *Restart.* `minBy` over an empty map throws (`ElevatorControlSystemActor.scala:66`).
  The default strategy restarts the actor: children are stopped, the message is
  dropped, the constructor runs again, the mailbox stays.  `Restart` does all this
  in one step; a child that is busy when it is stopped is a child that had handled
  its message just before.
* *Nondeterminism of collections.* `minBy`, `head` of a `Set` and the iteration of a
  `Map` take the first element of an order the code does not control; the models
  allow any, except in elevator4: there a `Map` of at most four calls, one per floor,
  keeps the order they were put in, and so does the model when there are at most four
  floors; with more, it allows any.
* *Netty.* The library is modelled from how the handlers use it (4.0, `build.sbt`): one
  event of a connection at a time; a read brings any part of what has arrived; a
  write is kept until a flush; `close` drops what is kept; the frames of a read still
  reach the handler after it has closed its channel; the boss loop closes the
  listening channel some time after the handler asked; a loop that shuts down closes
  its connections between their events.  A flush reaches the client at once, except
  that what lies behind a reply with a close listener may be cut off.  `END` is two
  pieces of text, since echo compares one read of the socket with it.  A line of
  more than 8192 bytes makes the decoders of telnet and file throw: `exceptionCaught`
  closes the channel in the middle of the read, what was written and not flushed is
  dropped, and later frames of the same read still reach the handler.  A socket that
  fails also ends in `exceptionCaught` or in an inactive channel; that is the client's
  loss (`Lose`), at any moment, in the middle of a read too.  Telnet's greeting looks
  up the name of its own machine, which is taken to succeed.
* *Tasks.* What a task does is not in the code that runs it, so each task is of any
  kind: it returns, throws, throws a fatal error, waits for something that comes or
  for an interrupt, or hangs and ignores interrupts.  Time-outs are steps that may
  happen at any moment.  A pool that is shut down ends its idle thread, and
  `shutdownNow` empties its queue and interrupts, as `java.util.concurrent` promises.
* *Airplane.* Actors, timers and tasks may be late by any time, so of the clock only
  the order of the deadlines counts, and five seconds are two units.  The system and the
  plane exist before main asks for the controls, so the plane may be built, register
  and be sent updates before the request is in its mailbox.  Amounts are in
  halves of full stick, rates in halves of `maxRateOfClimb`.  A stopped system closes
  its scheduler; a stopping actor reads no more messages.
* *Browser.* One event at a time.  The display is what `hide` and `show` leave; layout,
  wording and icons are left out.  A text is one of a few queries with the set of
  entities each finds, or none where `compilePattern`, which escapes no braces,
  throws: what `textFilter` did before stays done, what its caller would have done
  after is not.  The text changes with a key and is read when the key is released.  A
  navigation may be replaced by another, or be ended by a link or an address that
  scrolls within the page that is there; a load event may come before or after the
  ready handler binds to it, and may be that of the empty document the frame starts
  with; a hashchange comes some time after its change.  The browser may forbid the index page
  and the frame to read each other (`readable` is either, and stays), as the comments
  say of Chrome on the local file system.
* *Integers.* Floors are `Int`; no run comes near overflow, and the proofs are over
  the integers.

## 4 Runs

| run | module, cfg | bounds | shows |
|---|---|---|---|
| `car` | `MCElevatorActor` | 5 trips, floors 0..3 | 1,860 states. `OnCourse`: goal, direction and queues stay in step though pick-ups arrive at any time. `EachTripOnce`: the filters neither drop nor double a trip. `ImplementsTripService`. `EveryTripArrives` |
| `control_system` | `MCElevatorControlSystem` | 2 elevators, 2 trips, 1 Step command, 1 unread status and 1 timer Step per elevator | 63,414 states, about 90 s. `ViewCatchesUp`: the statuses in the mailbox lead to the present state, also across a restart. `EachTripHasOnePlace`. `ImplementsTripService`. `EveryTripEnds` |
| `trip_lost` | same, `ElevatorTripLost.cfg` | no Step command | violated, see section 7 |
| `simulation` | `ElevatorSimulation` | 4 floors, 3 elevators as in the code, every list of up to 3 passengers, both schedulers | 144,305 states. `RidersGoOneWay`, `RequestsMatchWaiting`, `DirectionBasedDeliversAll` |
| `fcfs` | same, `ElevatorSimulationFCFS.cfg` | 2 floors, 1 passenger | violated, see section 7 |
| `fifo` | `MCFifoElevators` | 2 elevators, 3 calls (2 from one floor, below the start), 2 destinations | 22,230 states. `EachJobInOrder`, `NoIdlingWhileCallsWait`, `EveryCallServed` |
| `greedy` | `GreedyElevators` | 1 elevator, 4 floors; a call before every step, for ever | 73,390 states. `PassengersFirst`: no call diverts an elevator with passengers. `SomebodyGetsOut`: one that is never empty again lets somebody out again and again, though it may turn round for those who board |
| `going_away` | same, `GreedyElevatorsGoingAway.cfg` | 2 elevators | violated, see section 7 |
| `netty` | `NettyServer` | each of the 4 servers, 2 clients, 3 units between them | 165,143 states. `AnswersInOrder`, `EveryCloseIsSaid`, `ShutdownEnds`, `EveryUnitRead` |
| `jvm` | `JvmLifetime` | each of the 4 programs, 3 tasks of any of 5 kinds | 69,941 states. `TasksInTurn`, `ExecutorForgetsNothing`, `ProgramEnds` |
| `airplane` | `Airplane` | 2 ticks; the four movements and the end; main asks up to one unit late, and has both deadlines ahead of it | 1,030,300 states, about 65 s. `PlaneHearsTheFlight`, `FlightEnds`; `AirplaneTypeOK` bounds the altitude by what can have been flown |
| `docs` | `MCDocBrowser` | 3 packages, 3 texts, 4 members of 3 classes; the user acts 3 times on the list, 3 on the frame, 2 on a page, or once on two of them | 165,334 states, about 100 s. `ListIsAnswer`, `LinksAgree`, `PageNamed`, `MembersOnce`, `WindowSettles` |

Each passing run also checks its module's `TypeOK` (`FifoTypeOK`, `GreedyTypeOK`, `AirplaneTypeOK`).

Why the bounds suffice for what is asked.  *car:* two trips from one floor, one
that ends where another begins, opposite ways over the same floors and an empty
trip make every branch of `move` meet every other; a sixth trip only repeats one.
*control_system:* two trips and two cars are the least with a choice of route that
a stale or missing status can change; one unread status per car is enough for a
status to be stale, and for one of a stopped child to arrive after a restart.
*simulation:* three passengers are needed for an elevator to take the passenger of
another elevator's request and still to be wanted by a third.  *fifo:* three calls
and two elevators leave calls waiting after one step, and a floor below the start
shows that nothing stops an elevator there.  *greedy:* nothing
is cut off: floors, destinations and calls, one per floor, are finitely many.  A step
of one elevator does not look at another, and `pickup` only chooses which gets the
call, so the run has one elevator, which gets them all; turns in which one of several
gets no call are not in it, but `GreedyTypeOK` and `PassengersFirst` are proved for any
number, and fewer calls only mean fewer who board.  Two are needed for `going_away`.  With four floors an elevator can be turned round by a
passenger between two others, and the map of calls keeps its order.  *netty:* one client is needed to shut
the server down and one to be in the middle of something; three units let `bye` or
`shutdown` have requests before and behind it in one read, and `END` be split, be
alone, and be joined with other text; and they let a line too long come between two
others in one read.  *jvm:* with three tasks one can have ended, one
be running (or have taken the worker with it) and one be queued when the main thread
gets on.  *airplane:* two ticks are needed for one to be missed or doubled, for one to
come before the registration and one after, for a rate change to fall between
them, and for the request for the controls to come behind an update.  *docs:* the parts meet only where a link of the list leads the frame and where
the frame brings a page, so that the user's actions are bounded for each part; three
on the list are a text, a focus and a click while the search of either runs, and three
on the frame let a link, an edit and another edit overtake the load of the first.  A
package, one inside it and one whose name only starts alike are what the focus has to
tell apart.  Of members there is a constructor, an inherited one of either spelling
and a protected one.

`CHECK_DEADLOCK FALSE` is set for `ElevatorSimulation`, whose loop ends, for
`NettyServer`, which ends after a shutdown and rests when its clients are silent, and
for `JvmLifetime` and `Airplane`, whose programs end; and for `DocBrowser`, where the
user stops.

## 5 Fairness

* `ElevatorActor`: weak fairness of `ReceiveStep`.  The actor schedules `Step` to
  itself every second until it stops (`ElevatorActor.scala`, the scheduler in the
  constructor).  Clients owe nothing.
* `ElevatorControlSystem`: weak fairness of the control actor, of each elevator and
  of each timer: a dispatcher runs every actor whose mailbox is not empty.  The
  `MaxBacklog` bound is a guard of an elevator's handlers, so an elevator waits for
  the control actor to read its last status, which the same fairness provides.
* `ElevatorSimulation`: weak fairness of `Next`: one thread in a `while` loop.
* `FifoElevators`: weak fairness of `StepAll`.  The callers, the tests of elevator3, go
  on calling it; no fairness is asked of calls and destinations.
* `GreedyElevators`: weak fairness of the loop of `Simulation`, one thread that never
  ends.  Nothing is asked of the calls and destinations it draws: a floor that is
  never drawn is a behaviour.
* `NettyServer`: weak fairness of each connection's handlers, of the boss loop, of the
  main thread and of the loops' shutdown: threads that are runnable run.  Clients owe
  nothing and may hang up at any time.
* `JvmLifetime`: weak fairness of the main thread, of the other thread and of the end
  of the JVM: runnable threads run and timed waits end.  A task that hangs has no
  step to be fair to.
* `Airplane`: weak fairness of the clock, of main, of the plane, of the task that ends
  the flight and of the actors' stops.  None is needed for controls, altimeter, ticker
  and the other tasks: the flight ends without them.
* `DocBrowser`: weak fairness of the timer and the other events of the list, of the
  frame's arrival and of its load and hashchange: the browser dispatches what is due.
  That a key is released is one of these; otherwise the user owes nothing.

## 6 Proofs

TLAPS checks these for every value of the constants.  Each inductive invariant was
model-checked on its component's instance (section 4) before it was proved.

* `FilteringLemmas`: `FilterProperties` and `FilterDistinct`, what `Only` keeps and
  that it keeps each element once if the sequence had it once; `NextNumber` and
  `NumbersSkipped`, how the answers among the first n packages grow with n.  The
  recursion is over the length of the sequence, and the induction is done on the set
  of lengths for which the statement holds (`NatSetInduction`), since an induction
  theorem with a predicate parameter cannot be instantiated here.
* `ElevatorCarLemmas`: `StopServesAll` and `MoveServesAll` (a stop takes in everyone
  who waits there and lets out everyone who wants to leave there, nobody else),
  `MoveKeepsCourse`, `MoveOneFloor`.
* `ElevatorActorProofs`: the inductive invariant is
  `Inv == TypeOK /\ OnCourse /\ EachTripOnce /\ Travelling`.  `OnCourse` alone is not
  inductive: that the goal a car pursues still has somebody behind it needs the
  queues to lose a trip only at the floor where the car stands (`MoveServesAll`),
  and `EachTripOnce` needs that nobody rides whose trip ends where it began
  (`Travelling`), or he would enter and leave in one stop and never be seen
  arriving from a ride.  From it: `TypeCorrect`, `CourseKept`, `TripsConserved`, and
  `ServiceImplemented == Spec => ImplementsTripService`, where every `ReceivePickUp`
  is an `Accept`, every empty one a `Refuse`, and every `ReceiveStep` a `Serve` that
  moves the car by a floor at most.
* `ElevatorControlSystemProofs`: `TypeCorrect`, `ViewCurrent`, `OnePlaceAlways` and
  `ServiceImplemented`.  `EachTripHasOnePlace` counts the places of a trip; the
  invariant says the same with sets, which the provers can follow: a trip is asked
  for, sent to an elevator, in a car, done or not yet requested, these sets are
  disjoint (`PlaceInv`), and no mailbox or queue has it twice (`OnceInv`).  A restart
  would break this, for it replaces every elevator and with it the trips aboard, were
  it not that it happens only while no elevator is known; then none has been sent a
  trip and all stand as they were built (`ColdInv`), so that a restart loses the one
  request it was handling and resets nothing.  `ViewInv` is `ViewCatchesUp` said of
  positions in the mailbox instead of a maximum: a status behind which there is no
  other of the same elevator, or the recorded one when there is none, tells where it is.
  In the refinement an elevator's `PickUp` is an `Accept` or a `Refuse`, its `Move` a
  `Serve`, a restart `Refuse(t, "lost")`, and all other messages stutter.
* `SteppedElevatorsProofs`, elevator1: `TypeCorrect`, `RidersAgree`, `QueueMatches`.
  `RequestsMatchWaiting` is not inductive: an elevator that opens its doors removes
  the request of its floor and way from the common queue, and only because its own
  update of the same round has taken in everybody who wants that way is the request
  nobody's (`FetchedInv`); and between the two loops the queue does hold requests
  nobody waits for, those of elevators that have just filled up and are about to step
  (`QueueInv`).  That elevators stay in the building comes from `RidersGoOneWay`, the
  goal of the passengers being in it and ahead.
* `SteppedElevatorsProofs`, elevator3: `FifoTypeCorrect`, `JobsInOrder`, `NobodyIdles`.
  What is dealt in one step is defined by cardinalities: an empty elevator gets the
  call whose number is its rank among the empty ones.  The rank is a numbering of them
  by consecutive numbers in the order of their indices (`RankIsNumbering`,
  `RankedUpTo`), so the calls dealt are the first ones of the queue, each to one
  elevator (`Dealing`), and what stays is its end (`QueueIsEnd`); if any call stays,
  no elevator was left empty (`NobodyIdles`).  `EachJobInOrder` is inductive together
  with the types and the fact that no job is called twice; the work is in
  `StepAllInv`, where each elevator's list of given jobs is what it had served and
  what it has left, with a dealt call behind it.
* `SteppedElevatorsProofs`, elevator4: `NearTheBuilding == GreedySpec => []GreedyTypeOK`.  The next floor lies
  between the elevator and a target, targets are calls (in the building) or wishes,
  and a passenger boards only at a call's floor, so the lowest wish is the floor
  before 0 from below, minus one: -2.  The bound is reached in the `greedy` run.
  `PassengersLead == GreedySpec => PassengersFirst`: a step with passengers goes towards one
  of the nearest wishes, whatever has been called.
* `ConcurrentProofs`, tasks: `JvmTypeCorrect`, `TasksAlwaysInTurn`, `ForgetsNothing`.
  `InTurn` is `TasksInTurn` said of places in the lists, with what a step needs: only
  the end of main takes tasks out of the queue unstarted (`Cancelled`), so that a
  task submitted or polled meets a queue that is all of what waits (`Queued`); nothing
  has become of a task that waits; the worker's task is the last one started.
  `ShutdownNow` cancels exactly the tasks not started because no task is handed over
  twice.  `ForgetsNothing` needs `Lives`: without a worker no executor task runs, and
  main, which is the last to add to the queue, leaves it empty; so the JVM, which
  ends with the last of the two, finds nothing undecided.
* `ConcurrentProofs`, flight: `AirplaneTypeCorrect`, `HearsTheFlight`.  `InStep` is
  `PlaneHearsTheFlight` by places: an update's number is that of the last tick less the
  updates behind it, and only the last one must tell the present altitude.  It is kept
  because a tick sends one update and no more, which is what `OneRegistration` is for:
  a registration to come, one in the mailbox and the listeners are together one at
  most.  Before the registration there is no update at all.  The places are those
  among the updates, so that it does not matter where between them main's request for
  the controls comes (`Asked`; `FilterOfAppend` and `FilterOfTail` say what the two ends
  of a mailbox do to them).  The altitude is within the
  best climb since the start because each tick integrates from `lastTick` to now and
  moves `lastTick` there (`ClimbBound`); that the clock stays below the horizon is
  `OnTime`.
* `NettyServerProofs`: `TypeCorrect`, `RepliesInOrder`, `ClosesAreSaid`.  What a client
  has sent splits into what was handled, the frames of the current read and what is
  unread (`IsSplit`), which is what makes "the replies to what was handled" a stable
  notion however reads cut the stream; while a channel is open, what the client
  received and what is kept for a flush are together exactly what it is due, and
  afterwards what it received is a prefix of it (`RepliesMatch`).  Only telnet keeps
  replies back, and only inside a read; only telnet gets frames after its own close.
  `ClosesAreSaid` needs in addition that the listening channel is closed before main
  goes on and shuts the loops down (`ShutdownInOrder`), and that a line too long stays
  in the record of what a connection was closed for (`LineTooLongInv`).
* `DocBrowserProofs`: `TypeCorrect`, `ListAnswersAlways`, `LinksAlwaysAgree`,
  `PageAlwaysNamed`, `MembersAlwaysOnce`.  The invariant joins three: of the list, that
  the scheduler holds the ready handler's work under `init`, at most one search under
  `filter` and never any work under `focus` (`SchedulerInv`), and that the list is the
  answers among the packages this search has passed (`SearchInv`); of the frame, that a load to
  come will set address and title again where it may, so that they need to be right only
  until the next one is under way, that a change of the address is either seen or has
  its hashchange to come, and that only a link which ended a navigation leaves the
  address behind (`FrameInv`); of the page, that the copies are filtered as
  the flat list is, but only while they are displayed, and again before they are
  (`PageInv`).  The parts share the steps in which a link leads the frame and a page
  that arrives starts afresh.

Assumptions on the constants, each evaluated by a run: floors of trips are integers
(`TripsAssumption`); there is an elevator, and the bounds are numbers
(`ElevatorsAssumption` and `BoundsAssumption` of elevator2, `SizesAssumption` of
elevator1 and `GreedySizesAssumption` of elevator4); the
building of elevator1 has two floors and floor 1, where its elevators start
(`FloorsAssumption`); elevator3 has 1 to 16 elevators, and the floors of its jobs are
integers (`NumElevatorsAssumption`, `JobsAssumption`); "none" is no task
(`TasksAssumption`); the airplane's bounds are numbers, its clock runs at least
twice the time main waits, and `Nobody` is no update (`BoundsAssumption`,
`NobodyAssumption`); `MaxUnits` is a number (`BoundAssumption`); the documentation's packages have names, its queries find known entities or fail to
compile and the empty one finds all (`PackagesAssumption`, `HitsAssumption`), a member's
owner is in the linearization (`MembersAssumption`), the pages are the templates and
the root (`PagesAssumption`, `RootAssumption`), addresses are fragments
(`AddressesAssumption`), and budgets are numbers (`BudgetsAssumption`).  Nothing else.

Only model-checked:

* every liveness property, `WindowSettles` among them: they rest on fairness and
  `ENABLED`, for which the provers have no rule;
* `OnlyIsSelectSeq`, that `Only` is the library's `SelectSeq`: a recursion over data,
  which TLC compares up to length three.

## 7 Disagreements between code and documentation

* `fcfs`: with the first-come-first-served scheduler of elevator1 the last request
  is never fetched.  `nextIdleElevatorAction` answers `Stay` when the queue is empty
  before it looks at the request it assigned (`FCFSElevatorScheduler.scala:18`),
  whereas the README promises that requests are assigned in the order of coming and
  the simulation says it ends with all passengers delivered.
* `trip_lost`: a `PickUp` handled before the first `ElevatorStatus` makes the control
  actor of elevator2 throw and restart, and the trip is gone; the interface says
  that `pickup` routes the request to an elevator.
* `going_away`: `closest` of elevator4 ignores the elevators `intersection` found
  (`BuildingState.scala:53`), whereas its README says elevators going the other way
  are excluded.

Met on the way, without a run of their own (the model has the code, and where a
property says what the code does, it is named):

* elevator2: `ElevatorActor.scala:26` says an empty elevator without a new goal moves
  back to the first floor.  It stays where it let its last passenger out: `OnCourse`,
  which is checked and proved, says that one away from its goal is on its way to
  somebody.
* elevator2: a trip from or to a floor below 0 is accepted, but no car goes below 0
  (`ElevatorActor.scala:122`): it pursues the goal for ever and those behind it wait.
  The trips of the `car` and `control_system` runs are at or above 0, which
  `EveryTripArrives` asks for.
* elevator3: the comment at `ElevatorControlSystem.java:65` says that occupied elevators
  go to the next closest destination in direction.  They go to the first one of their
  queue: `EachJobInOrder`, which is checked and proved, is the order of giving, whatever
  lies on the way.
* elevator4: `near` compares calls by direction instead of floor
  (`ElevatorState.scala:101`), whereas the comment above it speaks of the closest floor
  with a pickup request.  Under the simulation's loop this starves calls: an
  empty elevator may go to and fro between two of them for ever.  A passenger may
  starve as well: those who board later and want a nearer floor are let out first, so
  that a floor is passed again and again, which `README.md:57` of elevator4 means to
  avoid.  `SomebodyGetsOut` states what is left.
* elevator4: the destination of a passenger going up may be below him
  (`ElevatorState.scala:70`), down to floor -2 when he boards at 0; `GreedyTypeOK` has
  that bound.  A second call from a floor replaces the direction of the first.  The
  README's simulation ends with its stack of calls; the loop in `Simulation.scala:21-30`
  makes a new one before every step and has no end.

Telnet's reply to
`shutdown` never reaches its client: the channel is closed before the flush
(`telnet/Main.scala:143`), and with it a goodbye that was read just before.  No
document promises otherwise; the model has it so.

A line of more than 8192 bytes makes telnet and file close a connection nobody asked them to
close, and replies written in the same read and not yet flushed are lost
(`telnet/Main.scala:152`, `file/Server.scala:90`): `EveryCloseIsSaid` names the case.

In the documentation browser, all modelled as the code has it unless said otherwise:

* `initInherit` promises to copy all members below the headings of their owners
  (`template.js:168-171`), but looks only for a `#` in their names (line 184): a member
  named `owner.name`, like those nested in a package's class, is copied nowhere and
  missing in the order by inheritance.  `MembersOnce` is stated for what is copied.
* `subPackages` (`index.js:195`) shadows its parameter, so hiding a package never
  touches the packages inside it.
* A list built while only packages are to be displayed shows its entities all the same:
  `kindFilterSync` is not called after a search.  `LinksAgree` holds, since the new
  links say "hide".
* A text with `{2}` makes `textFilter` throw (`index.js:287`); removing the focus then
  leaves the focus in place, with its bar, and the list empty.
* Before the first load `lastFragment` is not declared, and a hashchange throws
  (`index.js:54`); the load that follows puts the address right.  Where the browser
  does not let the frame be read it is never declared (`index.js:98`): every hashchange
  throws, an edited address leads nowhere, and nothing names the page.
* A link within the page may end a navigation that an edited address has called for;
  no load follows, and the address names another page than the frame until the next
  one (`stopped` in `PageNamed`).
* Text pasted without a key is not searched for until the next key (`index.js:270`);
  the model has no such input.
* `clearLabel` (`scheduler.js:28`) reads an undeclared `i`; nothing calls it and it is
  not modelled.  The alphabet stops before z (`index.js:457`); it is layout here.

In the airplane, tasks of main that are late by most of a second may run in another
order than they were scheduled in, and the plane is left climbing; the altimeter's
`ceiling` is never applied.

## 8 What is not modelled

* The zippers: pure functions on a tree, without a state that several steps could bring
  out of order.
* `UnregisterListener` of the airplane: nobody sends it.
* OAuth (Lagom): the behaviours persist an event nobody handles and answer with a
  constant; an entity has no state that could come to
  disagree with its log.  Crash, recovery and repeated commands make no difference.
* The author's `SimpleElevatorControlSystem`: callers bring back snapshots and so undo
  each other's steps, by its interface (`Main.scala:51`); the only caller makes one call
  of each, one after the other.
* Of the documentation browser: tooltips, the work around Internet Explorer, layout,
  the alphabet, and the folding of comments (`template.js:110-150`), which is an
  animation per comment.  `jquery*.js` and `tools.tooltip.js` are third-party.
* Of `computing/concurrent`: the library futures of `futures/`, whose callbacks print,
  `with(resource)` of `executor/Main.java`, and the hello programs.
* JWT and SASL: a stateless request check and one sequential exchange with JDK
  classes.  A token may expire between the two times it is decoded
  (`HttpApi.scala:118-124`), and then the route prints a failure.
* Who releases buffers and files in the netty servers.
* RMI, Spark, parsers, pickling, signature tutorials: input and output through a
  library, one call after the other.
* Design patterns, dependency injection, phantom types, type lambdas, variance,
  monoids: no state, or nothing that runs.
* The generated pages themselves, the Activator launcher, archives.
* Hazards no property covers.  `PROJECT.json` lists those of modelled code with a note
  that says why (among them trips below 0, calls that starve in elevator3 and 4, a
  promise that is never completed, a plane whose controls come too late); besides, a stop
  on the way removes the assignment of an elevator under first-come-first-served
  (`FCFSElevatorScheduler.scala:34`; `fcfs` refutes that scheduler already); elevator3
  accepts zero elevators (`ElevatorControlSystem.java:27`); a failed binding of the
  JWT server is piped as a message its actor does not match and leaves the system
  running (`HttpApi.scala:145`); a caller of the OAuth service may time out and repeat
  a command whose event was persisted (`BehaviourToken.java:25`), and a token is asked
  of another entity than the registration (`OauthServiceImpl.java:57`).
* In the modelled programs: printing, formatting, key prompts, getters, and the
  `Status` queries that change nothing.

## 9 Running it

In this directory: `tlc -config MCElevatorActor.cfg MCElevatorActor.tla`, and alike
for the other rows of section 4 (`ElevatorTripLost.cfg` goes with
`MCElevatorControlSystem.tla`); `tlapm ElevatorActorProofs.tla` and alike for the
proof modules.  `PROJECT.json` relates definitions to source lines, properties to
the hazards they guard against, and properties to the variants that break them.
