---------------------------- MODULE JvmLifetime ----------------------------
(***************************************************************************)
(* Four programs of computing/concurrent that hand work to another thread, *)
(* and the life of the JVM they run in, which ends with the last thread    *)
(* that is no daemon:                                                      *)
(*   daemon    a queue of tasks and a worker that polls it for ever        *)
(*   executor  withExecutor and its gracefulShutdown (its only use is in a *)
(*             comment, Main.java:22-27: a consumer that submits)          *)
(*   future    myFuture, a promise completed on a thread of the global pool*)
(*   latch     MySystem, whose only thread waits for terminate()           *)
(* Threads interleave; an action is what a thread does between two points  *)
(* where another can see it.                                               *)
(***************************************************************************)
EXTENDS Integers, Sequences, Functions

CONSTANT Tasks

(* How a task ends: it returns, throws an exception, throws a fatal error, *)
(* returns or is interrupted, or never ends and ignores interrupts.        *)
Kind == {"returns", "throws", "fatal", "sleeps", "hangs"}

VARIABLES
  program,      \* which of the four runs
  kind,         \* what each task is like
  main,         \* where the main thread is
  threads,      \* the threads that are alive
  queue,        \* tasks handed over and not started
  current,      \* the task that runs, or NoTask
  interrupted,  \* the worker has been interrupted
  count,        \* the latch
  submitted, started,         \* tasks in the order they were handed over, started
  outcome,      \* what became of each task
  jvm

tasksState == <<queue, current, interrupted, submitted, started, outcome>>
vars == <<program, kind, main, threads, count, tasksState, jvm>>

NoTask == "none"

ASSUME TasksAssumption == NoTask \notin Tasks

Daemon   == "daemon"
Executor == "executor"
Future   == "future"
Latch    == "latch"

Outcome == {"new", "done", "failed", "unresolved", "cancelled"}

(* setDaemon(true); the threads of the global execution context are daemons*)
(* too, those of an executor and of MySystem are not.                      *)
DaemonsAlways == {"worker"}      \* variant: a pool of daemon threads
Daemons == IF program \in {Daemon, Future} THEN {"worker"} ELSE {}

Init == /\ program \in {Daemon, Executor, Future, Latch}
        /\ kind \in [Tasks -> Kind]
        /\ main = "working"
        /\ threads = CASE program = Daemon -> {"main", "worker"}
                       [] program = Latch  -> {"main", "waiter"}
                       [] OTHER            -> {"main"}    \* pools start theirs when needed
        /\ queue = << >> /\ current = NoTask /\ interrupted = FALSE
        /\ count = 1
        /\ submitted = << >> /\ started = << >>
        /\ outcome = [t \in Tasks |-> "new"]
        /\ jvm = "up"

-----------------------------------------------------------------------------
(* The main thread: asynchronous, executor.submit or global.execute; then  *)
(* it sleeps, or shuts the executor down, or counts the latch down.        *)
Submit(t) ==
  /\ jvm = "up" /\ main = "working" /\ program # Latch
  /\ t \notin Range(submitted)
  /\ program = Future => submitted = << >>            \* one future
  /\ queue' = Append(queue, t)
  /\ submitted' = Append(submitted, t)
  /\ threads' = IF program = Daemon THEN threads ELSE threads \cup {"worker"}
  /\ UNCHANGED <<program, kind, main, count, current, interrupted, started, outcome, jvm>>

Sleep ==
  /\ main = "working" /\ program \in {Daemon, Future}
  /\ main' = "sleeping"
  /\ UNCHANGED <<program, kind, threads, count, tasksState, jvm>>

Shutdown ==                                           \* executor.shutdown()
  /\ main = "working" /\ program = Executor
  /\ main' = "awaiting"
  /\ UNCHANGED <<program, kind, threads, count, tasksState, jvm>>

TerminateWithoutCountDown ==     \* variant: the call is left out
  /\ main = "working" /\ program = Latch
  /\ main' = "ended" /\ threads' = threads \ {"main"}
  /\ UNCHANGED <<program, kind, count, tasksState, jvm>>

Terminate ==
  /\ main = "working" /\ program = Latch
  /\ count' = 0
  /\ main' = "ended" /\ threads' = threads \ {"main"}
  /\ UNCHANGED <<program, kind, tasksState, jvm>>

WakeUp ==
  /\ main = "sleeping"
  /\ main' = "ended" /\ threads' = threads \ {"main"}
  /\ UNCHANGED <<program, kind, count, tasksState, jvm>>

(* awaitTermination returns when the pool has ended or after five seconds; *)
(* shutdownNow, in any case, takes what is queued out of the queue and     *)
(* interrupts the worker.                                                  *)
ShutdownNow ==
  /\ main = "awaiting"
  /\ main' = "ended" /\ threads' = threads \ {"main"}
  /\ outcome' = [t \in Tasks |-> IF t \in Range(queue) THEN "cancelled" ELSE outcome[t]]
  /\ queue' = << >>
  /\ interrupted' = TRUE
  /\ UNCHANGED <<program, kind, count, current, submitted, started, jvm>>

MainSteps == \/ \E t \in Tasks : Submit(t)
             \/ Sleep \/ Shutdown \/ Terminate \/ WakeUp \/ ShutdownNow

-----------------------------------------------------------------------------
(* The worker.                                                             *)
PollUnguarded ==                 \* variant: poll of a Java queue, its null unchecked
  /\ jvm = "up" /\ "worker" \in threads /\ current = NoTask
  /\ current' = IF queue = << >> THEN NoTask ELSE Head(queue)
  /\ queue' = IF queue = << >> THEN queue ELSE Tail(queue)
  /\ started' = Append(started, current')
  /\ UNCHANGED <<program, kind, main, threads, count, interrupted, submitted, outcome, jvm>>

PollWithoutDequeue ==            \* variant: head instead of dequeue
  /\ jvm = "up" /\ "worker" \in threads /\ current = NoTask /\ queue # << >>
  /\ current' = Head(queue)
  /\ started' = Append(started, Head(queue))
  /\ Len(started) <= Len(submitted)         \* a bound
  /\ UNCHANGED <<program, kind, main, threads, count, queue, interrupted, submitted, outcome, jvm>>

Poll ==
  /\ jvm = "up" /\ "worker" \in threads /\ current = NoTask /\ queue # << >>
  /\ current' = Head(queue)
  /\ queue' = Tail(queue)
  /\ started' = Append(started, Head(queue))
  /\ UNCHANGED <<program, kind, main, threads, count, interrupted, submitted, outcome, jvm>>

TaskEnds(how) ==
  /\ jvm = "up" /\ current # NoTask
  /\ outcome' = [outcome EXCEPT ![current] = how]
  /\ current' = NoTask
  /\ UNCHANGED <<program, kind, main, count, queue, interrupted, submitted, started, jvm>>

TaskReturns ==
  /\ TaskEnds("done")
  /\ kind[current] \in {"returns", "sleeps"}
  /\ UNCHANGED threads

(* A task that throws ends the loop of the daemon worker; the executor's   *)
(* FutureTask keeps what was thrown; myFuture fails its promise, but for a *)
(* fatal error, which leaves the promise as it is.                         *)
Throws(t) == \/ kind[t] \in {"throws", "fatal"}
             \/ kind[t] = "sleeps" /\ interrupted
TaskThrows ==
  /\ current # NoTask /\ Throws(current)
  /\ TaskEnds(IF program = Future /\ kind[current] = "fatal" THEN "unresolved" ELSE "failed")
  /\ threads' = IF program = Daemon THEN threads \ {"worker"} ELSE threads

(* The executor's thread ends after the shutdown when it has nothing to do.*)
PoolEnds ==
  /\ program = Executor /\ main # "working"
  /\ "worker" \in threads /\ current = NoTask /\ queue = << >>
  /\ threads' = threads \ {"worker"}
  /\ UNCHANGED <<program, kind, main, count, tasksState, jvm>>

(* MySystem's thread gets through await.                                   *)
WaiterEnds ==
  /\ "waiter" \in threads /\ count = 0
  /\ threads' = threads \ {"waiter"}
  /\ UNCHANGED <<program, kind, main, count, tasksState, jvm>>

WorkerSteps == Poll \/ TaskReturns \/ TaskThrows \/ PoolEnds \/ WaiterEnds

JvmEnds ==
  /\ jvm = "up" /\ threads \subseteq Daemons
  /\ jvm' = "down"
  /\ UNCHANGED <<program, kind, main, threads, count, tasksState>>

Next == MainSteps \/ WorkerSteps \/ JvmEnds

Spec == Init /\ [][Next]_vars

(***************************************************************************)
(* Threads that can go on do, timed waits end, and a task other than one   *)
(* that hangs ends in the end.                                             *)
(***************************************************************************)
FairSpec == Spec /\ WF_vars(MainSteps) /\ WF_vars(WorkerSteps) /\ WF_vars(JvmEnds)

-----------------------------------------------------------------------------
(* TypeOK: threads, tasks and outcomes are what their comments say.        *)
TypeOK ==
  /\ program \in {Daemon, Executor, Future, Latch} /\ kind \in [Tasks -> Kind]
  /\ main \in {"working", "sleeping", "awaiting", "ended"}
  /\ threads \subseteq {"main", "worker", "waiter"}
  /\ queue \in Seq(Tasks) /\ submitted \in Seq(Tasks) /\ started \in Seq(Tasks)
  /\ current \in Tasks \cup {NoTask}
  /\ interrupted \in BOOLEAN /\ count \in 0..1
  /\ outcome \in [Tasks -> Outcome]
  /\ jvm \in {"up", "down"}

(* TasksInTurn: tasks are started in the order they were handed over, each *)
(* once and one at a time, and those not started are the last ones: still  *)
(* queued, or cancelled, by the shutdown that raced them, with none after  *)
(* them started.                                                           *)
Waiting == SubSeq(submitted, Len(started) + 1, Len(submitted))
TasksInTurn ==
  /\ IsInjective(submitted)
  /\ Len(started) <= Len(submitted)
  /\ started = SubSeq(submitted, 1, Len(started))
  /\ \/ queue = Waiting
     \/ queue = << >> /\ \A t \in Range(Waiting) : outcome[t] = "cancelled"
  /\ \A i \in DOMAIN started :
       outcome[started[i]] = "new" <=> i = Len(started) /\ current = started[i]

(* ExecutorForgetsNothing: an executor's JVM does not end before each task *)
(* it was given has ended or been cancelled, though nobody looks at the    *)
(* result of awaitTermination.                                             *)
ExecutorForgetsNothing ==
  program = Executor /\ jvm = "down" => \A t \in Range(submitted) : outcome[t] # "new"

(* ProgramEnds: the main thread gets to its end, and so does the JVM, also *)
(* when the worker is busy, dead, or has work left; only a task that hangs *)
(* in an executor keeps it up ("JVM does not terminate if the following    *)
(* call is commented out", latches/system.scala:37).                       *)
Hung == program = Executor /\ current # NoTask /\ kind[current] = "hangs"
ProgramEnds == <>(main = "ended" /\ (jvm = "down" \/ Hung))
=============================================================================
