-------------------------- MODULE ConcurrentProofs --------------------------
(***************************************************************************)
(* What holds of the two concurrent programs for every number of tasks,    *)
(* ticks and moments: JvmLifetime, whose tasks are never lost or repeated, *)
(* and Airplane, whose plane hears the whole flight.  (The modules have no *)
(* name in common.)                                                        *)
(***************************************************************************)
EXTENDS JvmLifetime, Airplane, FilteringLemmas

(***************************************************************************)
(* The four programs and their JVM: the tasks.                             *)
(***************************************************************************)

(* InTurn: TasksInTurn said of the places of the tasks, with what a step   *)
(* needs: only the end of main takes tasks out of the queue unstarted,     *)
(* nothing has become of a task that waits, and the worker's task is the   *)
(* last one started.                                                       *)
Queued    == /\ Len(queue) = Len(submitted) - Len(started)
             /\ \A k \in 1..Len(queue) : queue[k] = submitted[Len(started) + k]
Cancelled == /\ main = "ended" /\ queue = << >>
             /\ \A i \in (Len(started) + 1)..Len(submitted) : outcome[submitted[i]] = "cancelled"
InTurn ==
  /\ IsInjective(submitted)
  /\ Len(started) <= Len(submitted)
  /\ \A i \in 1..Len(started) : started[i] = submitted[i]
  /\ Queued \/ Cancelled
  /\ \A i \in 1..Len(started) :
       outcome[started[i]] = "new" <=> i = Len(started) /\ current = started[i]
  /\ \A k \in 1..Len(queue) : outcome[queue[k]] = "new"
  /\ \A t \in Tasks : t \notin Range(submitted) => outcome[t] = "new"
  /\ current # NoTask => Len(started) > 0 /\ current = started[Len(started)]

(* Lives: which threads are there at the least; an executor's JVM waits    *)
(* for its worker, and main leaves it no tasks.                            *)
Lives ==
  /\ main # "ended" => "main" \in threads
  /\ jvm = "down" => main = "ended"
  /\ main = "sleeping" => program # Executor
  /\ program = Executor /\ current # NoTask => "worker" \in threads
  /\ program = Executor /\ main = "ended" => queue = << >>
  /\ ExecutorForgetsNothing

JvmInv == TypeOK /\ InTurn /\ Lives

LEMMA InTurnImplies ==
  ASSUME TypeOK, InTurn
  PROVE  TasksInTurn
<1>1. PICK sub, st, q : sub = submitted /\ st = started /\ q = queue
  OBVIOUS
<1>2. /\ sub \in Seq(Tasks) /\ st \in Seq(Tasks) /\ q \in Seq(Tasks)
      /\ Len(st) <= Len(sub) /\ \A i \in 1..Len(st) : st[i] = sub[i]
  BY <1>1 DEF TypeOK, InTurn
<1>3. PICK w : w = SubSeq(sub, Len(st) + 1, Len(sub))
  OBVIOUS
<1>4. /\ w \in Seq(Tasks) /\ Len(w) = Len(sub) - Len(st) /\ DOMAIN w = 1..Len(w)
      /\ \A k \in 1..Len(w) : w[k] = sub[Len(st) + k]
      /\ Len(st) \in Nat /\ Len(sub) \in Nat /\ Len(w) \in Nat
  BY <1>2, <1>3
<1>5. st = SubSeq(sub, 1, Len(st))
  <2>1. PICK u : u = SubSeq(sub, 1, Len(st))
    OBVIOUS
  <2>2. u \in Seq(Tasks) /\ Len(u) = Len(st) /\ \A i \in 1..Len(st) : u[i] = sub[i]
    BY <1>2, <2>1
  <2>3. \A i \in 1..Len(st) : st[i] = u[i]
    BY <1>2, <2>2
  <2>4. st = u
    BY <1>2, <2>2, <2>3, SeqEqual
  <2> QED BY <2>1, <2>4
<1>6. /\ Waiting = w
      /\ started = SubSeq(submitted, 1, Len(started)) /\ DOMAIN started = 1..Len(started)
  <2>1. DOMAIN st = 1..Len(st)
    BY <1>2
  <2> QED BY <1>1, <1>3, <1>5, <2>1 DEF Waiting
<1>7. SUFFICES queue = w \/ (queue = << >> /\ \A t \in Range(w) : outcome[t] = "cancelled")
  BY <1>6 DEF InTurn, TasksInTurn
<1>8. CASE Queued
  <2>1. Len(q) = Len(w) /\ \A k \in 1..Len(q) : q[k] = w[k]
    BY <1>1, <1>4, <1>8 DEF Queued
  <2>2. q = w
    BY <1>2, <1>4, <2>1, SeqEqual
  <2> QED BY <1>1, <2>2
<1>9. CASE Cancelled
  <2>1. \A t \in Range(w) : outcome[t] = "cancelled"
    <3> TAKE t \in Range(w)
    <3>1. PICK k \in 1..Len(w) : t = sub[Len(st) + k]
      BY <1>4 DEF Range
    <3>2. Len(st) + k \in (Len(st) + 1)..Len(sub)
      BY <1>4
    <3> QED BY <1>1, <1>9, <3>1, <3>2 DEF Cancelled
  <2> QED BY <1>9, <2>1 DEF Cancelled
<1> QED BY <1>8, <1>9 DEF InTurn

LEMMA JvmInitInv == Init => JvmInv
<1> SUFFICES ASSUME Init PROVE JvmInv
  OBVIOUS
<1>1. << >> \in Seq(Tasks) /\ Len(<< >>) = 0
  OBVIOUS
<1>2. TypeOK
  <2>1. threads \subseteq {"main", "worker", "waiter"}
    BY DEF Init
  <2>2. outcome \in [Tasks -> Outcome]
    BY DEF Init, Outcome
  <2>3. queue \in Seq(Tasks) /\ submitted \in Seq(Tasks) /\ started \in Seq(Tasks)
    BY <1>1 DEF Init
  <2>4. /\ program \in {Daemon, Executor, Future, Latch} /\ kind \in [Tasks -> Kind]
        /\ main \in {"working", "sleeping", "awaiting", "ended"}
        /\ current \in Tasks \cup {NoTask} /\ count \in 0..1 /\ jvm \in {"up", "down"}
    BY DEF Init
  <2>5. interrupted \in BOOLEAN
    BY Zenon DEF Init
  <2> QED BY <2>1, <2>2, <2>3, <2>4, <2>5, Zenon DEF TypeOK
<1>3. Range(<< >>) = {} /\ IsInjective(<< >>)
  BY DEF Range, IsInjective
<1>4. InTurn
  BY <1>1, <1>3 DEF Init, InTurn, Queued
<1>5. Lives
  BY DEF Init, Lives, ExecutorForgetsNothing, Executor, Daemon, Latch
<1> QED BY <1>2, <1>4, <1>5 DEF JvmInv

(* A step that touches no task keeps them in turn.                         *)
LEMMA TasksUntouched ==
  ASSUME InTurn, UNCHANGED tasksState, main = "ended" => main' = "ended"
  PROVE  InTurn'
BY DEF InTurn, Queued, Cancelled, tasksState

LEMMA MainInv ==
  ASSUME JvmInv, Sleep \/ Shutdown \/ Terminate \/ WakeUp
  PROVE  JvmInv'
<1>1. TypeOK'
  <2>1. /\ UNCHANGED <<program, kind, tasksState, jvm>> /\ threads' \subseteq threads
        /\ main' \in {"sleeping", "awaiting", "ended"} /\ (count' = count \/ count' = 0)
    BY Zenon DEF Sleep, Shutdown, Terminate, WakeUp
  <2> QED BY <2>1 DEF JvmInv, TypeOK, tasksState
<1>2. InTurn'
  BY TasksUntouched DEF JvmInv, Sleep, Shutdown, Terminate, WakeUp
<1>3. Lives'
  BY DEF JvmInv, Lives, ExecutorForgetsNothing, Sleep, Shutdown, Terminate, WakeUp, tasksState,
         Executor, Daemon, Future, Latch
<1> QED BY <1>1, <1>2, <1>3 DEF JvmInv

LEMMA ThreadEndsInv ==
  ASSUME JvmInv, PoolEnds \/ WaiterEnds
  PROVE  JvmInv'
<1>1. TypeOK'
  BY DEF JvmInv, TypeOK, PoolEnds, WaiterEnds, tasksState
<1>2. InTurn'
  BY TasksUntouched DEF JvmInv, PoolEnds, WaiterEnds
<1>3. Lives'
  BY DEF JvmInv, Lives, ExecutorForgetsNothing, PoolEnds, WaiterEnds, tasksState
<1> QED BY <1>1, <1>2, <1>3 DEF JvmInv

(* Submit puts a task at the end of the queue, which is the end of those   *)
(* handed over.                                                            *)
LEMMA SubmitInv ==
  ASSUME JvmInv, NEW t \in Tasks, Submit(t)
  PROVE  JvmInv'
<1>1. PICK sub, st, q : sub = submitted /\ st = started /\ q = queue
  OBVIOUS
<1>2. /\ sub \in Seq(Tasks) /\ st \in Seq(Tasks) /\ q \in Seq(Tasks)
      /\ IsInjective(sub) /\ t \notin Range(sub)
      /\ Len(st) <= Len(sub) /\ \A i \in 1..Len(st) : st[i] = sub[i]
      /\ Len(q) = Len(sub) - Len(st) /\ \A k \in 1..Len(q) : q[k] = sub[Len(st) + k]
  BY <1>1 DEF JvmInv, TypeOK, InTurn, Queued, Cancelled, Submit
<1>3. PICK sub2, q2 : sub2 = Append(sub, t) /\ q2 = Append(q, t)
  OBVIOUS
<1>4. submitted' = sub2 /\ queue' = q2 /\ started' = st
  BY <1>1, <1>3 DEF Submit
<1>5. /\ sub2 \in Seq(Tasks) /\ Len(sub2) = Len(sub) + 1 /\ sub2[Len(sub) + 1] = t
      /\ \A i \in 1..Len(sub) : sub2[i] = sub[i]
      /\ q2 \in Seq(Tasks) /\ Len(q2) = Len(q) + 1 /\ q2[Len(q) + 1] = t
      /\ \A i \in 1..Len(q) : q2[i] = q[i]
      /\ Len(sub) \in Nat /\ Len(st) \in Nat /\ Len(q) \in Nat
  BY <1>2, <1>3
<1>6. IsInjective(sub2) /\ Range(sub2) = Range(sub) \cup {t}
  BY <1>2, <1>3, AppendDistinct, AppendRange
<1>7. TypeOK'
  <2>1. /\ submitted' \in Seq(Tasks) /\ queue' \in Seq(Tasks) /\ started' \in Seq(Tasks)
    BY <1>2, <1>4, <1>5
  <2>2. threads' \subseteq {"main", "worker", "waiter"}
    BY DEF JvmInv, TypeOK, Submit
  <2>3. UNCHANGED <<program, kind, main, count, current, interrupted, outcome, jvm>>
    BY DEF Submit
  <2> QED BY <2>1, <2>2, <2>3 DEF JvmInv, TypeOK
<1>8. InTurn'
  <2>1. Queued'
    <3>1. Len(q2) = Len(sub2) - Len(st)
      BY <1>2, <1>5
    <3>2. ASSUME NEW k \in 1..Len(q2) PROVE q2[k] = sub2[Len(st) + k]
      <4>1. CASE k \in 1..Len(q)
        <5>1. q2[k] = sub[Len(st) + k] /\ Len(st) + k \in 1..Len(sub)
          BY <1>2, <1>5, <4>1
        <5> QED BY <1>5, <5>1
      <4>2. CASE k \notin 1..Len(q)
        <5>1. k = Len(q) + 1 /\ Len(st) + k = Len(sub) + 1
          BY <1>2, <1>5, <4>2
        <5> QED BY <1>5, <5>1
      <4> QED BY <4>1, <4>2
    <3> QED BY <1>4, <3>1, <3>2 DEF Queued
  <2>2. /\ Len(st) <= Len(sub2) /\ \A i \in 1..Len(st) : st[i] = sub2[i]
    BY <1>2, <1>5
  <2>3. outcome' = outcome /\ current' = current
    BY DEF Submit
  <2>4. outcome[t] = "new"
    BY <1>1, <1>2 DEF JvmInv, InTurn
  <2>5. \A k \in 1..Len(q2) : outcome[q2[k]] = "new"
    <3>1. \A k \in 1..Len(q) : outcome[q[k]] = "new"
      BY <1>1 DEF JvmInv, InTurn
    <3> QED BY <1>5, <2>4, <3>1
  <2>6. \A u \in Tasks : u \notin Range(sub2) => outcome[u] = "new"
    BY <1>1, <1>6 DEF JvmInv, InTurn
  <2>7. /\ \A i \in 1..Len(st) : outcome[st[i]] = "new" <=> i = Len(st) /\ current = st[i]
        /\ current # NoTask => Len(st) > 0 /\ current = st[Len(st)]
    BY <1>1 DEF JvmInv, InTurn
  <2> QED BY <1>4, <1>6, <2>1, <2>2, <2>3, <2>5, <2>6, <2>7 DEF InTurn
<1>9. Lives'
  <2>1. /\ main = "working" /\ jvm = "up" /\ main' = main /\ jvm' = jvm
        /\ program' = program /\ current' = current
        /\ threads \subseteq threads' /\ (program # Daemon => "worker" \in threads')
    BY DEF Submit
  <2> QED BY <2>1 DEF JvmInv, Lives, ExecutorForgetsNothing, Daemon, Executor
<1> QED BY <1>7, <1>8, <1>9 DEF JvmInv

(* ShutdownNow cancels what is queued, and that is all that was not started*)
LEMMA ShutdownNowInv ==
  ASSUME JvmInv, ShutdownNow
  PROVE  JvmInv'
<1>1. PICK sub, st, q : sub = submitted /\ st = started /\ q = queue
  OBVIOUS
<1>2. /\ sub \in Seq(Tasks) /\ st \in Seq(Tasks) /\ q \in Seq(Tasks)
      /\ IsInjective(sub)
      /\ Len(st) <= Len(sub) /\ \A i \in 1..Len(st) : st[i] = sub[i]
      /\ Len(q) = Len(sub) - Len(st) /\ \A k \in 1..Len(q) : q[k] = sub[Len(st) + k]
  BY <1>1 DEF JvmInv, TypeOK, InTurn, Queued, Cancelled, ShutdownNow
<1>3. /\ Len(sub) \in Nat /\ Len(st) \in Nat /\ Len(q) \in Nat
      /\ DOMAIN sub = 1..Len(sub) /\ DOMAIN q = 1..Len(q)
      /\ \A i \in 1..Len(sub) : sub[i] \in Tasks
      /\ \A i \in 1..Len(st) : st[i] \in Tasks
  BY <1>2
<1>4. PICK o : o = outcome'
  OBVIOUS
<1>5. /\ \A t \in Tasks : o[t] = IF t \in Range(q) THEN "cancelled" ELSE outcome[t]
      /\ o \in [Tasks -> Outcome]
  <2>1. o = [t \in Tasks |-> IF t \in Range(q) THEN "cancelled" ELSE outcome[t]]
    BY <1>1, <1>4 DEF ShutdownNow
  <2>2. outcome \in [Tasks -> Outcome] /\ "cancelled" \in Outcome
    BY DEF JvmInv, TypeOK, Outcome
  <2> QED BY <2>1, <2>2
<1>6. \A i \in (Len(st) + 1)..Len(sub) : sub[i] \in Range(q)
  <2> TAKE i \in (Len(st) + 1)..Len(sub)
  <2>1. i - Len(st) \in 1..Len(q) /\ Len(st) + (i - Len(st)) = i
    BY <1>2, <1>3
  <2>2. q[i - Len(st)] = sub[i]
    BY <1>2, <2>1
  <2> QED BY <1>3, <2>1, <2>2 DEF Range
<1>7. \A i \in 1..Len(st) : st[i] \notin Range(q)
  <2>1. SUFFICES ASSUME NEW i \in 1..Len(st), NEW k \in 1..Len(q), st[i] = q[k] PROVE FALSE
    BY <1>3 DEF Range
  <2>2. sub[i] = sub[Len(st) + k] /\ i \in 1..Len(sub) /\ Len(st) + k \in 1..Len(sub)
    BY <1>2, <1>3, <2>1
  <2>3. i = Len(st) + k
    BY <1>2, <1>3, <2>2 DEF IsInjective
  <2> QED BY <1>3, <2>3
<1>8. \A t \in Tasks : t \notin Range(sub) => t \notin Range(q)
  <2>1. SUFFICES ASSUME NEW k \in 1..Len(q) PROVE q[k] \in Range(sub)
    BY <1>3 DEF Range
  <2>2. q[k] = sub[Len(st) + k] /\ Len(st) + k \in 1..Len(sub)
    BY <1>2, <1>3, <2>1
  <2> QED BY <1>3, <2>2 DEF Range
<1>9. queue' = << >> /\ started' = st /\ submitted' = sub /\ current' = current
  BY <1>1 DEF ShutdownNow
<1>10. TypeOK'
  <2>1. << >> \in Seq(Tasks)
    OBVIOUS
  <2>2. queue' \in Seq(Tasks) /\ outcome' \in [Tasks -> Outcome]
    BY <1>4, <1>5, <1>9, <2>1
  <2>3. /\ UNCHANGED <<program, kind, count, current, submitted, started, jvm>>
        /\ main' = "ended" /\ threads' \subseteq threads
    BY DEF ShutdownNow
  <2>4. interrupted' \in BOOLEAN
    BY Zenon DEF ShutdownNow
  <2>5. /\ program' \in {Daemon, Executor, Future, Latch} /\ kind' \in [Tasks -> Kind]
        /\ main' \in {"working", "sleeping", "awaiting", "ended"}
        /\ threads' \subseteq {"main", "worker", "waiter"}
        /\ submitted' \in Seq(Tasks) /\ started' \in Seq(Tasks)
        /\ current' \in Tasks \cup {NoTask} /\ count' \in 0..1 /\ jvm' \in {"up", "down"}
    BY <2>3 DEF JvmInv, TypeOK
  <2> QED BY <2>2, <2>4, <2>5, Zenon DEF TypeOK
<1>11. InTurn'
  <2>1. Cancelled'
    <3>1. \A i \in (Len(st) + 1)..Len(sub) : o[sub[i]] = "cancelled"
      BY <1>3, <1>5, <1>6
    <3> QED BY <1>4, <1>9, <3>1 DEF Cancelled, ShutdownNow
  <2>2. /\ \A i \in 1..Len(st) : outcome[st[i]] = "new" <=> i = Len(st) /\ current = st[i]
        /\ current # NoTask => Len(st) > 0 /\ current = st[Len(st)]
        /\ \A t \in Tasks : t \notin Range(sub) => outcome[t] = "new"
    BY <1>1 DEF JvmInv, InTurn
  <2>3. \A i \in 1..Len(st) : o[st[i]] = outcome[st[i]]
    BY <1>3, <1>5, <1>7
  <2>4. \A t \in Tasks : t \notin Range(sub) => o[t] = "new"
    BY <1>5, <1>8, <2>2
  <2>5. \A k \in 1..Len(queue') : outcome'[queue'[k]] = "new"
    BY <1>9
  <2> QED BY <1>2, <1>4, <1>9, <2>1, <2>2, <2>3, <2>4, <2>5 DEF InTurn
<1>12. Lives'
  <2>1. /\ main = "awaiting" /\ main' = "ended" /\ queue' = << >>
        /\ "worker" \in threads => "worker" \in threads'
        /\ UNCHANGED <<program, current, jvm>>
    BY DEF ShutdownNow
  <2> QED BY <2>1 DEF JvmInv, Lives, ExecutorForgetsNothing
<1> QED BY <1>10, <1>11, <1>12 DEF JvmInv

(* Poll starts the first of the tasks that wait.                           *)
LEMMA PollInv ==
  ASSUME JvmInv, Poll
  PROVE  JvmInv'
<1>1. PICK sub, st, q : sub = submitted /\ st = started /\ q = queue
  OBVIOUS
<1>2. /\ sub \in Seq(Tasks) /\ st \in Seq(Tasks) /\ q \in Seq(Tasks) /\ q # << >>
      /\ IsInjective(sub)
      /\ Len(st) <= Len(sub) /\ \A i \in 1..Len(st) : st[i] = sub[i]
      /\ Len(q) = Len(sub) - Len(st) /\ \A k \in 1..Len(q) : q[k] = sub[Len(st) + k]
  BY <1>1 DEF JvmInv, TypeOK, InTurn, Queued, Cancelled, Poll
<1>3. PICK t, st2, q2 : t = Head(q) /\ st2 = Append(st, t) /\ q2 = Tail(q)
  OBVIOUS
<1>4. started' = st2 /\ queue' = q2 /\ current' = t /\ current = NoTask
  BY <1>1, <1>3 DEF Poll
<1>5. /\ t \in Tasks /\ t = q[1] /\ Len(q) > 0
      /\ q2 \in Seq(Tasks) /\ Len(q2) = Len(q) - 1 /\ \A k \in 1..Len(q2) : q2[k] = q[k + 1]
      /\ Len(q) \in Nat /\ Len(sub) \in Nat /\ Len(st) \in Nat
  BY <1>2, <1>3
<1>6. /\ st2 \in Seq(Tasks) /\ Len(st2) = Len(st) + 1 /\ st2[Len(st) + 1] = t
      /\ \A i \in 1..Len(st) : st2[i] = st[i]
  BY <1>2, <1>3, <1>5
<1>7. t = sub[Len(st) + 1]
  BY <1>2, <1>5
<1>8. TypeOK'
  <2>1. UNCHANGED <<program, kind, main, threads, count, interrupted, submitted, outcome, jvm>>
    BY DEF Poll
  <2>2. started' \in Seq(Tasks) /\ queue' \in Seq(Tasks) /\ current' \in Tasks \cup {NoTask}
    BY <1>4, <1>5, <1>6
  <2> QED BY <2>1, <2>2 DEF JvmInv, TypeOK
<1>9. InTurn'
  <2>1. Queued'
    <3>1. Len(q2) = Len(sub) - Len(st2)
      BY <1>2, <1>5, <1>6
    <3>2. \A k \in 1..Len(q2) : q2[k] = sub[Len(st2) + k]
      BY <1>2, <1>5, <1>6
    <3>3. submitted' = sub
      BY <1>1 DEF Poll
    <3> QED BY <1>4, <3>1, <3>2, <3>3 DEF Queued
  <2>2. Len(st2) <= Len(sub) /\ \A i \in 1..Len(st2) : st2[i] = sub[i]
    <3>1. Len(st2) <= Len(sub)
      BY <1>2, <1>5, <1>6
    <3>2. ASSUME NEW i \in 1..Len(st2) PROVE st2[i] = sub[i]
      <4>1. i \in 1..Len(st) \/ i = Len(st) + 1
        BY <1>5, <1>6
      <4> QED BY <1>2, <1>6, <1>7, <4>1
    <3> QED BY <3>1, <3>2
  <2>3. /\ outcome' = outcome /\ submitted' = sub
    BY <1>1 DEF Poll
  <2>4. /\ \A i \in 1..Len(st) : outcome[st[i]] = "new" <=> i = Len(st) /\ current = st[i]
        /\ \A k \in 1..Len(q) : outcome[q[k]] = "new"
        /\ \A u \in Tasks : u \notin Range(sub) => outcome[u] = "new"
    BY <1>1 DEF JvmInv, InTurn
  <2>5. \A i \in 1..Len(st) : outcome[st[i]] # "new"
    <3>1. \A i \in 1..Len(st) : st[i] \in Tasks
      BY <1>2
    <3> QED BY <1>4, <2>4, <3>1, TasksAssumption
  <2>6. outcome[t] = "new"
    BY <1>5, <2>4
  <2>7. \A i \in 1..Len(st2) : outcome[st2[i]] = "new" <=> i = Len(st2) /\ t = st2[i]
    BY <1>5, <1>6, <2>5, <2>6
  <2>8. \A k \in 1..Len(q2) : outcome[q2[k]] = "new"
    BY <1>5, <2>4
  <2>9. Len(st2) > 0 /\ t = st2[Len(st2)]
    BY <1>5, <1>6
  <2>10. IsInjective(sub)
    BY <1>2
  <2> QED BY <1>4, <2>1, <2>2, <2>3, <2>4, <2>7, <2>8, <2>9, <2>10 DEF InTurn
<1>10. Lives'
  <2>1. /\ "worker" \in threads /\ jvm = "up" /\ queue # << >>
        /\ UNCHANGED <<program, main, threads, jvm>>
    BY DEF Poll
  <2> QED BY <2>1 DEF JvmInv, Lives, ExecutorForgetsNothing
<1> QED BY <1>8, <1>9, <1>10 DEF JvmInv

(* TaskEnds decides what becomes of the last task started, and of no other.*)
LEMMA TaskEndsInTurn ==
  ASSUME TypeOK, InTurn, NEW how \in {"done", "failed", "unresolved"}, TaskEnds(how)
  PROVE  /\ InTurn'
         /\ outcome' \in [Tasks -> Outcome]
<1>1. PICK sub, st, q, o, o2 :
        sub = submitted /\ st = started /\ q = queue /\ o = outcome /\ o2 = outcome'
  OBVIOUS
<1>2. PICK c : c = current
  OBVIOUS
<1>3. /\ sub \in Seq(Tasks) /\ st \in Seq(Tasks) /\ q \in Seq(Tasks)
      /\ o \in [Tasks -> Outcome] /\ c \in Tasks
      /\ o2 = [o EXCEPT ![c] = how]
  BY <1>1, <1>2 DEF TypeOK, TaskEnds
<1>4. /\ IsInjective(sub) /\ Len(st) <= Len(sub) /\ Len(st) > 0 /\ c = st[Len(st)]
      /\ \A i \in 1..Len(st) : st[i] = sub[i]
  BY <1>1, <1>2 DEF InTurn, TaskEnds
<1>5. /\ \A i \in 1..Len(st) : o[st[i]] = "new" <=> i = Len(st) /\ c = st[i]
      /\ \A k \in 1..Len(q) : o[q[k]] = "new"
      /\ \A t \in Tasks : t \notin Range(sub) => o[t] = "new"
  BY <1>1, <1>2 DEF InTurn
<1>6. /\ Len(sub) \in Nat /\ Len(st) \in Nat /\ DOMAIN sub = 1..Len(sub)
      /\ \A i \in 1..Len(sub) : sub[i] \in Tasks
      /\ \A k \in 1..Len(q) : q[k] \in Tasks
  BY <1>3
<1>7. c = sub[Len(st)] /\ Len(st) \in 1..Len(sub)
  BY <1>4, <1>6
<1>8. \A i \in 1..Len(sub) : sub[i] = c => i = Len(st)
  BY <1>4, <1>6, <1>7 DEF IsInjective
<1>9. o2[c] = how /\ \A t \in Tasks : t # c => o2[t] = o[t]
  BY <1>3
<1>10. /\ UNCHANGED <<main, queue, submitted, started>> /\ current' = NoTask
  BY DEF TaskEnds
<1>11. o2 \in [Tasks -> Outcome]
  BY <1>3 DEF Outcome
<1>12. (Queued \/ Cancelled)'
  <2>1. CASE Queued
    BY <1>10, <2>1 DEF Queued
  <2>2. CASE Cancelled
    <3>1. \A i \in (Len(st) + 1)..Len(sub) : i \in 1..Len(sub) /\ i # Len(st)
      BY <1>6
    <3>2. \A i \in (Len(st) + 1)..Len(sub) : o[sub[i]] = "cancelled"
      BY <1>1, <2>2 DEF Cancelled
    <3>3. \A i \in (Len(st) + 1)..Len(sub) : o2[sub[i]] = "cancelled"
      BY <1>6, <1>8, <1>9, <3>1, <3>2
    <3> QED BY <1>1, <1>10, <2>2, <3>3 DEF Cancelled
  <2> QED BY <2>1, <2>2 DEF InTurn
<1>13. \A i \in 1..Len(st) : o2[st[i]] # "new"
  <2> TAKE i \in 1..Len(st)
  <2>1. i \in 1..Len(sub) /\ st[i] = sub[i] /\ sub[i] \in Tasks
    BY <1>4, <1>6
  <2>2. CASE i = Len(st)
    BY <1>4, <1>9, <2>2
  <2>3. CASE i # Len(st)
    BY <1>5, <1>8, <1>9, <2>1, <2>3
  <2> QED BY <2>2, <2>3
<1>14. \A i \in 1..Len(st) : st[i] # NoTask
  BY <1>3, TasksAssumption
<1>15. \A k \in 1..Len(q) : o2[q[k]] = "new"
  <2>1. o[c] # "new" \/ \A k \in 1..Len(q) : q[k] # c
    <3>1. CASE Queued
      <4>1. Len(q) = Len(sub) - Len(st) /\ \A k \in 1..Len(q) : q[k] = sub[Len(st) + k]
        BY <1>1, <3>1 DEF Queued
      <4>2. \A k \in 1..Len(q) : Len(st) + k \in 1..Len(sub) /\ Len(st) + k # Len(st)
        BY <1>6, <4>1
      <4> QED BY <1>8, <4>1, <4>2
    <3>2. CASE Cancelled
      <4>1. Len(q) = 0
        BY <1>1, <3>2 DEF Cancelled
      <4> QED BY <4>1
    <3> QED BY <3>1, <3>2 DEF InTurn
  <2>2. o[c] = "new"
    BY <1>4, <1>5, <1>6
  <2> QED BY <1>5, <1>6, <1>9, <2>1, <2>2
<1>16. \A t \in Tasks : t \notin Range(sub) => o2[t] = "new"
  <2>1. c \in Range(sub)
    BY <1>6, <1>7 DEF Range
  <2> QED BY <1>5, <1>9, <2>1
<1> QED BY <1>1, <1>4, <1>10, <1>11, <1>12, <1>13, <1>14, <1>15, <1>16 DEF InTurn

LEMMA TaskEndsInv ==
  ASSUME JvmInv, TaskReturns \/ TaskThrows
  PROVE  JvmInv'
<1>1. PICK how \in {"done", "failed", "unresolved"} : TaskEnds(how)
  BY DEF TaskReturns, TaskThrows
<1>2. /\ InTurn' /\ outcome' \in [Tasks -> Outcome]
  BY <1>1, TaskEndsInTurn DEF JvmInv
<1>3. /\ threads' \subseteq threads /\ (program # Daemon => threads' = threads)
      /\ "main" \in threads => "main" \in threads'
  BY DEF TaskReturns, TaskThrows
<1>4. /\ UNCHANGED <<program, kind, main, count, queue, interrupted, submitted, started, jvm>>
      /\ current' = NoTask /\ jvm = "up"
  BY <1>1 DEF TaskEnds
<1>5. TypeOK'
  BY <1>2, <1>3, <1>4 DEF JvmInv, TypeOK
<1>6. Lives'
  BY <1>3, <1>4 DEF JvmInv, Lives, ExecutorForgetsNothing
<1> QED BY <1>2, <1>5, <1>6 DEF JvmInv

(* When the JVM of an executor ends, main has ended and the worker is gone:*)
(* no task runs and none is queued.                                        *)
LEMMA JvmEndsInv ==
  ASSUME JvmInv, JvmEnds
  PROVE  JvmInv'
<1>1. UNCHANGED <<program, kind, main, threads, count, tasksState>> /\ jvm' = "down"
  BY DEF JvmEnds
<1>2. TypeOK'
  BY <1>1 DEF JvmInv, TypeOK, tasksState
<1>3. InTurn'
  BY <1>1, TasksUntouched DEF JvmInv
<1>4. main = "ended"
  BY DEF JvmInv, Lives, JvmEnds, Daemons
<1>5. ASSUME program = Executor, NEW t \in Range(submitted) PROVE outcome[t] # "new"
  <2>1. queue = << >> /\ current = NoTask
    BY <1>4, <1>5 DEF JvmInv, Lives, JvmEnds, Daemons, Daemon, Executor, Future
  <2>2. PICK sub, st : sub = submitted /\ st = started
    OBVIOUS
  <2>3. /\ sub \in Seq(Tasks) /\ st \in Seq(Tasks) /\ Len(sub) \in Nat /\ Len(st) \in Nat
        /\ DOMAIN sub = 1..Len(sub) /\ \A i \in 1..Len(st) : st[i] \in Tasks
    BY <2>2 DEF JvmInv, TypeOK
  <2>4. PICK i \in 1..Len(sub) : t = sub[i]
    BY <1>5, <2>2, <2>3 DEF Range
  <2>5. CASE i \in 1..Len(st)
    <3>1. t = st[i] /\ (outcome[st[i]] = "new" => current = st[i])
      BY <2>2, <2>4, <2>5 DEF JvmInv, InTurn
    <3> QED BY <2>1, <2>3, <2>5, <3>1, TasksAssumption
  <2>6. CASE i \notin 1..Len(st)
    <3>1. i \in (Len(st) + 1)..Len(sub)
      BY <2>3, <2>4, <2>6
    <3>2. ~ Queued
      <4>1. Len(queue) = 0
        BY <2>1
      <4> QED BY <2>2, <2>3, <3>1, <4>1 DEF Queued
    <3>3. outcome[sub[i]] = "cancelled"
      BY <2>2, <3>1, <3>2 DEF JvmInv, InTurn, Cancelled
    <3> QED BY <2>4, <3>3
  <2> QED BY <2>5, <2>6
<1>6. Lives'
  BY <1>1, <1>4, <1>5 DEF JvmInv, Lives, ExecutorForgetsNothing, tasksState
<1> QED BY <1>2, <1>3, <1>6 DEF JvmInv

LEMMA JvmNextInv == JvmInv /\ [Next]_vars => JvmInv'
<1> SUFFICES ASSUME JvmInv, [Next]_vars PROVE JvmInv'
  OBVIOUS
<1>1. CASE MainSteps
  BY <1>1, SubmitInv, MainInv, ShutdownNowInv DEF MainSteps
<1>2. CASE WorkerSteps
  BY <1>2, PollInv, TaskEndsInv, ThreadEndsInv DEF WorkerSteps
<1>3. CASE JvmEnds
  BY <1>3, JvmEndsInv
<1>4. CASE UNCHANGED vars
  <2>1. UNCHANGED <<program, kind, main, threads, count, tasksState, jvm>>
    BY <1>4 DEF vars
  <2>2. TypeOK'
    BY <2>1 DEF JvmInv, TypeOK, tasksState
  <2>3. InTurn'
    BY <2>1, TasksUntouched DEF JvmInv
  <2>4. Lives'
    BY <2>1 DEF JvmInv, Lives, ExecutorForgetsNothing, tasksState
  <2> QED BY <2>2, <2>3, <2>4 DEF JvmInv
<1> QED BY <1>1, <1>2, <1>3, <1>4 DEF Next

(* JvmInvHolds: in each of the four programs, whatever the tasks do and    *)
(* whenever main shuts down, the queue is what was handed over and not     *)
(* started, or main has cancelled it.                                      *)
THEOREM JvmInvHolds == Spec => []JvmInv
<1>1. Init => JvmInv
  BY JvmInitInv
<1>2. JvmInv /\ [Next]_vars => JvmInv'
  BY JvmNextInv
<1> QED BY <1>1, <1>2, PTL DEF Spec

(* JvmTypeCorrect: threads, tasks and outcomes stay what they are.         *)
THEOREM JvmTypeCorrect == Spec => []TypeOK
<1>1. JvmInv => TypeOK
  BY DEF JvmInv
<1> QED BY <1>1, JvmInvHolds, PTL

(* TasksAlwaysInTurn: tasks are started in the order they were handed over,*)
(* each once and one at a time, and those not started wait or were         *)
(* cancelled (asynchronous, poll, gracefulShutdown).                       *)
THEOREM TasksAlwaysInTurn == Spec => []TasksInTurn
<1>1. JvmInv => TasksInTurn
  BY InTurnImplies DEF JvmInv
<1> QED BY <1>1, JvmInvHolds, PTL

(* ForgetsNothing: the executor's JVM does not end before each task it was *)
(* given has ended or been cancelled (gracefulShutdown).                   *)
THEOREM ForgetsNothing == Spec => []ExecutorForgetsNothing
<1>1. JvmInv => ExecutorForgetsNothing
  BY DEF JvmInv, Lives
<1> QED BY <1>1, JvmInvHolds, PTL

-----------------------------------------------------------------------------
(***************************************************************************)
(* The airplane.                                                           *)
(***************************************************************************)
PlaneMessage     == {GiveMeControl} \cup Update
StickMessage     == [msg : {"StickBack", "StickForward"}, amount : Int]
AltimeterMessage == {RegisterListener, Tick} \cup [msg : {"RateChange"}, amount : Int]

(* Flight: AirplaneTypeOK without the mailboxes; of the ticks, those sent  *)
(* are bounded, which bounds those read.                                   *)
Actors ==
  /\ mainSince \in 0..Horizon /\ todo \subseteq DOMAIN AllTasks
  /\ mainThread \in {"starting", "waiting", "answered", "done", "failed"}
  /\ plane \in {"new", "constructed", "up", "stopping", "stopped"}
  /\ controls \in {"none", "up", "stopped"}
  /\ altimeter \in {"none", "new", "up", "stopped"}
Flight ==
  /\ now \in 0..Horizon
  /\ rateOfClimb \in -2..2 /\ lastTick \in 0..now
  /\ altitude \in Int /\ altitude <= 2 * lastTick /\ altitude >= -2 * lastTick
(* OnTime: the clock is no further than main lets it be, and main asks and *)
(* schedules early enough for both deadlines to be within the horizon.     *)
OnTime ==
  /\ now <= ClockEnd
  /\ mainSince <= Horizon - (IF mainThread = "done" THEN Await ELSE 2 * Await)
Ticking == ticks \in Nat /\ TicksSent <= MaxTicks

(* Mail: what each actor may have in its mailbox.                          *)
Mail ==
  /\ planeBox \in Seq(PlaneMessage)
  /\ heard # Nobody => heard \in Update
  /\ controlsBox \in Seq(StickMessage)
  /\ altimeterBox \in Seq(AltimeterMessage)

(* OneRegistration: to come, in the mailbox, or made: together one at most.*)
OneRegistration ==
  /\ listeners \in Nat
  /\ Len(Only(altimeterBox, {RegisterListener})) + listeners
       + (IF plane \in {"new", "constructed"} THEN 1 ELSE 0) <= 1

(* InStep: PlaneHearsTheFlight by places among the updates in the mailbox, *)
(* wherever the request for the controls is between them; nothing is heard *)
(* before the registration.                                                *)
InStep ==
  plane # "stopped" =>
    /\ \A k \in 1..Len(Updates) :
         /\ listeners # 0
         /\ Updates[k].n = ticks - Len(Updates) + k
         /\ k = Len(Updates) => Updates[k].altitude = altitude
    /\ heard # Nobody =>
         /\ listeners # 0
         /\ heard.n = ticks - Len(Updates)
         /\ Updates = << >> => heard.altitude = altitude

AirplaneInv == Actors /\ Flight /\ OnTime /\ Ticking /\ Mail /\ OneRegistration /\ InStep

(* What a message is shows in its msg.                                     *)
LEMMA AltimeterKinds ==
  ASSUME NEW h \in AltimeterMessage
  PROVE  /\ h.msg \in {"RegisterListener", "RateChange", "Tick"}
         /\ h.msg = "Tick" <=> h = Tick
         /\ h.msg = "RegisterListener" <=> h = RegisterListener
         /\ h.msg = "RateChange" => h.amount \in Int
BY DEF AltimeterMessage, RegisterListener, Tick

LEMMA PlaneKinds ==
  ASSUME NEW h \in PlaneMessage
  PROVE  /\ h.msg \in {"GiveMeControl", "AltitudeUpdate"}
         /\ h.msg = "GiveMeControl" <=> h = GiveMeControl
         /\ h.msg = "AltitudeUpdate" <=> h \in Update
         /\ h = GiveMeControl <=> h \notin Update
BY DEF PlaneMessage, GiveMeControl, Update

LEMMA StickMessages ==
  /\ DOMAIN Movements = 1..4 /\ \A i \in 1..4 : Movements[i].do \in StickMessage
  /\ Len(AllTasks) = 5 /\ DOMAIN AllTasks = 1..5
<1>1. DOMAIN Movements = 1..4 /\ Len(Movements) = 4
  BY DEF Movements
<1>2. \A i \in 1..4 : Movements[i].do \in StickMessage
  <2>1. \A a \in Int : StickBack(a) \in StickMessage
    BY DEF StickBack, StickMessage
  <2>2. \A i \in 1..4 : Movements[i].do \in {StickBack(0), StickBack(1), StickBack(2)}
    BY DEF Movements
  <2> QED BY <2>1, <2>2
<1>3. Len(AllTasks) = 5 /\ DOMAIN AllTasks = 1..5
  BY DEF AllTasks, Movements
<1> QED BY <1>1, <1>2, <1>3

LEMMA EmptyBox ==
  ASSUME NEW K
  PROVE  Only(<< >>, K) = << >>
<1>1. << >> \in Seq(K) /\ Len(<< >>) = 0
  OBVIOUS
<1>2. \A i \in 1..Len(<< >>) : << >>[i] \in K
  BY <1>1
<1> QED BY <1>1, <1>2, FilterKeepsAll

(* Sent: how many messages of a kind wait in the altimeter's mailbox, and  *)
(* how a step changes it.                                                  *)
Sent(m) == Len(Only(altimeterBox, {m}))

LEMMA SentIsNat ==
  ASSUME Mail, NEW m
  PROVE  Sent(m) \in Nat
<1>1. PICK o : o = Only(altimeterBox, {m})
  OBVIOUS
<1>2. o \in Seq(AltimeterMessage)
  BY <1>1, FilterProperties DEF Mail
<1> QED BY <1>1, <1>2 DEF Sent

LEMMA SentMore ==
  ASSUME Mail, NEW m, NEW e \in AltimeterMessage, altimeterBox' = Append(altimeterBox, e)
  PROVE  /\ Sent(m)' = Sent(m) + (IF e = m THEN 1 ELSE 0)
         /\ altimeterBox' \in Seq(AltimeterMessage)
<1>1. PICK q, o : q = altimeterBox /\ o = Only(q, {m})
  OBVIOUS
<1>2. q \in Seq(AltimeterMessage)
  BY <1>1 DEF Mail
<1>3. o \in Seq(AltimeterMessage)
  BY <1>1, <1>2, FilterProperties
<1>4. Only(Append(q, e), {m}) = IF e \in {m} THEN Append(o, e) ELSE o
  BY <1>1, <1>2, FilterOfAppend
<1>5. Len(Append(o, e)) = Len(o) + 1 /\ Len(o) \in Nat
  BY <1>3
<1>6. Len(Only(Append(q, e), {m})) = Len(o) + (IF e = m THEN 1 ELSE 0)
  BY <1>4, <1>5
<1>7. Append(q, e) \in Seq(AltimeterMessage)
  BY <1>2
<1> QED BY <1>1, <1>6, <1>7 DEF Sent

LEMMA SentLess ==
  ASSUME Mail, NEW m, altimeterBox # << >>, altimeterBox' = Tail(altimeterBox)
  PROVE  /\ Sent(m)' = Sent(m) - (IF Head(altimeterBox) = m THEN 1 ELSE 0)
         /\ altimeterBox' \in Seq(AltimeterMessage)
         /\ Head(altimeterBox) \in AltimeterMessage
<1>1. PICK q, o, p : q = altimeterBox /\ o = Only(q, {m}) /\ p = Only(Tail(q), {m})
  OBVIOUS
<1>2. q \in Seq(AltimeterMessage) /\ q # << >>
  BY <1>1 DEF Mail
<1>3. Tail(q) \in Seq(AltimeterMessage) /\ Head(q) \in AltimeterMessage
  BY <1>2
<1>4. o \in Seq(AltimeterMessage) /\ p \in Seq(AltimeterMessage)
  BY <1>1, <1>2, <1>3, FilterProperties
<1>5. Len(o) = Len(p) + (IF Head(q) = m THEN 1 ELSE 0)
  <2>1. /\ Head(q) \in {m} => o = << Head(q) >> \o p
        /\ Head(q) \notin {m} => o = p
    BY <1>1, <1>2, FilterOfTail
  <2>2. << Head(q) >> \in Seq(AltimeterMessage) /\ Len(<< Head(q) >>) = 1
    BY <1>3
  <2>3. Len(<< Head(q) >> \o p) = 1 + Len(p) /\ Len(p) \in Nat
    BY <1>4, <2>2, ConcatProperties
  <2> QED BY <2>1, <2>3
<1>6. Len(p) = Len(o) - (IF Head(q) = m THEN 1 ELSE 0)
  <2>1. Len(o) \in Nat /\ Len(p) \in Nat
    BY <1>4
  <2> QED BY <1>5, <2>1
<1> QED BY <1>1, <1>3, <1>6 DEF Sent

LEMMA AirplaneInitInv == AirplaneInit => AirplaneInv
<1> SUFFICES ASSUME AirplaneInit PROVE AirplaneInv
  OBVIOUS
<1>1. Horizon \in Nat /\ MaxTicks \in Nat /\ Horizon >= 4
  BY BoundsAssumption DEF Await
<1>2. Actors
  BY <1>1 DEF AirplaneInit, Actors
<1>3. Flight
  BY <1>1 DEF AirplaneInit, Flight
<1>9. OnTime
  BY <1>1 DEF AirplaneInit, OnTime, ClockEnd, Await
<1>4. Mail
  <2>1. << >> \in Seq(PlaneMessage) /\ << >> \in Seq(StickMessage) /\ << >> \in Seq(AltimeterMessage)
    OBVIOUS
  <2> QED BY <2>1 DEF AirplaneInit, Mail
<1>5. Len(Only(altimeterBox, {Tick})) = 0 /\ Len(Only(altimeterBox, {RegisterListener})) = 0
  <2>1. Len(<< >>) = 0 /\ altimeterBox = << >>
    BY DEF AirplaneInit
  <2> QED BY <2>1, EmptyBox
<1>6. Ticking
  BY <1>1, <1>5 DEF AirplaneInit, Ticking, TicksSent
<1>7. OneRegistration
  BY <1>5 DEF AirplaneInit, OneRegistration
<1>8. InStep
  <2>1. Updates = << >>
    BY EmptyBox DEF AirplaneInit, Updates
  <2>2. Len(<< >>) = 0
    OBVIOUS
  <2> QED BY <2>1, <2>2 DEF AirplaneInit, InStep
<1> QED BY <1>2, <1>3, <1>4, <1>6, <1>7, <1>8, <1>9 DEF AirplaneInv

LEMMA ActorsInv ==
  ASSUME AirplaneInv, AirplaneNext
  PROVE  Actors'
<1>1. Horizon \in Nat /\ now \in 0..Horizon /\ DOMAIN AllTasks = 1..5 /\ DOMAIN Movements = 1..4
  BY BoundsAssumption, StickMessages DEF AirplaneInv, Flight
<1>2. CASE Advance \/ Main
  BY <1>1, <1>2 DEF AirplaneInv, Actors, Advance, Main, MainAsks, MainGoesOn, MainThrows, TakeOff, mainVars
<1>3. CASE Plane \/ ControlsMove
  BY <1>3 DEF AirplaneInv, Actors, Plane, PlaneConstructs, PlanePreStart, PlaneGivesControl,
              PlaneHears, ControlsMove, mainVars
<1>4. CASE Altimeter \/ TickerFires
  BY <1>4 DEF AirplaneInv, Actors, Altimeter, AltimeterStarts, AddListener, ChangeRate,
              AltimeterTicks, AltimeterReads, TickerFires, mainVars
<1>5. CASE (\E i \in DOMAIN Movements : MoveStick(i)) \/ TerminateSystem
  BY <1>1, <1>5 DEF AirplaneInv, Actors, MoveStick, TerminateSystem
<1>6. CASE Stops
  BY <1>6 DEF AirplaneInv, Actors, Stops, ControlsStop, AltimeterStops, PlaneStops, mainVars
<1> QED BY <1>2, <1>3, <1>4, <1>5, <1>6 DEF AirplaneNext

LEMMA OnTimeInv ==
  ASSUME AirplaneInv, AirplaneNext
  PROVE  OnTime'
<1>1. /\ Horizon \in Nat /\ Horizon >= 4 /\ now \in 0..Horizon /\ mainSince \in 0..Horizon
      /\ now <= IF mainThread = "starting" THEN Horizon - 4 ELSE mainSince + 2
      /\ mainSince <= Horizon - (IF mainThread = "done" THEN 2 ELSE 4)
  BY BoundsAssumption DEF AirplaneInv, Actors, Flight, OnTime, ClockEnd, Await
<1>2. CASE UNCHANGED <<now, mainThread, mainSince>>
  BY <1>2 DEF AirplaneInv, OnTime, ClockEnd
<1>3. CASE Advance
  <2>1. /\ now' = now + 1 /\ UNCHANGED <<mainThread, mainSince>>
        /\ now < IF mainThread = "starting" THEN Horizon - 4 ELSE mainSince + 2
    BY <1>3 DEF Advance, ClockEnd, Await, mainVars
  <2>2. now' <= IF mainThread = "starting" THEN Horizon - 4 ELSE mainSince + 2
    BY <1>1, <2>1
  <2> QED BY <1>1, <2>1, <2>2 DEF OnTime, ClockEnd, Await
<1>4. CASE MainAsks
  <2>1. now <= Horizon - 4 /\ now' = now /\ mainSince' = now /\ mainThread' = "waiting"
    BY <1>1, <1>4 DEF MainAsks
  <2> QED BY <1>1, <2>1 DEF OnTime, ClockEnd, Await
<1>5. CASE MainGoesOn
  <2>1. /\ now <= mainSince + 2 /\ mainSince <= Horizon - 4
        /\ now' = now /\ mainSince' = now /\ mainThread' = "done"
    BY <1>1, <1>5 DEF MainGoesOn
  <2> QED BY <1>1, <2>1 DEF OnTime, ClockEnd, Await
<1>6. CASE MainThrows \/ PlaneGivesControl
  <2>1. /\ UNCHANGED <<now, mainSince>>
        /\ mainThread' # mainThread => mainThread = "waiting" /\ mainThread' \in {"failed", "answered"}
    BY <1>6 DEF MainThrows, PlaneGivesControl
  <2> QED BY <1>1, <2>1 DEF OnTime, ClockEnd, Await
<1>7. PlaneConstructs \/ PlanePreStart \/ PlaneHears \/ ControlsMove
        => UNCHANGED <<now, mainThread, mainSince>>
  BY DEF PlaneConstructs, PlanePreStart, PlaneHears, ControlsMove, mainVars
<1>8. Altimeter \/ TickerFires => UNCHANGED <<now, mainThread, mainSince>>
  BY DEF Altimeter, AltimeterStarts, AddListener, ChangeRate, AltimeterTicks, AltimeterReads,
         TickerFires, mainVars
<1>9. (\E i \in DOMAIN Movements : MoveStick(i)) \/ TerminateSystem \/ Stops
        => UNCHANGED <<now, mainThread, mainSince>>
  BY DEF MoveStick, TerminateSystem, Stops, ControlsStop, AltimeterStops, PlaneStops, mainVars
<1> QED BY <1>2, <1>3, <1>4, <1>5, <1>6, <1>7, <1>8, <1>9 DEF AirplaneNext, Main, Plane

(* A climb at one of the five rates: time passes between two ticks once.   *)
LEMMA ClimbBound ==
  ASSUME NEW a \in Int, NEW s \in Nat, NEW n \in Nat, NEW r \in -2..2, s <= n,
         a <= 2 * s, a >= -2 * s
  PROVE  /\ a + (n - s) * r \in Int
         /\ a + (n - s) * r <= 2 * n /\ a + (n - s) * r >= -2 * n
<1>1. r = -2 \/ r = -1 \/ r = 0 \/ r = 1 \/ r = 2
  OBVIOUS
<1>2. CASE r = -2
  BY <1>2
<1>3. CASE r = -1
  BY <1>3
<1>4. CASE r = 0
  BY <1>4
<1>5. CASE r = 1
  BY <1>5
<1>6. CASE r = 2
  BY <1>6
<1> QED BY <1>1, <1>2, <1>3, <1>4, <1>5, <1>6

LEMMA FlightInv ==
  ASSUME AirplaneInv, AirplaneNext
  PROVE  Flight'
<1>1. /\ Horizon \in Nat /\ Horizon >= 4 /\ Await = 2
      /\ now \in 0..Horizon /\ lastTick \in 0..now
  BY BoundsAssumption DEF AirplaneInv, Flight, Await
<1>2. CASE Advance
  <2>1. now' = now + 1 /\ UNCHANGED <<rateOfClimb, altitude, lastTick>>
    BY <1>2 DEF Advance, flightVars
  <2>2. now < Horizon
    <3>1. /\ mainSince \in 0..Horizon
          /\ now < IF mainThread = "starting" THEN Horizon - 4 ELSE mainSince + 2
          /\ mainSince <= Horizon - (IF mainThread = "done" THEN 2 ELSE 4)
      BY <1>2 DEF Advance, AirplaneInv, Actors, OnTime, ClockEnd, Await
    <3> QED BY <1>1, <3>1
  <2> QED BY <1>1, <2>1, <2>2 DEF AirplaneInv, Flight
<1>3. CASE UNCHANGED <<now, rateOfClimb, altitude, lastTick>>
  BY <1>3 DEF AirplaneInv, Flight
<1>4. CASE AltimeterStarts
  BY <1>1, <1>4 DEF AirplaneInv, Flight, AltimeterStarts
<1>5. CASE ChangeRate
  <2>1. Head(altimeterBox) \in AltimeterMessage /\ Head(altimeterBox).msg = "RateChange"
    <3>1. altimeterBox \in Seq(AltimeterMessage) /\ altimeterBox # << >>
      BY <1>5 DEF AirplaneInv, Mail, ChangeRate, AltimeterReads
    <3> QED BY <1>5, <3>1 DEF ChangeRate, AltimeterReads
  <2>2. PICK amount : amount = Head(altimeterBox).amount
    OBVIOUS
  <2>3. amount \in Int
    BY <2>1, <2>2, AltimeterKinds
  <2>4. rateOfClimb' \in -2..2
    BY <1>5, <2>2, <2>3 DEF ChangeRate
  <2> QED BY <1>5, <2>4 DEF AirplaneInv, Flight, ChangeRate, AltimeterReads
<1>6. CASE AltimeterTicks
  <2>1. /\ altitude' = altitude + (now - lastTick) * rateOfClimb
        /\ lastTick' = now /\ UNCHANGED <<now, rateOfClimb>>
    BY <1>6 DEF AltimeterTicks, AltimeterReads, HandleTick, Climb
  <2>2. /\ altitude' \in Int /\ altitude' <= 2 * now /\ altitude' >= -2 * now
    BY <1>1, <2>1, ClimbBound DEF AirplaneInv, Flight
  <2> QED BY <1>1, <2>1, <2>2 DEF AirplaneInv, Flight
<1>7. Main \/ Plane \/ ControlsMove \/ AddListener \/ TickerFires
        \/ (\E i \in DOMAIN Movements : MoveStick(i)) \/ TerminateSystem \/ Stops
        => UNCHANGED <<now, rateOfClimb, altitude, lastTick>>
  <2>1. Main \/ Plane \/ ControlsMove => UNCHANGED <<now, rateOfClimb, altitude, lastTick>>
    BY DEF Main, MainAsks, MainGoesOn, MainThrows, Plane, PlaneConstructs, PlanePreStart, PlaneGivesControl,
           PlaneHears, ControlsMove, flightVars
  <2>2. AddListener \/ TickerFires => UNCHANGED <<now, rateOfClimb, altitude, lastTick>>
    BY DEF AddListener, AltimeterReads, TickerFires, flightVars
  <2>3. (\E i \in DOMAIN Movements : MoveStick(i)) \/ TerminateSystem \/ Stops
          => UNCHANGED <<now, rateOfClimb, altitude, lastTick>>
    BY DEF MoveStick, TerminateSystem, Stops, ControlsStop, AltimeterStops, PlaneStops, flightVars
  <2> QED BY <2>1, <2>2, <2>3
<1> QED BY <1>2, <1>3, <1>4, <1>5, <1>6, <1>7 DEF AirplaneNext, Altimeter

(* Whose step changes the altimeter's mailbox, the listeners or the ticks. *)
LEMMA AltimeterMail ==
  ASSUME AirplaneNext
  PROVE  \/ PlanePreStart \/ ControlsMove \/ TickerFires
         \/ AddListener \/ ChangeRate \/ AltimeterTicks \/ AltimeterStops
         \/ /\ UNCHANGED <<altimeterBox, listeners, ticks>>
            /\ plane' \in {"new", "constructed"} => plane \in {"new", "constructed"}
<1> DEFINE Same == /\ UNCHANGED <<altimeterBox, listeners, ticks>>
                   /\ plane' \in {"new", "constructed"} => plane \in {"new", "constructed"}
<1>1. Advance \/ Main => Same
  BY DEF Advance, Main, MainAsks, MainGoesOn, MainThrows, flightVars
<1>2. PlaneConstructs \/ PlaneGivesControl \/ PlaneHears \/ AltimeterStarts => Same
  BY DEF PlaneConstructs, PlaneGivesControl, PlaneHears, AltimeterStarts, flightVars
<1>3. (\E i \in DOMAIN Movements : MoveStick(i)) \/ TerminateSystem => Same
  BY DEF MoveStick, TerminateSystem, flightVars
<1>4. ControlsStop \/ PlaneStops => Same
  BY DEF ControlsStop, PlaneStops, flightVars
<1> HIDE DEF Same
<1>5. \/ PlanePreStart \/ ControlsMove \/ TickerFires
      \/ AddListener \/ ChangeRate \/ AltimeterTicks \/ AltimeterStops \/ Same
  BY <1>1, <1>2, <1>3, <1>4, Zenon DEF AirplaneNext, Plane, Altimeter, Stops
<1> QED BY <1>5 DEF Same

(* What ControlsMove and PlanePreStart send is no tick.                    *)
LEMMA RateChangeSent ==
  ASSUME Mail, ControlsMove, altimeter # "stopped"
  PROVE  \E e \in AltimeterMessage :
           e # Tick /\ e # RegisterListener /\ altimeterBox' = Append(altimeterBox, e)
<1>1. PICK m : m = Head(controlsBox)
  OBVIOUS
<1>2. m \in StickMessage
  <2>1. controlsBox \in Seq(StickMessage) /\ controlsBox # << >>
    BY DEF Mail, ControlsMove
  <2> QED BY <1>1, <2>1
<1>3. PICK a : a = IF m.msg = "StickBack" THEN m.amount ELSE -1 * m.amount
  OBVIOUS
<1>4. a \in Int
  <2>1. m.amount \in Int
    BY <1>2 DEF StickMessage
  <2> QED BY <1>3, <2>1
<1>5. altimeterBox' = Append(altimeterBox, RateChange(a))
  BY <1>1, <1>3 DEF ControlsMove
<1>6. RateChange(a) \in AltimeterMessage /\ RateChange(a) # Tick /\ RateChange(a) # RegisterListener
  BY <1>4 DEF RateChange, AltimeterMessage, Tick, RegisterListener
<1> QED BY <1>5, <1>6

LEMMA TickingInv ==
  ASSUME AirplaneInv, AirplaneNext
  PROVE  Ticking'
<1>1. /\ Mail /\ ticks \in Nat /\ MaxTicks \in Nat
      /\ Sent(Tick) \in Nat /\ ticks + Sent(Tick) <= MaxTicks
  <2>1. Mail
    BY DEF AirplaneInv
  <2> QED BY <2>1, SentIsNat, BoundsAssumption DEF AirplaneInv, Ticking, TicksSent, Sent
<1>2. SUFFICES ticks' \in Nat /\ ticks' + Sent(Tick)' <= MaxTicks
  BY DEF Ticking, TicksSent, Sent
<1>3. CASE PlanePreStart
  <2>1. /\ altimeterBox' = Append(altimeterBox, RegisterListener) /\ ticks' = ticks
        /\ RegisterListener \in AltimeterMessage /\ RegisterListener # Tick
    BY <1>3 DEF PlanePreStart, flightVars, AltimeterMessage, RegisterListener, Tick
  <2>2. Sent(Tick)' = Sent(Tick) + 0
    BY <1>1, <2>1, SentMore
  <2> QED BY <1>1, <2>1, <2>2
<1>4. CASE ControlsMove
  <2>1. ticks' = ticks
    BY <1>4 DEF ControlsMove, flightVars
  <2>2. CASE altimeter = "stopped"
    BY <1>1, <1>4, <2>1, <2>2 DEF ControlsMove, Sent
  <2>3. CASE altimeter # "stopped"
    <3>1. PICK e \in AltimeterMessage : e # Tick /\ altimeterBox' = Append(altimeterBox, e)
      BY <1>1, <1>4, <2>3, RateChangeSent
    <3>2. Sent(Tick)' = Sent(Tick) + 0
      BY <1>1, <3>1, SentMore
    <3> QED BY <1>1, <2>1, <3>2
  <2> QED BY <2>2, <2>3
<1>5. CASE TickerFires
  <2>1. /\ altimeterBox' = Append(altimeterBox, Tick) /\ ticks' = ticks
        /\ Tick \in AltimeterMessage /\ ticks + Sent(Tick) < MaxTicks
    BY <1>5 DEF TickerFires, flightVars, TicksSent, AltimeterMessage, Sent
  <2>2. Sent(Tick)' = Sent(Tick) + 1
    BY <1>1, <2>1, SentMore
  <2> QED BY <1>1, <2>1, <2>2
<1>6. CASE AddListener \/ ChangeRate
  <2>1. /\ altimeterBox # << >> /\ altimeterBox' = Tail(altimeterBox) /\ ticks' = ticks
        /\ Head(altimeterBox).msg \in {"RegisterListener", "RateChange"}
    BY <1>6 DEF AddListener, ChangeRate, AltimeterReads, flightVars
  <2>2. Sent(Tick)' = Sent(Tick) - (IF Head(altimeterBox) = Tick THEN 1 ELSE 0)
        /\ Head(altimeterBox) \in AltimeterMessage
    BY <1>1, <2>1, SentLess
  <2>3. Head(altimeterBox) # Tick
    BY <2>1, <2>2, AltimeterKinds
  <2> QED BY <1>1, <2>1, <2>2, <2>3
<1>7. CASE AltimeterTicks
  <2>1. /\ altimeterBox # << >> /\ altimeterBox' = Tail(altimeterBox) /\ ticks' = ticks + 1
        /\ Head(altimeterBox).msg = "Tick"
    BY <1>7 DEF AltimeterTicks, AltimeterReads, HandleTick
  <2>2. Sent(Tick)' = Sent(Tick) - (IF Head(altimeterBox) = Tick THEN 1 ELSE 0)
        /\ Head(altimeterBox) \in AltimeterMessage
    BY <1>1, <2>1, SentLess
  <2>3. Head(altimeterBox) = Tick
    BY <2>1, <2>2, AltimeterKinds
  <2> QED BY <1>1, <2>1, <2>2, <2>3
<1>8. CASE AltimeterStops
  <2>1. altimeterBox' = << >> /\ ticks' = ticks
    BY <1>8 DEF AltimeterStops, flightVars
  <2>2. Sent(Tick)' = 0
    <3>1. Len(<< >>) = 0
      OBVIOUS
    <3> QED BY <2>1, <3>1, EmptyBox DEF Sent
  <2> QED BY <1>1, <2>1, <2>2
<1>9. CASE UNCHANGED <<altimeterBox, listeners, ticks>>
  BY <1>1, <1>9 DEF Sent
<1> QED BY <1>3, <1>4, <1>5, <1>6, <1>7, <1>8, <1>9, AltimeterMail

LEMMA OneRegistrationInv ==
  ASSUME AirplaneInv, AirplaneNext
  PROVE  OneRegistration'
<1> DEFINE early == IF plane \in {"new", "constructed"} THEN 1 ELSE 0
<1>1. /\ Mail /\ listeners \in Nat
      /\ Sent(RegisterListener) \in Nat /\ Sent(RegisterListener) + listeners + early <= 1
  <2>1. Mail
    BY DEF AirplaneInv
  <2> QED BY <2>1, SentIsNat DEF AirplaneInv, OneRegistration, Sent
<1>2. SUFFICES listeners' \in Nat /\ Sent(RegisterListener)' + listeners' + early' <= 1
  BY DEF OneRegistration, Sent
<1>3. CASE PlanePreStart
  <2>1. /\ altimeterBox' = Append(altimeterBox, RegisterListener) /\ listeners' = listeners
        /\ early = 1 /\ early' = 0
    BY <1>3 DEF PlanePreStart
  <2>2. RegisterListener \in AltimeterMessage
    BY DEF AltimeterMessage
  <2>3. Sent(RegisterListener)' = Sent(RegisterListener) + 1
    BY <1>1, <2>1, <2>2, SentMore
  <2> HIDE DEF early
  <2> QED BY <1>1, <2>1, <2>3
<1>4. CASE ControlsMove
  <2>1. listeners' = listeners /\ early' = early
    BY <1>4 DEF ControlsMove
  <2>2. CASE altimeter = "stopped"
    BY <1>1, <1>4, <2>1, <2>2 DEF ControlsMove, Sent
  <2>3. CASE altimeter # "stopped"
    <3>1. PICK e \in AltimeterMessage :
            e # RegisterListener /\ altimeterBox' = Append(altimeterBox, e)
      BY <1>1, <1>4, <2>3, RateChangeSent
    <3>2. Sent(RegisterListener)' = Sent(RegisterListener) + 0
      BY <1>1, <3>1, SentMore
    <3> HIDE DEF early
    <3> QED BY <1>1, <2>1, <3>2
  <2> QED BY <2>2, <2>3
<1>5. CASE TickerFires
  <2>1. /\ altimeterBox' = Append(altimeterBox, Tick) /\ listeners' = listeners /\ early' = early
        /\ Tick \in AltimeterMessage /\ Tick # RegisterListener
    BY <1>5 DEF TickerFires, AltimeterMessage, Tick, RegisterListener
  <2>2. Sent(RegisterListener)' = Sent(RegisterListener) + 0
    BY <1>1, <2>1, SentMore
  <2> HIDE DEF early
  <2> QED BY <1>1, <2>1, <2>2
<1>6. CASE ChangeRate \/ AltimeterTicks
  <2>1. /\ altimeterBox # << >> /\ altimeterBox' = Tail(altimeterBox)
        /\ listeners' = listeners /\ early' = early
        /\ Head(altimeterBox).msg \in {"RateChange", "Tick"}
    BY <1>6 DEF ChangeRate, AltimeterTicks, AltimeterReads
  <2>2. Sent(RegisterListener)' =
          Sent(RegisterListener) - (IF Head(altimeterBox) = RegisterListener THEN 1 ELSE 0)
        /\ Head(altimeterBox) \in AltimeterMessage
    BY <1>1, <2>1, SentLess
  <2>3. Head(altimeterBox) # RegisterListener
    BY <2>1, <2>2, AltimeterKinds
  <2> HIDE DEF early
  <2> QED BY <1>1, <2>1, <2>2, <2>3
<1>7. CASE AddListener
  <2>1. /\ altimeterBox # << >> /\ altimeterBox' = Tail(altimeterBox)
        /\ listeners' = listeners + 1 /\ early' = early
        /\ Head(altimeterBox).msg = "RegisterListener"
    BY <1>7 DEF AddListener, AltimeterReads
  <2>2. Sent(RegisterListener)' =
          Sent(RegisterListener) - (IF Head(altimeterBox) = RegisterListener THEN 1 ELSE 0)
        /\ Head(altimeterBox) \in AltimeterMessage
    BY <1>1, <2>1, SentLess
  <2>3. Head(altimeterBox) = RegisterListener
    BY <2>1, <2>2, AltimeterKinds
  <2>4. early \in Nat
    OBVIOUS
  <2> HIDE DEF early
  <2> QED BY <1>1, <2>1, <2>2, <2>3, <2>4
<1>8. CASE AltimeterStops
  <2>1. altimeterBox' = << >> /\ listeners' = listeners /\ early' = early
    BY <1>8 DEF AltimeterStops
  <2>2. Sent(RegisterListener)' = 0
    <3>1. Len(<< >>) = 0
      OBVIOUS
    <3> QED BY <2>1, <3>1, EmptyBox DEF Sent
  <2>3. early \in Nat
    OBVIOUS
  <2> HIDE DEF early
  <2> QED BY <1>1, <2>1, <2>2, <2>3
<1>9. CASE /\ UNCHANGED <<altimeterBox, listeners, ticks>>
           /\ plane' \in {"new", "constructed"} => plane \in {"new", "constructed"}
  <2>1. Sent(RegisterListener)' = Sent(RegisterListener) /\ listeners' = listeners
    BY <1>9 DEF Sent
  <2>2. early' <= early /\ early' \in Nat /\ early \in Nat
    BY <1>9
  <2> HIDE DEF early
  <2> QED BY <1>1, <2>1, <2>2
<1> QED BY <1>3, <1>4, <1>5, <1>6, <1>7, <1>8, <1>9, AltimeterMail

(* The plane's mailbox: read from the head, and one update at a time.      *)
LEMMA OneListener ==
  ASSUME Mail, OneRegistration
  PROVE  listeners \in {0, 1}
<1>1. Sent(RegisterListener) \in Nat
  BY SentIsNat
<1> QED BY <1>1 DEF OneRegistration, Sent

LEMMA UpdateSent ==
  ASSUME AirplaneInv, AltimeterTicks
  PROVE  /\ listeners = 0 => planeBox' = planeBox
         /\ listeners = 1 => \E u \in Update : /\ u.n = ticks' /\ u.altitude = altitude'
                                               /\ planeBox' = Append(planeBox, u)
<1>1. /\ ticks \in Int /\ ticks' = ticks + 1 /\ planeBox \in Seq(PlaneMessage)
      /\ planeBox' = planeBox \o [i \in 1..listeners |-> AltitudeUpdate(ticks', altitude')]
  BY DEF AirplaneInv, Ticking, Mail, AltimeterTicks, HandleTick, SendUpdate
<1>2. altitude' \in Int
  <2>1. /\ Horizon \in Nat /\ now \in 0..Horizon /\ lastTick \in 0..now
        /\ altitude \in Int /\ altitude <= 2 * lastTick /\ altitude >= -2 * lastTick
        /\ rateOfClimb \in -2..2
    BY BoundsAssumption DEF AirplaneInv, Flight
  <2>2. altitude' = altitude + (now - lastTick) * rateOfClimb
    BY DEF AltimeterTicks, HandleTick, Climb
  <2> QED BY <2>1, <2>2, ClimbBound
<1>3. PICK q, u, a, c : q = planeBox /\ a = altitude' /\ c = ticks' /\ u = AltitudeUpdate(c, a)
  OBVIOUS
<1>4. /\ u \in Update /\ u.n = c /\ u.altitude = a /\ u \in PlaneMessage
  <2>1. a \in Int /\ c \in Int
    BY <1>1, <1>2, <1>3
  <2>2. u \in Update /\ u.n = c /\ u.altitude = a
    BY <1>3, <2>1 DEF AltitudeUpdate, Update
  <2> QED BY <2>2 DEF PlaneMessage
<1>5. q \in Seq(PlaneMessage)
  BY <1>1, <1>3
<1>6. ASSUME listeners = 0 PROVE planeBox' = planeBox
  <2>1. [i \in 1..0 |-> u] = << >>
    OBVIOUS
  <2>2. q \o << >> = q
    BY <1>5
  <2> QED BY <1>1, <1>3, <1>6, <2>1, <2>2
<1>7. ASSUME listeners = 1 PROVE planeBox' = Append(planeBox, u)
  <2>1. [i \in 1..1 |-> u] = << u >>
    OBVIOUS
  <2>2. q \o << u >> = Append(q, u)
    BY <1>4, <1>5
  <2> QED BY <1>1, <1>3, <1>7, <2>1, <2>2
<1> QED BY <1>3, <1>4, <1>6, <1>7

LEMMA UpdatesTyped ==
  ASSUME Mail
  PROVE  Updates \in Seq(Update)
<1>1. PICK q, p : q = planeBox /\ p = Updates
  OBVIOUS
<1>2. q \in Seq(PlaneMessage)
  BY <1>1 DEF Mail
<1>3. p \in Seq(PlaneMessage) /\ \A k \in 1..Len(p) : p[k] \in Update
  BY <1>1, <1>2, FilterProperties DEF Updates, Range
<1>4. p \in Seq(Update)
  BY <1>3
<1> QED BY <1>1, <1>4

LEMMA PlaneReads ==
  ASSUME Mail, planeBox # << >>, planeBox' = Tail(planeBox)
  PROVE  /\ planeBox' \in Seq(PlaneMessage) /\ Updates' \in Seq(Update)
         /\ Head(planeBox) \in PlaneMessage
         /\ Head(planeBox) \in Update => Updates = << Head(planeBox) >> \o Updates'
         /\ Head(planeBox) \notin Update => Updates = Updates'
<1>1. PICK q, r : q = planeBox /\ r = Tail(planeBox)
  OBVIOUS
<1>2. q \in Seq(PlaneMessage) /\ q # << >> /\ r = Tail(q)
  BY <1>1 DEF Mail
<1>3. r \in Seq(PlaneMessage) /\ Head(q) \in PlaneMessage
  BY <1>2
<1>4. PICK p : p = Only(r, Update)
  OBVIOUS
<1>5. p \in Seq(PlaneMessage) /\ \A k \in 1..Len(p) : p[k] \in Update
  BY <1>3, <1>4, FilterProperties DEF Range
<1>6. p \in Seq(Update)
  BY <1>5
<1>7. /\ Head(q) \in Update => Only(q, Update) = << Head(q) >> \o p
      /\ Head(q) \notin Update => Only(q, Update) = p
  BY <1>2, <1>4, FilterOfTail
<1> QED BY <1>1, <1>3, <1>4, <1>6, <1>7 DEF Updates

(* An entry before a sequence.                                             *)
LEMMA Pushed ==
  ASSUME NEW S, NEW h \in S, NEW p \in Seq(S), NEW s, s = << h >> \o p
  PROVE  /\ s \in Seq(S) /\ Len(p) \in Nat /\ Len(s) = Len(p) + 1 /\ s[1] = h
         /\ \A k \in 1..Len(p) : s[k + 1] = p[k]
<1>1. PICK g : g = << h >>
  OBVIOUS
<1>2. g \in Seq(S) /\ Len(g) = 1 /\ g[1] = h
  BY <1>1
<1>3. /\ Len(g \o p) = Len(g) + Len(p)
      /\ \A k \in 1..(Len(g) + Len(p)) : (g \o p)[k] = IF k <= Len(g) THEN g[k] ELSE p[k - Len(g)]
  BY <1>2, ConcatProperties
<1>4. s = g \o p /\ s \in Seq(S) /\ Len(p) \in Nat
  BY <1>1, <1>2
<1>5. Len(s) = Len(p) + 1 /\ \A k \in 1..Len(s) : s[k] = IF k <= 1 THEN g[k] ELSE p[k - 1]
  BY <1>2, <1>3, <1>4
<1>6. s[1] = h
  BY <1>2, <1>4, <1>5
<1>7. ASSUME NEW k \in 1..Len(p) PROVE s[k + 1] = p[k]
  <2>1. k + 1 \in 1..Len(s) /\ ~ (k + 1 <= 1) /\ (k + 1) - 1 = k
    BY <1>4, <1>5
  <2> QED BY <1>5, <2>1
<1> QED BY <1>4, <1>5, <1>6, <1>7

(* Asked: the request for the controls is no update, whenever it comes.    *)
LEMMA Asked ==
  ASSUME Mail, MainAsks
  PROVE  planeBox' \in Seq(PlaneMessage) /\ Updates' = Updates
<1>1. PICK q, e : q = planeBox /\ e = GiveMeControl
  OBVIOUS
<1>2. q \in Seq(PlaneMessage) /\ e \in PlaneMessage /\ e \notin Update
  BY <1>1 DEF Mail, PlaneMessage, GiveMeControl, Update
<1>3. Append(q, e) \in Seq(PlaneMessage)
  BY <1>2
<1>4. Only(Append(q, e), Update) = Only(q, Update)
  BY <1>2, FilterOfAppend
<1> QED BY <1>1, <1>3, <1>4 DEF MainAsks, Updates

(* Whose step changes what the plane has before it or what it is told.     *)
LEMMA PlaneMail ==
  ASSUME AirplaneNext
  PROVE  \/ MainAsks \/ PlaneGivesControl \/ PlaneHears \/ AddListener \/ AltimeterTicks
         \/ PlaneStops
         \/ /\ UNCHANGED <<planeBox, heard, ticks, altitude, listeners>>
            /\ plane = "stopped" => plane' = "stopped"
<1> DEFINE Same == /\ UNCHANGED <<planeBox, heard, ticks, altitude, listeners>>
                   /\ plane = "stopped" => plane' = "stopped"
<1>1. Advance \/ MainGoesOn \/ MainThrows => Same
  BY DEF Advance, MainGoesOn, MainThrows, mainVars, flightVars
<1>2. PlaneConstructs \/ PlanePreStart \/ ControlsMove => Same
  BY DEF PlaneConstructs, PlanePreStart, ControlsMove, flightVars
<1>3. AltimeterStarts \/ ChangeRate \/ TickerFires => Same
  BY DEF AltimeterStarts, ChangeRate, AltimeterReads, TickerFires, flightVars
<1>4. (\E i \in DOMAIN Movements : MoveStick(i)) \/ TerminateSystem => Same
  BY DEF MoveStick, TerminateSystem, Due, flightVars
<1>5. ControlsStop \/ AltimeterStops => Same
  BY DEF ControlsStop, AltimeterStops, flightVars
<1> HIDE DEF Same
<1>6. MainAsks \/ PlaneGivesControl \/ PlaneHears \/ AddListener \/ AltimeterTicks \/ PlaneStops
        \/ Same
  BY <1>1, <1>2, <1>3, <1>4, <1>5, Zenon DEF AirplaneNext, Main, Plane, Altimeter, Stops
<1> QED BY <1>6 DEF Same

LEMMA ControlsMail ==
  ASSUME Mail, AirplaneNext
  PROVE  controlsBox' \in Seq(StickMessage)
<1>1. controlsBox \in Seq(StickMessage)
  BY DEF Mail
<1>2. CASE Advance \/ Main \/ Plane \/ Altimeter \/ TickerFires \/ TerminateSystem
  <2>1. Advance \/ Main \/ Plane \/ TickerFires \/ TerminateSystem => controlsBox' = controlsBox
    BY DEF Advance, Main, MainAsks, MainGoesOn, MainThrows, Plane, PlaneConstructs, PlanePreStart,
           PlaneGivesControl, PlaneHears, TickerFires, TerminateSystem
  <2>2. Altimeter => controlsBox' = controlsBox
    BY DEF Altimeter, AltimeterStarts, AddListener, ChangeRate, AltimeterTicks, AltimeterReads
  <2> QED BY <1>1, <1>2, <2>1, <2>2
<1>3. CASE ControlsMove
  <2>1. PICK q : q = controlsBox
    OBVIOUS
  <2>2. q \in Seq(StickMessage) /\ q # << >> /\ controlsBox' = Tail(q)
    BY <1>1, <1>3, <2>1 DEF ControlsMove
  <2>3. Tail(q) \in Seq(StickMessage)
    BY <2>2
  <2> QED BY <2>2, <2>3
<1>4. ASSUME NEW i \in DOMAIN Movements, MoveStick(i) PROVE controlsBox' \in Seq(StickMessage)
  <2>1. PICK e : e = Movements[i].do
    OBVIOUS
  <2>2. e \in StickMessage
    BY <2>1, StickMessages
  <2>3. controlsBox' = controlsBox \/ controlsBox' = Append(controlsBox, e)
    BY <1>4, <2>1 DEF MoveStick
  <2> QED BY <1>1, <2>2, <2>3
<1>5. CASE Stops
  <2>1. controlsBox' = controlsBox \/ controlsBox' = << >>
    BY <1>5 DEF Stops, ControlsStop, AltimeterStops, PlaneStops
  <2>2. << >> \in Seq(StickMessage)
    OBVIOUS
  <2> QED BY <1>1, <2>1, <2>2
<1> QED BY <1>2, <1>3, <1>4, <1>5 DEF AirplaneNext

LEMMA AltimeterBoxTyped ==
  ASSUME Mail, AirplaneNext
  PROVE  altimeterBox' \in Seq(AltimeterMessage)
<1>1. altimeterBox \in Seq(AltimeterMessage)
  BY DEF Mail
<1>2. CASE PlanePreStart \/ TickerFires
  <2>1. Tick \in AltimeterMessage /\ RegisterListener \in AltimeterMessage
    BY DEF AltimeterMessage
  <2>2. \/ altimeterBox' = Append(altimeterBox, Tick)
        \/ altimeterBox' = Append(altimeterBox, RegisterListener)
    BY <1>2 DEF PlanePreStart, TickerFires
  <2> QED BY <2>1, <2>2, SentMore
<1>3. CASE ControlsMove
  <2>1. CASE altimeter = "stopped"
    BY <1>1, <1>3, <2>1 DEF ControlsMove
  <2>2. CASE altimeter # "stopped"
    <3>1. PICK e \in AltimeterMessage : altimeterBox' = Append(altimeterBox, e)
      BY <1>3, <2>2, RateChangeSent
    <3> QED BY <3>1, SentMore
  <2> QED BY <2>1, <2>2
<1>4. CASE AddListener \/ ChangeRate \/ AltimeterTicks
  <2>1. altimeterBox # << >> /\ altimeterBox' = Tail(altimeterBox)
    BY <1>4 DEF AddListener, ChangeRate, AltimeterTicks, AltimeterReads
  <2> QED BY <2>1, SentLess
<1>5. CASE AltimeterStops
  <2>1. << >> \in Seq(AltimeterMessage) /\ altimeterBox' = << >>
    BY <1>5 DEF AltimeterStops
  <2> QED BY <2>1
<1>6. CASE UNCHANGED <<altimeterBox, listeners, ticks>>
  BY <1>1, <1>6
<1> QED BY <1>2, <1>3, <1>4, <1>5, <1>6, AltimeterMail

LEMMA MailInv ==
  ASSUME AirplaneInv, AirplaneNext
  PROVE  Mail'
<1>1. Mail /\ OneRegistration
  BY DEF AirplaneInv
<1>2. controlsBox' \in Seq(StickMessage) /\ altimeterBox' \in Seq(AltimeterMessage)
  BY <1>1, ControlsMail, AltimeterBoxTyped
<1>3. SUFFICES planeBox' \in Seq(PlaneMessage) /\ (heard' # Nobody => heard' \in Update)
  BY <1>2 DEF Mail
<1>4. CASE MainAsks
  <2>1. planeBox' \in Seq(PlaneMessage)
    BY <1>1, <1>4, Asked
  <2>2. heard' = heard
    BY <1>4 DEF MainAsks
  <2> QED BY <1>1, <2>1, <2>2 DEF Mail
<1>5. CASE PlaneGivesControl \/ PlaneHears
  <2>1. planeBox # << >> /\ planeBox' = Tail(planeBox)
    BY <1>5 DEF PlaneGivesControl, PlaneHears
  <2>2. planeBox' \in Seq(PlaneMessage) /\ Head(planeBox) \in PlaneMessage
    BY <1>1, <2>1, PlaneReads
  <2>3. CASE PlaneGivesControl
    BY <1>1, <2>2, <2>3 DEF Mail, PlaneGivesControl
  <2>4. CASE PlaneHears
    BY <2>2, <2>4, PlaneKinds DEF PlaneHears
  <2> QED BY <1>5, <2>3, <2>4
<1>6. CASE AltimeterTicks
  <2>1. heard' = heard
    BY <1>6 DEF AltimeterTicks, AltimeterReads
  <2>2. CASE listeners = 0
    <3>1. planeBox' = planeBox
      BY <1>6, <2>2, UpdateSent
    <3> QED BY <1>1, <2>1, <3>1 DEF Mail
  <2>3. CASE listeners = 1
    <3>1. PICK u \in Update : planeBox' = Append(planeBox, u)
      BY <1>6, <2>3, UpdateSent
    <3>2. planeBox \in Seq(PlaneMessage) /\ u \in PlaneMessage
      BY <1>1 DEF Mail, PlaneMessage
    <3> QED BY <1>1, <2>1, <3>1, <3>2 DEF Mail
  <2> QED BY <1>1, <2>2, <2>3, OneListener
<1>7. CASE PlaneStops
  <2>1. << >> \in Seq(PlaneMessage)
    OBVIOUS
  <2>2. planeBox' = << >> /\ heard' = heard
    BY <1>7 DEF PlaneStops
  <2> QED BY <1>1, <2>1, <2>2 DEF Mail
<1>8. CASE UNCHANGED <<planeBox, heard>>
  BY <1>1, <1>8 DEF Mail
<1>9. AddListener => UNCHANGED <<planeBox, heard>>
  BY DEF AddListener, AltimeterReads
<1> QED BY <1>4, <1>5, <1>6, <1>7, <1>8, <1>9, PlaneMail

LEMMA InStepInv ==
  ASSUME AirplaneInv, AirplaneNext
  PROVE  InStep'
<1>1. Mail /\ OneRegistration /\ InStep /\ ticks \in Nat
  BY DEF AirplaneInv, Ticking
<1>2. CASE MainAsks
  <2>1. UNCHANGED <<plane, heard, ticks, altitude, listeners>>
    BY <1>2 DEF MainAsks, flightVars
  <2>2. Updates' = Updates
    BY <1>1, <1>2, Asked
  <2> QED BY <1>1, <2>1, <2>2 DEF InStep
<1>3. CASE PlaneGivesControl
  <2>1. /\ planeBox # << >> /\ planeBox' = Tail(planeBox) /\ Head(planeBox) = GiveMeControl
        /\ UNCHANGED <<plane, heard, ticks, altitude, listeners>>
    BY <1>3 DEF PlaneGivesControl, flightVars
  <2>2. Head(planeBox) \notin Update
    BY <2>1 DEF GiveMeControl, Update
  <2>3. Updates' = Updates
    BY <1>1, <2>1, <2>2, PlaneReads
  <2> QED BY <1>1, <2>1, <2>3 DEF InStep
<1>4. CASE PlaneHears
  <2>1. /\ planeBox # << >> /\ planeBox' = Tail(planeBox) /\ plane = "up"
        /\ heard' = Head(planeBox) /\ Head(planeBox).msg = "AltitudeUpdate"
        /\ UNCHANGED <<ticks, altitude, listeners>>
    BY <1>4 DEF PlaneHears, flightVars
  <2>2. PICK s, p, h : s = Updates /\ p = Updates' /\ h = heard'
    OBVIOUS
  <2>3. h \in Update /\ p \in Seq(Update) /\ s = << h >> \o p
    BY <1>1, <2>1, <2>2, PlaneReads, PlaneKinds
  <2>4. /\ s \in Seq(Update) /\ Len(p) \in Nat /\ Len(s) = Len(p) + 1 /\ s[1] = h
        /\ \A k \in 1..Len(p) : s[k + 1] = p[k]
    BY <2>3, Pushed
  <2>5. \A k \in 1..Len(s) : /\ listeners # 0 /\ s[k].n = ticks - Len(s) + k
                             /\ k = Len(s) => s[k].altitude = altitude
    BY <1>1, <2>1, <2>2 DEF InStep
  <2>6. ASSUME NEW k \in 1..Len(p)
        PROVE  /\ listeners # 0 /\ p[k].n = ticks - Len(p) + k
               /\ k = Len(p) => p[k].altitude = altitude
    <3>1. /\ k + 1 \in 1..Len(s) /\ ticks - Len(s) + (k + 1) = ticks - Len(p) + k
          /\ k = Len(p) => k + 1 = Len(s)
      BY <1>1, <2>4
    <3>2. s[k + 1] = p[k]
      BY <2>4
    <3> QED BY <2>5, <3>1, <3>2
  <2>7. listeners # 0 /\ h.n = ticks - Len(p) /\ (p = << >> => h.altitude = altitude)
    <3>1. 1 \in 1..Len(s) /\ ticks - Len(s) + 1 = ticks - Len(p)
      BY <1>1, <2>4
    <3>2. p = << >> => 1 = Len(s)
      <4>1. Len(<< >>) = 0
        OBVIOUS
      <4> QED BY <2>4, <4>1
    <3> QED BY <2>4, <2>5, <3>1, <3>2
  <2> QED BY <2>1, <2>2, <2>6, <2>7 DEF InStep
<1>5. CASE AddListener
  <2>1. /\ UNCHANGED <<planeBox, heard, ticks, altitude, plane>>
        /\ listeners' = listeners + 1 /\ listeners \in Nat
    BY <1>1, <1>5 DEF AddListener, AltimeterReads, flightVars, OneRegistration
  <2>2. listeners' # 0 /\ Updates' = Updates
    BY <2>1 DEF Updates
  <2> QED BY <1>1, <2>1, <2>2 DEF InStep
<1>6. CASE AltimeterTicks
  <2>1. UNCHANGED <<heard, plane, listeners>> /\ ticks' = ticks + 1
    BY <1>6 DEF AltimeterTicks, AltimeterReads, HandleTick
  <2>2. SUFFICES ASSUME plane # "stopped" PROVE InStep'
    BY <2>1 DEF InStep
  <2>3. PICK p : p = Updates
    OBVIOUS
  <2>4. p \in Seq(Update) /\ Len(p) \in Nat
    BY <1>1, <2>3, UpdatesTyped
  <2>5. /\ \A k \in 1..Len(p) : listeners # 0 /\ p[k].n = ticks - Len(p) + k
        /\ heard # Nobody => listeners # 0 /\ heard.n = ticks - Len(p)
    BY <1>1, <2>2, <2>3 DEF InStep
  <2>6. CASE listeners = 0
    <3>1. Updates' = p
      BY <1>6, <2>3, <2>6, UpdateSent DEF Updates
    <3>2. heard = Nobody /\ \A k \in 1..Len(p) : FALSE
      BY <2>5, <2>6
    <3> QED BY <2>1, <3>1, <3>2 DEF InStep
  <2>7. CASE listeners = 1
    <3>1. PICK u \in Update :
            u.n = ticks' /\ u.altitude = altitude' /\ planeBox' = Append(planeBox, u)
      BY <1>6, <2>7, UpdateSent
    <3>2. PICK r : r = Append(p, u)
      OBVIOUS
    <3>3. Updates' = r
      <4>1. planeBox \in Seq(PlaneMessage) /\ u \in PlaneMessage
        BY <1>1 DEF Mail, PlaneMessage
      <4>2. Only(Append(planeBox, u), Update) = Append(Only(planeBox, Update), u)
        BY <4>1, FilterOfAppend
      <4> QED BY <2>3, <3>1, <3>2, <4>2 DEF Updates
    <3>4. /\ r \in Seq(Update) /\ Len(r) = Len(p) + 1 /\ r[Len(p) + 1] = u
          /\ \A k \in 1..Len(p) : r[k] = p[k]
      BY <2>4, <3>2
    <3>5. r # << >>
      <4>1. Len(<< >>) = 0
        OBVIOUS
      <4> QED BY <2>4, <3>4, <4>1
    <3>6. ASSUME NEW k \in 1..Len(r)
          PROVE  r[k].n = ticks' - Len(r) + k /\ (k = Len(r) => r[k].altitude = altitude')
      <4>1. CASE k = Len(p) + 1
        <5>1. r[k] = u /\ ticks' - Len(r) + k = ticks'
          BY <1>1, <2>1, <2>4, <3>4, <4>1
        <5> QED BY <3>1, <5>1
      <4>2. CASE k # Len(p) + 1
        <5>1. /\ k \in 1..Len(p) /\ k # Len(r)
              /\ ticks' - Len(r) + k = ticks - Len(p) + k
          BY <1>1, <2>1, <2>4, <3>4, <4>2
        <5>2. r[k] = p[k]
          BY <3>4, <5>1
        <5> QED BY <2>5, <5>1, <5>2
      <4> QED BY <4>1, <4>2
    <3>7. ticks - Len(p) = ticks' - Len(r)
      BY <1>1, <2>1, <2>4, <3>4
    <3>8. listeners' # 0
      BY <2>1, <2>7
    <3> QED BY <2>1, <2>5, <3>3, <3>5, <3>6, <3>7, <3>8 DEF InStep
  <2> QED BY <1>1, <2>6, <2>7, OneListener
<1>7. CASE PlaneStops
  BY <1>7 DEF PlaneStops, InStep
<1>8. CASE /\ UNCHANGED <<planeBox, heard, ticks, altitude, listeners>>
           /\ plane = "stopped" => plane' = "stopped"
  <2>1. Updates' = Updates
    BY <1>8 DEF Updates
  <2> QED BY <1>1, <1>8, <2>1 DEF InStep
<1> QED BY <1>2, <1>3, <1>4, <1>5, <1>6, <1>7, <1>8, PlaneMail

LEMMA AirplaneNextInv == AirplaneInv /\ [AirplaneNext]_airplaneVars => AirplaneInv'
<1> SUFFICES ASSUME AirplaneInv, [AirplaneNext]_airplaneVars PROVE AirplaneInv'
  OBVIOUS
<1>1. CASE AirplaneNext
  BY <1>1, ActorsInv, FlightInv, OnTimeInv, TickingInv, MailInv, OneRegistrationInv, InStepInv
     DEF AirplaneInv
<1>2. CASE UNCHANGED airplaneVars
  <2>1. UNCHANGED <<now, mainThread, mainSince, todo, plane, controls, altimeter>>
        /\ UNCHANGED <<planeBox, controlsBox, altimeterBox, listeners, rateOfClimb, altitude>>
        /\ UNCHANGED <<lastTick, ticks, heard>>
    BY <1>2 DEF airplaneVars, mainVars, flightVars
  <2>2. Actors' /\ Flight' /\ OnTime' /\ Ticking'
    BY <2>1 DEF AirplaneInv, Actors, Flight, OnTime, ClockEnd, Ticking, TicksSent
  <2>3. Mail' /\ OneRegistration' /\ InStep'
    BY <2>1 DEF AirplaneInv, Mail, OneRegistration, InStep, Updates
  <2> QED BY <2>2, <2>3 DEF AirplaneInv
<1> QED BY <1>1, <1>2

(* AirplaneInvHolds: however late main, timers, tasks and actors are, the  *)
(* plane is registered once at most, and the updates in its mailbox are    *)
(* numbered back from the last tick, wherever main's request for the       *)
(* controls comes between them (Main.scala:22-32, Plane.scala:26-35).      *)
THEOREM AirplaneInvHolds == AirplaneSpec => []AirplaneInv
<1>1. AirplaneInit => AirplaneInv
  BY AirplaneInitInv
<1>2. AirplaneInv /\ [AirplaneNext]_airplaneVars => AirplaneInv'
  BY AirplaneNextInv
<1> QED BY <1>1, <1>2, PTL DEF AirplaneSpec

(* AirplaneTypeCorrect: actors, tasks and mailboxes are what they should   *)
(* be, and the plane is never higher or lower than its best climb or       *)
(* descent so far could take it (Altimeter.scala:69).                      *)
THEOREM AirplaneTypeCorrect == AirplaneSpec => []AirplaneTypeOK
<1>1. ASSUME AirplaneInv PROVE AirplaneTypeOK
  <2>1. Actors /\ Flight /\ Mail /\ OneRegistration
    BY <1>1 DEF AirplaneInv
  <2>2. listeners \in {0, 1}
    BY <2>1, OneListener
  <2>3. ticks \in 0..MaxTicks
    <3>1. Sent(Tick) \in Nat
      BY <2>1, SentIsNat
    <3> QED BY <1>1, <3>1, BoundsAssumption DEF AirplaneInv, Ticking, TicksSent, Sent
  <2>4. \A k \in DOMAIN planeBox : planeBox[k].msg \in {"GiveMeControl", "AltitudeUpdate"}
    <3>1. \A k \in DOMAIN planeBox : planeBox[k] \in PlaneMessage
      BY <2>1 DEF Mail
    <3> QED BY <3>1, PlaneKinds
  <2>5. \A k \in DOMAIN controlsBox : controlsBox[k].msg \in {"StickBack", "StickForward"}
    <3>1. \A k \in DOMAIN controlsBox : controlsBox[k] \in StickMessage
      BY <2>1 DEF Mail
    <3> QED BY <3>1 DEF StickMessage
  <2>6. \A k \in DOMAIN altimeterBox :
          altimeterBox[k].msg \in {"RegisterListener", "RateChange", "Tick"}
    <3>1. \A k \in DOMAIN altimeterBox : altimeterBox[k] \in AltimeterMessage
      BY <2>1 DEF Mail
    <3> QED BY <3>1, AltimeterKinds
  <2> QED BY <2>1, <2>2, <2>3, <2>4, <2>5, <2>6 DEF AirplaneTypeOK, Actors, Flight
<1>2. AirplaneInv => AirplaneTypeOK
  BY <1>1
<1> QED BY <1>2, AirplaneInvHolds, PTL

(* What InStep says by places is what PlaneHearsTheFlight says of the news.*)
LEMMA InStepHears ==
  ASSUME Mail, InStep, ticks \in Nat
  PROVE  PlaneHearsTheFlight
<1>1. SUFFICES ASSUME plane # "stopped"
               PROVE  LET news == IF heard = Nobody THEN Updates ELSE <<heard>> \o Updates
                      IN  /\ \A k \in DOMAIN news : news[k].n = ticks - Len(news) + k
                          /\ news # << >> => news[Len(news)].altitude = altitude
  BY DEF PlaneHearsTheFlight
<1>2. PICK h, p : h = heard /\ p = Updates
  OBVIOUS
<1>3. p \in Seq(Update) /\ Len(p) \in Nat /\ DOMAIN p = 1..Len(p)
  BY <1>2, UpdatesTyped
<1>4. /\ \A k \in 1..Len(p) : /\ p[k].n = ticks - Len(p) + k
                              /\ k = Len(p) => p[k].altitude = altitude
      /\ h # Nobody => h.n = ticks - Len(p) /\ (p = << >> => h.altitude = altitude)
  BY <1>1, <1>2 DEF InStep
<1>5. CASE h = Nobody
  <2>1. p # << >> => Len(p) \in 1..Len(p)
    BY <1>3
  <2> QED BY <1>2, <1>3, <1>4, <1>5, <2>1
<1>6. CASE h # Nobody
  <2>1. h \in Update
    BY <1>2, <1>6 DEF Mail
  <2>2. PICK s : s = << h >> \o p
    OBVIOUS
  <2>3. /\ s \in Seq(Update) /\ Len(s) = Len(p) + 1 /\ s[1] = h
        /\ \A k \in 1..Len(p) : s[k + 1] = p[k]
    BY <1>3, <2>1, <2>2, Pushed
  <2>4. ASSUME NEW k \in 1..Len(s)
        PROVE  s[k].n = ticks - Len(s) + k /\ (k = Len(s) => s[k].altitude = altitude)
    <3>1. CASE k = 1
      <4>1. ticks - Len(s) + k = ticks - Len(p) /\ (k = Len(s) => Len(p) = 0)
        BY <1>3, <2>3, <3>1
      <4>2. k = Len(s) => p = << >>
        BY <1>3, <4>1
      <4> QED BY <1>4, <1>6, <2>3, <3>1, <4>1, <4>2
    <3>2. CASE k # 1
      <4>1. PICK j : j = k - 1
        OBVIOUS
      <4>2. /\ j \in 1..Len(p) /\ k = j + 1
            /\ ticks - Len(s) + k = ticks - Len(p) + j
            /\ k = Len(s) => j = Len(p)
        BY <1>3, <2>3, <3>2, <4>1
      <4>3. s[k] = p[j]
        BY <2>3, <4>2
      <4> QED BY <1>4, <4>2, <4>3
    <3> QED BY <3>1, <3>2
  <2>5. Len(s) \in 1..Len(s) /\ DOMAIN s = 1..Len(s)
    BY <1>3, <2>3
  <2> QED BY <1>2, <1>6, <2>2, <2>4, <2>5
<1> QED BY <1>5, <1>6

(* HearsTheFlight: from its registration on the plane hears of every tick, *)
(* once, in order and up to the last, with the altitude as it is           *)
(* (EventSource.scala:24, Plane.scala:34).                                 *)
THEOREM HearsTheFlight == AirplaneSpec => []PlaneHearsTheFlight
<1>1. AirplaneInv => PlaneHearsTheFlight
  BY InStepHears DEF AirplaneInv, Ticking
<1> QED BY <1>1, AirplaneInvHolds, PTL
=============================================================================
