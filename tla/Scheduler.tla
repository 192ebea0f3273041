----------------------------- MODULE Scheduler -----------------------------
(***************************************************************************)
(* The Scheduler of scaladoc's index page (lib/scheduler.js): queues of    *)
(* work under labels in the order of their priorities, and one timer that  *)
(* fires, runs one piece of work, and is set again, until none is left.    *)
(* timeout says whether the timer is set: outside of its callback the      *)
(* field is undefined just when it is not.                                 *)
(***************************************************************************)
EXTENDS Naturals, Sequences, SequencesExt

NewScheduler == [labels |-> << >>, queues |-> << >>, timeout |-> FALSE]

(* Behind the labels of the same or a smaller number.                      *)
AddLabel(s, name, priority) ==
  LET later == SelectInSeq(s.labels, LAMBDA l : l.priority > priority)
      idx   == IF later = 0 THEN Len(s.labels) + 1 ELSE later
  IN  [s EXCEPT !.labels = InsertAt(@, idx, [name |-> name, priority |-> priority]),
                !.queues = InsertAt(@, idx, << >>)]

QueueOf(s, name) == SelectInSeq(s.labels, LAMBDA l : l.name = name)

Add(s, name, work) ==
  [s EXCEPT !.queues[QueueOf(s, name)] = Append(@, work), !.timeout = TRUE]

ClearNothing(s, name) == s           \* variant: a comparison that never holds
Clear(s, name) == [s EXCEPT !.queues[QueueOf(s, name)] = << >>]

(* nextWork: the first queue that is not empty, 0 if there is none.        *)
NextQueue(s) == SelectInSeq(s.queues, LAMBDA q : q # << >>)
NextWork(s)  == Head(s.queues[NextQueue(s)])
TakeWork(s)  == [s EXCEPT !.queues[NextQueue(s)] = Tail(@)]

(* After the callback: doWork() when there was work, undefined otherwise.  *)
TimeoutWithoutDoWork(s, worked) == [s EXCEPT !.timeout = FALSE]   \* variant
Timeout(s, worked) == [s EXCEPT !.timeout = worked]
=============================================================================
