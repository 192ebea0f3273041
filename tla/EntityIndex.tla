---------------------------- MODULE EntityIndex ----------------------------
(***************************************************************************)
(* The list of packages and templates of scaladoc's index page and its     *)
(* filters (lib/index.js): text, focus on a package, "packages only", and  *)
(* hiding a package.  Everything runs on the browser's event loop: events  *)
(* of the user, and the scheduler's timer, which builds the list one       *)
(* package at a time.  The page is taken from the end of its ready handler.*)
(***************************************************************************)
EXTENDS Integers, FiniteSets, Scheduler, Filtering

CONSTANTS PACKAGES,    \* Index.PACKAGES by name: records of pack, a path of identifiers,
                       \* and templates, a set
          Hits,        \* what each query finds: a set of templates, or NoPattern
          NoPattern    \* where compilePattern, which escapes no braces, throws: "{2}"

NoFocus   == << >>           \* null and undefined
Queries   == DOMAIN Hits
Packs     == {PACKAGES[i].pack : i \in DOMAIN PACKAGES}
Templates == UNION {PACKAGES[i].templates : i \in DOMAIN PACKAGES}

ASSUME PackagesAssumption ==      \* every package has a name
  PACKAGES \in Seq([pack : Packs \ {NoFocus}, templates : SUBSET Templates])
ASSUME HitsAssumption == /\ "" \in Queries
                         /\ \A q \in Queries : Hits[q] = NoPattern \/ Hits[q] \subseteq Templates
                         /\ Hits[""] = Templates

VARIABLES
  scheduler,
  list,               \* what is in #tpl
  input, keyup,       \* the text, and that a key is still down
  focusFilterState, kindFilterState,
  focusShown, kindShown,     \* whether the bars of the two filters are displayed
  controls,           \* what exists of the filter box
  hiddenPackages

indexVars == <<scheduler, list, input, keyup, focusFilterState, kindFilterState,
               focusShown, kindShown, controls, hiddenPackages>>

-----------------------------------------------------------------------------
(* The tree of a package: its templates displayed or not, the text of its  *)
(* hide link, and how many handlers its two links have.  The header, with  *)
(* the links, is left out for the package in focus.                        *)
Tree(p, matched, focus) ==
  [pack |-> p, matched |-> matched, header |-> p # focus, open |-> TRUE, visible |-> TRUE,
   link |-> "hide", hideHandlers |-> 0, focusHandlers |-> 0]

Below(p, q) == IsStrictPrefix(q, p)                 \* p.indexOf(q + '.') == 0
InFocus(p, focus) == focus = NoFocus \/ p = focus \/ Below(p, focus)
Matched(i, query) == PACKAGES[i].templates \cap Hits[query]

Search(query, index) == [fn |-> "search", query |-> query, index |-> index]
Work(fn) == [fn |-> fn]
FilterQueue == scheduler.queues[QueueOf(scheduler, "filter")]

(* textFilter, given the scheduler it finds: the old search is dropped and *)
(* the list emptied before the pattern is compiled.                        *)
Filtered(s, query) ==
  IF Hits[query] = NoPattern THEN Clear(s, "filter")
  ELSE Add(Clear(s, "filter"), "filter", Search(query, 0))

(* kindFilterSync on the list.                                             *)
KindSyncedWithoutText(l, kind, focus) ==            \* variant
  LET show == kind = "all" \/ focus # NoFocus
  IN  [i \in DOMAIN l |-> [l[i] EXCEPT !.open = show]]
KindSynced(l, kind, focus) ==
  LET show == kind = "all" \/ focus # NoFocus
  IN  [i \in DOMAIN l |-> [l[i] EXCEPT !.open = show, !.link = IF show THEN "hide" ELSE "show"]]

(* subPackages: its inner pack shadows the parameter, so that a package is *)
(* compared with itself.                                                   *)
SubPackages(selected) ==
  {i \in DOMAIN list : LET pack == list[i].pack IN Below(pack, pack)}

ReadyScheduler ==
  LET labelled == AddLabel(AddLabel(AddLabel(NewScheduler, "init", 1), "focus", 2), "filter", 4)
      text  == Add(Add(labelled, "init", Work("textInput")), "init", Work("clearButton"))
      kind  == Add(text, "init", Work("kind"))
      focus == Add(Add(kind, "init", Work("focusBar")), "init", Work("focusLinks"))
  IN  Filtered(focus, "")

IndexInit ==
  /\ scheduler = ReadyScheduler
  /\ list = << >>
  /\ input = "" /\ keyup = FALSE
  /\ focusFilterState = NoFocus /\ kindFilterState = "undefined"
  /\ focusShown = FALSE /\ kindShown = FALSE
  /\ controls = {} /\ hiddenPackages = {}

-----------------------------------------------------------------------------
(* The work of the label init.                                             *)
InitControl(fn) ==
  /\ controls' = controls \cup {fn}
  /\ kindFilterState'  = IF fn = "kind" THEN "all" ELSE kindFilterState
  /\ kindShown' = (kindShown \/ fn = "kind")
  /\ focusFilterState' = IF fn = "focusBar" THEN NoFocus ELSE focusFilterState
  /\ focusShown' = (focusShown /\ fn # "focusBar")
  /\ UNCHANGED <<list, input, keyup, hiddenPackages>>

(* configureFocusFilter's second piece binds to the links in the list,     *)
(* with a handler that takes the wrong parent.  textFilter has emptied the *)
(* list and no search has run: there are none.                             *)
FocusLinks == UNCHANGED <<list, input, keyup, hiddenPackages, controls, kindFilterState,
                          kindShown, focusFilterState, focusShown>>

(* searchLoop: the next package in focus with a match is appended and the  *)
(* loop scheduled again; after the last one the links get their handlers.  *)
SearchFinds(w, s, i) ==
  /\ list' = Append(list, Tree(PACKAGES[i].pack, Matched(i, w.query), focusFilterState))
  /\ scheduler' = Timeout(Add(s, "filter", Search(w.query, i)), TRUE)

SearchEnds(s) ==
  /\ list' = [i \in DOMAIN list |->
                IF list[i].header
                THEN [list[i] EXCEPT !.hideHandlers = @ + 1, !.focusHandlers = @ + 1]
                ELSE list[i]]
  /\ scheduler' = Timeout(s, TRUE)

NextMatch(w) ==
  SelectInSubSeq([i \in DOMAIN PACKAGES |-> i], w.index + 1, Len(PACKAGES),
    LAMBDA i : InFocus(PACKAGES[i].pack, focusFilterState) /\ Matched(i, w.query) # {})

SearchLoop(w, s) ==
  /\ IF NextMatch(w) = 0 THEN SearchEnds(s) ELSE SearchFinds(w, s, NextMatch(w))
  /\ UNCHANGED <<input, keyup, focusFilterState, kindFilterState, focusShown, kindShown,
                 controls, hiddenPackages>>

TimerInit ==
  /\ scheduler.timeout /\ NextQueue(scheduler) # 0
  /\ LET w == NextWork(scheduler)
     IN  /\ w.fn \notin {"search", "focusLinks"}
         /\ InitControl(w.fn)
  /\ scheduler' = Timeout(TakeWork(scheduler), TRUE)

TimerFocusLinks ==
  /\ scheduler.timeout /\ NextQueue(scheduler) # 0
  /\ NextWork(scheduler).fn = "focusLinks"
  /\ FocusLinks
  /\ scheduler' = Timeout(TakeWork(scheduler), TRUE)

TimerSearch ==
  /\ scheduler.timeout /\ NextQueue(scheduler) # 0
  /\ NextWork(scheduler).fn = "search"
  /\ SearchLoop(NextWork(scheduler), TakeWork(scheduler))

TimerRunsOut ==
  /\ scheduler.timeout /\ NextQueue(scheduler) = 0
  /\ scheduler' = Timeout(scheduler, FALSE)
  /\ UNCHANGED <<list, input, keyup, focusFilterState, kindFilterState, focusShown, kindShown,
                 controls, hiddenPackages>>

Timer == TimerInit \/ TimerFocusLinks \/ TimerSearch \/ TimerRunsOut

-----------------------------------------------------------------------------
(* The text filter: the text changes with the key, the handler runs when   *)
(* it is released; escape and the button behind the text empty it.         *)
TextFilter(query) == /\ scheduler' = Filtered(scheduler, query)
                     /\ list' = << >>

Type(q) ==
  /\ "textInput" \in controls
  /\ input' = q /\ keyup' = TRUE
  /\ UNCHANGED <<scheduler, list, focusFilterState, kindFilterState, focusShown, kindShown,
                 controls, hiddenPackages>>

KeyUp(escape) ==
  /\ keyup
  /\ keyup' = FALSE
  /\ input' = IF escape THEN "" ELSE input
  /\ TextFilter(input')
  /\ UNCHANGED <<focusFilterState, kindFilterState, focusShown, kindShown, controls, hiddenPackages>>

ClickClear ==
  /\ "clearButton" \in controls
  /\ input' = ""
  /\ TextFilter("")
  /\ UNCHANGED <<keyup, focusFilterState, kindFilterState, focusShown, kindShown, controls,
                 hiddenPackages>>

(* focusFilter, on a link with a handler.                                  *)
ClickFocus(i) ==
  /\ list[i].visible /\ list[i].focusHandlers > 0
  /\ focusShown' = TRUE /\ kindShown' = FALSE
  /\ focusFilterState' = list[i].pack
  /\ TextFilter(input)           \* which replaces the list kindFilterSync has changed
  /\ UNCHANGED <<input, keyup, kindFilterState, controls, hiddenPackages>>

(* The handler of focusremove ends where textFilter throws.                *)
ClickFocusRemove ==
  /\ focusShown
  /\ TextFilter(input)
  /\ IF Hits[input] = NoPattern
     THEN UNCHANGED <<focusShown, kindShown, focusFilterState>>
     ELSE focusShown' = FALSE /\ kindShown' = TRUE /\ focusFilterState' = NoFocus
  /\ UNCHANGED <<input, keyup, kindFilterState, controls, hiddenPackages>>

ClickKind ==
  /\ kindShown
  /\ kindFilterState' = IF kindFilterState = "all" THEN "packs" ELSE "all"
  /\ list' = KindSynced(list, kindFilterState', focusFilterState)
  /\ UNCHANGED <<scheduler, input, keyup, focusFilterState, focusShown, kindShown, controls,
                 hiddenPackages>>

(* The hide link: an even number of handlers would undo one another.       *)
HidePackage(i) ==
  /\ hiddenPackages' = hiddenPackages \cup {list[i].pack}
  /\ list' = [j \in DOMAIN list |->
                IF j = i THEN [list[i] EXCEPT !.open = FALSE, !.link = "show"]
                ELSE [list[j] EXCEPT !.visible = @ /\ j \notin SubPackages(list[i].pack)]]

ShowPackage(i) ==
  /\ hiddenPackages' = hiddenPackages \ {list[i].pack}
  /\ list' = [j \in DOMAIN list |->
                IF j = i THEN [list[i] EXCEPT !.open = TRUE, !.link = "hide"]
                ELSE IF j \in SubPackages(list[i].pack)
                THEN [list[j] EXCEPT !.visible = TRUE,
                        !.open = @ /\ list[j].pack \notin hiddenPackages /\ kindFilterState # "packs"]
                ELSE list[j]]

ClickHide(i) ==
  /\ list[i].visible /\ list[i].hideHandlers % 2 = 1
  /\ IF list[i].link = "hide" THEN HidePackage(i) ELSE ShowPackage(i)
  /\ UNCHANGED <<scheduler, input, keyup, focusFilterState, kindFilterState, focusShown, kindShown,
                 controls>>

IndexUser == \/ \E q \in Queries : Type(q)
             \/ \E i \in DOMAIN list : ClickFocus(i) \/ ClickHide(i)
             \/ ClickClear \/ ClickFocusRemove \/ ClickKind
IndexEvents == Timer \/ \E escape \in BOOLEAN : KeyUp(escape)

-----------------------------------------------------------------------------
IndexTypeOK ==
  /\ \A i \in DOMAIN list : list[i] \in
       [pack : Packs, matched : SUBSET Templates, header : BOOLEAN, open : BOOLEAN,
        visible : BOOLEAN, link : {"hide", "show"}, hideHandlers : Nat, focusHandlers : Nat]
  /\ input \in Queries /\ keyup \in BOOLEAN
  /\ focusFilterState \in Packs \cup {NoFocus}
  /\ kindFilterState \in {"undefined", "all", "packs"}
  /\ focusShown \in BOOLEAN /\ kindShown \in BOOLEAN
  /\ controls \subseteq {"textInput", "clearButton", "kind", "focusBar"}
  /\ hiddenPackages \subseteq Packs
  /\ scheduler.timeout \in BOOLEAN

(* ListIsAnswer: at most one search is under way, for the text as it is    *)
(* (once keys are up) and the focus as it is; what it has not passed yet   *)
(* apart, the list holds the packages of the focus with a match, each once *)
(* and in order, whatever the user has clicked while it ran (searchLoop    *)
(* reads the focus at every step, and the query once).                     *)
Answers(i) == /\ Hits[input] # NoPattern
              /\ InFocus(PACKAGES[i].pack, focusFilterState)
              /\ Matched(i, input) # {}
Searched == IF FilterQueue = << >> THEN Len(PACKAGES) ELSE Head(FilterQueue).index
ListIsAnswer ==
  /\ Len(FilterQueue) <= 1
  /\ ~keyup =>
       LET answer == Only([i \in 1..Searched |-> i], {i \in 1..Searched : Answers(i)})
       IN  /\ FilterQueue # << >> => Head(FilterQueue).query = input
           /\ Len(list) = Len(answer)
           /\ \A k \in DOMAIN answer : /\ list[k].pack = PACKAGES[answer[k]].pack
                                       /\ list[k].matched = Matched(answer[k], input)

(* LinksAgree: a hide link says what it does, and when no search is under  *)
(* way every link works once; the bar of the focus is displayed just when  *)
(* there is one, and the bar of the kinds just when there is none.         *)
LinksAgree ==
  /\ \A i \in DOMAIN list :
       /\ list[i].open <=> list[i].link = "hide"
       /\ list[i].header <=> list[i].pack # focusFilterState
       /\ LET bound == IF FilterQueue = << >> /\ list[i].header THEN 1 ELSE 0
          IN  list[i].hideHandlers = bound /\ list[i].focusHandlers = bound
  /\ focusShown <=> focusFilterState # NoFocus
  /\ "kind" \in controls => (kindShown <=> ~focusShown)

IndexSettled == ~keyup /\ ~scheduler.timeout /\ NextQueue(scheduler) = 0
=============================================================================
