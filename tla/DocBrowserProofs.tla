------------------------- MODULE DocBrowserProofs -------------------------
(***************************************************************************)
(* What holds in every window of the documentation, for any packages,      *)
(* pages, members, texts and addresses, however often the user acts.       *)
(***************************************************************************)
EXTENDS DocBrowser, FilteringLemmas

-----------------------------------------------------------------------------
(* The page.  The flat list answers the controls as they are; the groups   *)
(* answer them only while they are displayed.                              *)
FlatAnswers    == flat = {m \in Members : m.owner \notin HiddenSuperclasses(alpha, out)
                                          /\ Passes(m, text, public)}
GroupedAnswers == ~alpha => grouped = {m \in Copies : Passes(m, text, public)}

PageInv == PageTypeOK /\ inheritedShown = ~alpha /\ FlatAnswers /\ GroupedAnswers

(* The frame, where the browser lets it be read.  A load to come will set  *)
(* address and title again; until the next one, they name the page that    *)
(* has loaded.  A page other than the first is there only by a navigation, *)
(* so its load has declared lastFragment before a member link of it can    *)
(* end the next one.  The empty document is on its way to a page.          *)
TitleNamesFrame   == readable /\ lastFragment # Undeclared /\ ~loading
                       => title = <<IndexTitle, PageOf(frame)>>
AddressNamesFrame == readable /\ nav = << >> /\ ~loading
                       => /\ lastFragment # Undeclared
                          /\ ~stopped => /\ lastFragment \in Places
                                         /\ lastFragment[1] = PageOf(frame)
ChangesAreSeen    == hashEvents = 0 /\ lastFragment # Undeclared => lastFragment = hash
LoadedIsNamed     == readable /\ frame # Blank /\ frame[1] # Root /\ ~loading
                       => lastFragment # Undeclared
BlankIsLeft       == frame = Blank => nav # << >>

FrameInv == /\ FrameTypeOK /\ TitleNamesFrame /\ AddressNamesFrame /\ ChangesAreSeen
            /\ LoadedIsNamed /\ BlankIsLeft

(* The scheduler.  Three labels, of which "focus" is never given work: the *)
(* ready handler's work is under "init", at most one search under "filter".*)
Label(name, n) == [name |-> name, priority |-> n]
Sched(a, c, t) ==
  [labels  |-> <<Label("init", 1), Label("focus", 2), Label("filter", 4)>>,
   queues  |-> <<a, << >>, c>>,
   timeout |-> t]

InitWorks == {Work(fn) : fn \in {"textInput", "clearButton", "kind", "focusBar", "focusLinks"}}
Searches  == [fn : {"search"}, query : {q \in Queries : Hits[q] # NoPattern},
              index : 0..Len(PACKAGES)]
InitQueue == scheduler.queues[1]

SchedulerInv ==
  /\ scheduler.timeout \in BOOLEAN
  /\ InitQueue \in Seq(InitWorks)
  /\ FilterQueue = << >> \/ \E w \in Searches : FilterQueue = <<w>>
  /\ scheduler = Sched(InitQueue, FilterQueue, scheduler.timeout)

(* The list: it has the answers among the first n packages, and before the *)
(* ready handler's work is done there are none, and no focus.              *)
Trees == [pack : Packs, matched : SUBSET Templates, header : BOOLEAN, open : BOOLEAN,
          visible : BOOLEAN, link : {"hide", "show"}, hideHandlers : Nat, focusHandlers : Nat]

AnswerSet == {i \in DOMAIN PACKAGES : Answers(i)}
Found(n)  == Only(Numbers(n), AnswerSet)
ListIsFound(n) ==
  /\ Len(list) = Len(Found(n))
  /\ \A k \in DOMAIN Found(n) : /\ list[k].pack = PACKAGES[Found(n)[k]].pack
                                /\ list[k].matched = Matched(Found(n)[k], input)
SearchInv ==
  ~keyup => /\ FilterQueue # << >> => Head(FilterQueue).query = input
            /\ ListIsFound(Searched)

StartInv == InitQueue # << >> => list = << >> /\ focusFilterState = NoFocus

IndexInv == /\ IndexTypeOK /\ list \in Seq(Trees) /\ SchedulerInv
            /\ SearchInv /\ StartInv /\ LinksAgree

DocInv == budget \in [{"index", "frame", "page"} -> Nat] /\ IndexInv /\ FrameInv /\ PageInv

-----------------------------------------------------------------------------
LEMMA LinearizationFacts == Own \in Classes /\ \A m \in Members : m.owner \in Classes
<1>1. Linearization \in Seq(Classes) /\ Linearization # << >>
  BY MembersAssumption, Zenon
<1>2. Head(Linearization) \in Classes
  BY <1>1, HeadTailProperties, Zenon
<1> QED BY <1>2, MembersAssumption, Zenon DEF Own

LEMMA PageStarts ==
  /\ PageInit => PageInv
  /\ PageReady => PageInv'
<1>1. "" \in Texts /\ Finds[""] = Members
  BY MembersAssumption
<1> QED BY <1>1 DEF PageInit, PageReady, Fresh, PageInv, PageTypeOK, FlatAnswers, GroupedAnswers,
                    HiddenSuperclasses, Copies, Passes

(* A filter run with the values the controls then have.                    *)
LEMMA FilterAnswers ==
  ASSUME PageInv, Filter(text', public', alpha', out'),
         text' \in Texts, public' \in BOOLEAN, alpha' \in BOOLEAN, out' \subseteq Classes
  PROVE  PageInv'
BY DEF PageInv, PageTypeOK, FlatAnswers, GroupedAnswers, HiddenSuperclasses, Copies, Filter

LEMMA PageUserKeeps ==
  ASSUME PageInv, PageUser
  PROVE  PageInv'
<1>1. ASSUME NEW q \in Texts, EnterText(q) PROVE PageInv'
  BY <1>1, FilterAnswers DEF EnterText, PageInv, PageTypeOK
<1>2. ASSUME NEW notChosen \in SUBSET Classes, Choose(notChosen) PROVE PageInv'
  BY <1>2, FilterAnswers DEF Choose, PageInv, PageTypeOK
<1>3. ASSUME NEW c \in Classes, ToggleClass(c) PROVE PageInv'
  <2>1. out \ {c} \in SUBSET Classes /\ out \cup {c} \in SUBSET Classes
    BY DEF PageInv, PageTypeOK
  <2> QED BY <1>2, <1>3, <2>1 DEF ToggleClass
<1>4. ASSUME HideAll \/ ShowAll PROVE PageInv'
  <2>1. Classes \ {Own} \in SUBSET Classes /\ out \cap HiddenClasses \in SUBSET Classes
    BY DEF PageInv, PageTypeOK
  <2> QED BY <1>2, <1>4, <2>1 DEF HideAll, ShowAll
<1>5. ASSUME SetVisibility PROVE PageInv'
  BY <1>5, FilterAnswers DEF SetVisibility, PageInv, PageTypeOK
<1>6. ASSUME SetOrder PROVE PageInv'
  BY <1>6, FilterAnswers DEF SetOrder, PageInv, PageTypeOK
<1> QED BY <1>1, <1>3, <1>4, <1>5, <1>6 DEF PageUser

LEMMA PageInvImplies == PageInv => MembersOnce
<1> SUFFICES ASSUME PageInv, NEW m \in Members
             PROVE  Displayed(m) = IF /\ Passes(m, text, public)
                                      /\ IF alpha THEN m.owner \notin out
                                                  ELSE m.owner = Own \/ m \in Copies
                                   THEN 1 ELSE 0
  BY DEF MembersOnce
<1>1. m.owner \in Classes /\ (m \in Copies => m.owner # Own)
  BY LinearizationFacts DEF Copies
<1>2. CASE alpha
  <2>1. m \in flat <=> m.owner \notin out /\ Passes(m, text, public)
    BY <1>2 DEF PageInv, FlatAnswers, HiddenSuperclasses
  <2>2. ~inheritedShown
    BY <1>2 DEF PageInv
  <2> HIDE DEF Passes, Copies
  <2> QED BY <1>2, <2>1, <2>2 DEF Displayed
<1>3. CASE ~alpha
  <2>1. m \in flat <=> m.owner = Own /\ Passes(m, text, public)
    BY <1>1, <1>3 DEF PageInv, FlatAnswers, HiddenSuperclasses
  <2> HIDE DEF Passes, Copies
  <2>2. inheritedShown /\ (m \in grouped <=> m \in Copies /\ Passes(m, text, public))
    BY <1>3 DEF PageInv, GroupedAnswers
  <2>3. m \in Copies => m.owner # Own
    BY <1>1
  <2> QED BY <1>3, <2>1, <2>2, <2>3 DEF Displayed
<1> QED BY <1>2, <1>3

-----------------------------------------------------------------------------
LEMMA PlaceFacts ==
  /\ \A f \in Places : f # << >> /\ f[1] \in Pages /\ Len(f) \in {1, 2}
  /\ Undeclared \notin Fragments
  /\ \A f \in Fragments : Location(f) \in Places
  /\ \A p \in Pages : <<p>> \in Places
BY RootAssumption DEF Places, Fragments, Undeclared, Location

LEMMA FrameStarts == FrameInit => FrameInv
<1> SUFFICES ASSUME FrameInit PROVE FrameInv
  OBVIOUS
<1>1. /\ hash \in Fragments /\ nav \in Places /\ nav # << >>
      /\ frame \in {Blank, <<Root>>} /\ <<Root>> \in Places
  BY AddressesAssumption, RootAssumption, PlaceFacts DEF FrameInit
<1>2. FrameTypeOK
  BY <1>1, RootAssumption DEF FrameInit, FrameTypeOK
<1>3. LoadedIsNamed /\ BlankIsLeft
  BY <1>1 DEF LoadedIsNamed, BlankIsLeft, Blank
<1>4. TitleNamesFrame /\ AddressNamesFrame /\ ChangesAreSeen
  BY <1>1 DEF FrameInit, TitleNamesFrame, AddressNamesFrame, ChangesAreSeen
<1> QED BY <1>2, <1>3, <1>4 DEF FrameInv

LEMMA FrameNumbers == FrameInv => hashEvents \in Nat
BY DEF FrameInv, FrameTypeOK

LEMMA FrameUserKeeps ==
  ASSUME FrameInv,
         \/ \E p \in Pages : FollowLink(p)
         \/ \E m \in Anchors : FollowAnchor(m)
         \/ \E f \in Addresses : EditHash(f)
  PROVE  FrameInv'
<1>1. ASSUME NEW p \in Pages, FollowLink(p) PROVE FrameInv'
  <2>1. <<p>> \in Places /\ <<p>> # << >>
    BY PlaceFacts
  <2> QED BY <1>1, <2>1 DEF FollowLink, FrameInv, FrameTypeOK, TitleNamesFrame,
             AddressNamesFrame, ChangesAreSeen, LoadedIsNamed, BlankIsLeft
<1>2. ASSUME NEW m \in Anchors, FollowAnchor(m) PROVE FrameInv'
  <2>1. frame # Blank /\ frame[1] \in Pages \ {Root}
    BY <1>2, PlaceFacts DEF FollowAnchor, FrameInv, FrameTypeOK
  <2>2. frame' = <<frame[1], m>> /\ <<frame[1], m>> \in Places
    BY <1>2, <2>1 DEF FollowAnchor, Places
  <2>3. frame' # Blank /\ frame'[1] = frame[1]
    BY <2>2 DEF Blank
  <2>4. PageOf(frame') = PageOf(frame)
    BY <2>1, <2>3 DEF PageOf
  <2>5. /\ nav' \in {nav, << >>} /\ stopped' = (stopped \/ nav' # nav)
        /\ UNCHANGED <<readable, hash, lastFragment, loading, hashEvents, title>>
    BY <1>2 DEF FollowAnchor
  <2>6. stopped' \in BOOLEAN /\ (nav' = nav => (stopped' <=> stopped))
        /\ (nav' # nav => stopped')
    BY <2>5, Zenon DEF FrameInv, FrameTypeOK
  <2>7. FrameTypeOK'
    BY <2>2, <2>5, <2>6 DEF FrameInv, FrameTypeOK
  <2>8. ChangesAreSeen' /\ LoadedIsNamed' /\ BlankIsLeft'
    BY <2>1, <2>3, <2>5 DEF FrameInv, ChangesAreSeen, LoadedIsNamed, BlankIsLeft
  <2>9. TitleNamesFrame'
    BY <2>4, <2>5 DEF FrameInv, TitleNamesFrame
  <2>10. AddressNamesFrame'
    BY <2>1, <2>4, <2>5, <2>6 DEF FrameInv, AddressNamesFrame, LoadedIsNamed
  <2> QED BY <2>7, <2>8, <2>9, <2>10 DEF FrameInv
<1>3. ASSUME NEW f \in Addresses, EditHash(f) PROVE FrameInv'
  <2>1. /\ hash' = f /\ f \in Fragments
        /\ UNCHANGED <<readable, lastFragment, frame, nav, loading, title, stopped>>
    BY <1>3, AddressesAssumption DEF EditHash
  <2>2. hashEvents' \in Nat /\ hashEvents' # 0
    BY <1>3, FrameNumbers DEF EditHash
  <2> QED BY <2>1, <2>2 DEF FrameInv, FrameTypeOK, TitleNamesFrame, AddressNamesFrame,
             ChangesAreSeen, LoadedIsNamed, BlankIsLeft
<1> QED BY <1>1, <1>2, <1>3

LEMMA FrameArrivesKeeps ==
  ASSUME FrameInv, FrameArrives
  PROVE  FrameInv'
<1>1. nav \in Places /\ nav # Blank /\ nav[1] \in Pages
  BY PlaceFacts DEF FrameArrives, Blank, FrameInv, FrameTypeOK
<1>2. FrameTypeOK'
  BY <1>1 DEF FrameArrives, WindowTitle, FrameInv, FrameTypeOK
<1>3. /\ TitleNamesFrame' /\ AddressNamesFrame' /\ ChangesAreSeen'
      /\ LoadedIsNamed' /\ BlankIsLeft'
  BY <1>1 DEF FrameArrives, FrameInv, TitleNamesFrame, AddressNamesFrame, ChangesAreSeen,
              LoadedIsNamed, BlankIsLeft
<1> QED BY <1>2, <1>3 DEF FrameInv

LEMMA FrameLoadsKeeps ==
  ASSUME FrameInv, FrameLoads
  PROVE  FrameInv'
<1>1. /\ frame' = frame /\ nav' = nav /\ readable' = readable
      /\ loading' = FALSE /\ stopped' = FALSE
  BY DEF FrameLoads
<1>2. hashEvents' \in Nat
  <2>1. hashEvents' = IF hash' # hash THEN hashEvents + 1 ELSE hashEvents
    BY DEF FrameLoads
  <2> QED BY <2>1, FrameNumbers
<1>3. PageOf(frame) \in Pages \cup {""}
  BY PlaceFacts DEF PageOf, FrameInv, FrameTypeOK
<1>4. /\ readable => title' = <<IndexTitle, PageOf(frame)>>
      /\ title' \in {title, <<IndexTitle, PageOf(frame)>>, <<IndexTitle, "">>}
  BY DEF FrameLoads
<1>5. CASE readable /\ frame # Blank
  <2>1. frame \in Places /\ PageOf(frame) = frame[1] /\ frame # Undeclared
    BY <1>5, PlaceFacts DEF PageOf, FrameInv, FrameTypeOK, Fragments
  <2>2. hash' = frame /\ lastFragment' = frame
    BY <1>5 DEF FrameLoads, SetUrlFragment
  <2>3. FrameTypeOK'
    BY <1>1, <1>2, <1>3, <1>4, <2>1, <2>2 DEF FrameInv, FrameTypeOK, Fragments
  <2>4. TitleNamesFrame'
    BY <1>1, <1>4, <1>5 DEF TitleNamesFrame
  <2>5. AddressNamesFrame'
    BY <1>1, <2>1, <2>2 DEF AddressNamesFrame
  <2>6. ChangesAreSeen' /\ LoadedIsNamed' /\ BlankIsLeft'
    BY <1>1, <1>5, <2>1, <2>2 DEF ChangesAreSeen, LoadedIsNamed, BlankIsLeft
  <2> QED BY <2>3, <2>4, <2>5, <2>6 DEF FrameInv
<1>6. CASE ~ (readable /\ frame # Blank)
  <2>1. hash' = hash /\ lastFragment' = lastFragment /\ hashEvents' = hashEvents
    BY <1>6 DEF FrameLoads, SetUrlFragment
  <2>2. FrameTypeOK'
    BY <1>1, <1>2, <1>3, <1>4, <2>1 DEF FrameInv, FrameTypeOK
  <2>3. TitleNamesFrame'
    BY <1>1, <1>4 DEF TitleNamesFrame
  <2>4. /\ AddressNamesFrame' /\ ChangesAreSeen'
        /\ LoadedIsNamed' /\ BlankIsLeft'
    BY <1>1, <1>6, <2>1 DEF FrameInv, AddressNamesFrame, ChangesAreSeen, LoadedIsNamed, BlankIsLeft
  <2> QED BY <2>2, <2>3, <2>4 DEF FrameInv
<1> QED BY <1>5, <1>6

LEMMA HashChangeKeeps ==
  ASSUME FrameInv, HashChange
  PROVE  FrameInv'
<1>1. /\ hashEvents' = hashEvents - 1 /\ hashEvents' \in Nat
      /\ UNCHANGED <<readable, hash, loading, title>>
  BY FrameNumbers DEF HashChange
<1>2. CASE lastFragment # Undeclared /\ lastFragment # hash
  <2>1. lastFragment' = hash /\ SetFrameSrc(hash)
    BY <1>2 DEF HashChange
  <2>2. /\ hash \in Fragments /\ hash # Undeclared
        /\ Location(hash) \in Places /\ Location(hash) # << >>
    BY PlaceFacts DEF FrameInv, FrameTypeOK
  <2>3. CASE Len(Location(hash)) = 2 /\ frame # Blank /\ Location(hash)[1] = frame[1]
    <3>1. Location(hash) = hash /\ hash \in Places /\ hash # << >>
      BY <2>2, <2>3 DEF Location
    <3>2. frame' = hash /\ nav' \in {nav, << >>} /\ stopped' = FALSE /\ hash[1] = frame[1]
      BY <2>1, <2>3, <3>1 DEF SetFrameSrc
    <3>3. PageOf(hash) = hash[1] /\ PageOf(frame) = hash[1]
      BY <2>3, <3>1, <3>2 DEF PageOf, Blank
    <3>4. FrameTypeOK'
      BY <1>1, <2>1, <2>2, <3>1, <3>2 DEF FrameInv, FrameTypeOK
    <3>5. TitleNamesFrame' /\ AddressNamesFrame'
      BY <1>1, <1>2, <2>1, <2>2, <3>1, <3>2, <3>3 DEF FrameInv, TitleNamesFrame, AddressNamesFrame
    <3>6. ChangesAreSeen' /\ LoadedIsNamed' /\ BlankIsLeft'
      BY <1>1, <2>1, <2>2, <3>1, <3>2 DEF ChangesAreSeen, LoadedIsNamed, BlankIsLeft, Blank
    <3> QED BY <3>4, <3>5, <3>6 DEF FrameInv
  <2>4. CASE ~ (Len(Location(hash)) = 2 /\ frame # Blank /\ Location(hash)[1] = frame[1])
    <3>1. frame' = frame /\ nav' = Location(hash) /\ stopped' = stopped
      BY <2>1, <2>4 DEF SetFrameSrc
    <3>2. FrameTypeOK'
      BY <1>1, <2>1, <2>2, <3>1 DEF FrameInv, FrameTypeOK
    <3>3. TitleNamesFrame' /\ AddressNamesFrame'
      BY <1>1, <1>2, <2>1, <2>2, <3>1 DEF FrameInv, TitleNamesFrame, AddressNamesFrame
    <3>4. ChangesAreSeen' /\ LoadedIsNamed' /\ BlankIsLeft'
      BY <1>1, <2>1, <2>2, <3>1 DEF ChangesAreSeen, LoadedIsNamed, BlankIsLeft
    <3> QED BY <3>2, <3>3, <3>4 DEF FrameInv
  <2> QED BY <2>3, <2>4
<1>3. CASE ~ (lastFragment # Undeclared /\ lastFragment # hash)
  <2>1. UNCHANGED <<lastFragment, frame, nav, stopped>>
    BY <1>3 DEF HashChange
  <2> QED BY <1>1, <1>3, <2>1
          DEF FrameInv, FrameTypeOK, TitleNamesFrame, AddressNamesFrame, ChangesAreSeen,
              LoadedIsNamed, BlankIsLeft
<1> QED BY <1>2, <1>3

LEMMA FrameEventsKeep ==
  ASSUME FrameInv, FrameEvents
  PROVE  FrameInv'
BY FrameLoadsKeeps, HashChangeKeeps DEF FrameEvents

LEMMA FrameInvImplies == FrameInv => PageNamed
BY PlaceFacts DEF FrameInv, FrameTypeOK, TitleNamesFrame, AddressNamesFrame, ChangesAreSeen,
                  PageNamed, FrameSettled, Fragments

-----------------------------------------------------------------------------
(* The scheduler's operations on the values SchedulerInv allows.           *)
LEMMA LeastIs ==
  ASSUME NEW S \in SUBSET Int, NEW m \in S, \A x \in S : m <= x
  PROVE  Min(S) = m
<1>1. \A x \in S : (\A y \in S : x <= y) => x = m
  OBVIOUS
<1> QED BY <1>1 DEF Min

LEMMA InsertLast ==
  ASSUME NEW S, NEW s \in Seq(S), NEW e \in S
  PROVE  InsertAt(s, Len(s) + 1, e) = Append(s, e)
<1>1. /\ SubSeq(s, 1, (Len(s) + 1) - 1) = s
      /\ SubSeq(s, Len(s) + 1, Len(s)) = << >>
  <2>1. Len(s) \in Nat /\ (Len(s) + 1) - 1 = Len(s)
    OBVIOUS
  <2> QED BY <2>1, SubSeqFull, SubSeqEmpty
<1>2. s \o <<e>> = Append(s, e)
  BY AppendIsConcat
<1>3. Append(s, e) \o << >> = Append(s, e)
  BY ConcatEmptySeq
<1> QED BY <1>1, <1>2, <1>3 DEF InsertAt

LEMMA FilterLabel ==
  ASSUME NEW a, NEW c, NEW t
  PROVE  QueueOf(Sched(a, c, t), "filter") = 3 /\ QueueOf(Sched(a, c, t), "init") = 1
<1> DEFINE labels == Sched(a, c, t).labels
           at(name) == {i \in 1..Len(labels) : labels[i].name = name}
<1>1. at("filter") = {3} /\ at("init") = {1}
  BY DEF Sched, Label
<1>2. Min({3}) = 3 /\ Min({1}) = 1
  BY LeastIs
<1> QED BY <1>1, <1>2 DEF QueueOf, SelectInSeq

LEMMA TripleUpdated ==
  ASSUME NEW a, NEW b, NEW c, NEW x
  PROVE  /\ [<<a, b, c>> EXCEPT ![1] = x] = <<x, b, c>>
         /\ [<<a, b, c>> EXCEPT ![3] = x] = <<a, b, x>>
OBVIOUS

LEMMA FieldsUpdated ==
  /\ \A l, q, t, x : [[labels |-> l, queues |-> q, timeout |-> t] EXCEPT !.labels = x]
                       = [labels |-> x, queues |-> q, timeout |-> t]
  /\ \A l, q, t, x : [[labels |-> l, queues |-> q, timeout |-> t] EXCEPT !.queues = x]
                       = [labels |-> l, queues |-> x, timeout |-> t]
  /\ \A l, q, t, x : [[labels |-> l, queues |-> q, timeout |-> t] EXCEPT !.timeout = x]
                       = [labels |-> l, queues |-> q, timeout |-> x]
<1>1. ASSUME NEW l, NEW q, NEW t, NEW x
      PROVE  [[labels |-> l, queues |-> q, timeout |-> t] EXCEPT !.labels = x]
               = [labels |-> x, queues |-> q, timeout |-> t]
  BY Z3
<1>2. ASSUME NEW l, NEW q, NEW t, NEW x
      PROVE  [[labels |-> l, queues |-> q, timeout |-> t] EXCEPT !.queues = x]
               = [labels |-> l, queues |-> x, timeout |-> t]
  BY Z3
<1>3. ASSUME NEW l, NEW q, NEW t, NEW x
      PROVE  [[labels |-> l, queues |-> q, timeout |-> t] EXCEPT !.timeout = x]
               = [labels |-> l, queues |-> q, timeout |-> x]
  BY Z3
<1> QED BY <1>1, <1>2, <1>3

Queued(s, i, x)   == [s EXCEPT !.queues = [s.queues EXCEPT ![i] = x]]
Added(s, name, w, u) == Timeout(Queued(s, QueueOf(s, name),
                                       Append(s.queues[QueueOf(s, name)], w)), u)
Yes == TRUE               \* opaque: the provers confuse TRUE with a formula
Labelled(s, l, q) == [[s EXCEPT !.labels = l] EXCEPT !.queues = q]

LEMMA Operations ==
  /\ \A s, name : Clear(s, name) = Queued(s, QueueOf(s, name), << >>)
  /\ \A s : TakeWork(s) = Queued(s, NextQueue(s), Tail(s.queues[NextQueue(s)]))
<1>1. ASSUME NEW s, NEW name PROVE Clear(s, name) = Queued(s, QueueOf(s, name), << >>)
  BY Zenon DEF Clear, Queued
<1>2. ASSUME NEW s PROVE TakeWork(s) = Queued(s, NextQueue(s), Tail(s.queues[NextQueue(s)]))
  BY Zenon DEF TakeWork, Queued
<1> QED BY <1>1, <1>2, Zenon

LEMMA SchedUpdated ==
  ASSUME NEW a, NEW c, NEW t, NEW x
  PROVE  /\ Queued(Sched(a, c, t), 1, x) = Sched(x, c, t)
         /\ Queued(Sched(a, c, t), 3, x) = Sched(a, x, t)
         /\ Timeout(Sched(a, c, t), x) = Sched(a, c, x)
<1> DEFINE l == <<Label("init", 1), Label("focus", 2), Label("filter", 4)>>
           q == <<a, << >>, c>>
           r == <<x, << >>, c>>
           s == <<a, << >>, x>>
<1>1. /\ Sched(a, c, t).queues = q
      /\ [q EXCEPT ![1] = x] = r /\ [q EXCEPT ![3] = x] = s
  BY TripleUpdated DEF Sched
<1>2. /\ [[labels |-> l, queues |-> q, timeout |-> t] EXCEPT !.queues = r]
           = [labels |-> l, queues |-> r, timeout |-> t]
      /\ [[labels |-> l, queues |-> q, timeout |-> t] EXCEPT !.queues = s]
           = [labels |-> l, queues |-> s, timeout |-> t]
      /\ [[labels |-> l, queues |-> q, timeout |-> t] EXCEPT !.timeout = x]
           = [labels |-> l, queues |-> q, timeout |-> x]
  <2> HIDE DEF l, q, r, s
  <2> QED BY FieldsUpdated
<1>3. /\ Sched(a, c, t) = [labels |-> l, queues |-> q, timeout |-> t]
      /\ Sched(x, c, t) = [labels |-> l, queues |-> r, timeout |-> t]
      /\ Sched(a, x, t) = [labels |-> l, queues |-> s, timeout |-> t]
      /\ Sched(a, c, x) = [labels |-> l, queues |-> q, timeout |-> x]
  BY Zenon DEF Sched
<1> HIDE DEF l, q, r, s
<1>4. Queued(Sched(a, c, t), 1, x) = Sched(x, c, t)
  BY <1>1, <1>2, <1>3, Zenon DEF Queued
<1>5. Queued(Sched(a, c, t), 3, x) = Sched(a, x, t)
  BY <1>1, <1>2, <1>3, Zenon DEF Queued
<1>6. Timeout(Sched(a, c, t), x) = Sched(a, c, x)
  BY <1>2, <1>3, Zenon DEF Timeout
<1> QED BY <1>4, <1>5, <1>6

LEMMA SchedReads ==
  ASSUME NEW a, NEW c, NEW t
  PROVE  /\ Sched(a, c, t).queues[QueueOf(Sched(a, c, t), "filter")] = c
         /\ Sched(a, c, t).queues[QueueOf(Sched(a, c, t), "init")] = a
         /\ Sched(a, c, t).queues[1] = a /\ Sched(a, c, t).timeout = t
BY FilterLabel DEF Sched

LEMMA SchedCleared ==
  ASSUME NEW a, NEW c, NEW t
  PROVE  Clear(Sched(a, c, t), "filter") = Sched(a, << >>, t)
BY FilterLabel, Operations, SchedUpdated

LEMMA AddIsAdded == \A s, name, w : Add(s, name, w) = Added(s, name, w, Yes)
BY Zenon DEF Yes, Add, Added, Queued, Timeout

LEMMA SchedAdded ==
  /\ \A a, c, t, w, u : Added(Sched(a, c, t), "filter", w, u) = Sched(a, Append(c, w), u)
  /\ \A a, c, t, w, u : Added(Sched(a, c, t), "init", w, u) = Sched(Append(a, w), c, u)
<1>1. ASSUME NEW a, NEW c, NEW t, NEW w, NEW u
      PROVE  /\ Added(Sched(a, c, t), "filter", w, u) = Sched(a, Append(c, w), u)
             /\ Added(Sched(a, c, t), "init", w, u) = Sched(Append(a, w), c, u)
  <2>1. /\ Added(Sched(a, c, t), "filter", w, u) = Timeout(Queued(Sched(a, c, t), 3, Append(c, w)), u)
        /\ Added(Sched(a, c, t), "init", w, u) = Timeout(Queued(Sched(a, c, t), 1, Append(a, w)), u)
    BY SchedReads, FilterLabel DEF Added
  <2> QED BY <2>1, SchedUpdated
<1> QED BY <1>1

LEMMA NextOfSched ==
  ASSUME NEW a, NEW c, NEW t
  PROVE  /\ a # << >> => /\ NextQueue(Sched(a, c, t)) # 0
                         /\ NextWork(Sched(a, c, t)) = Head(a)
                         /\ TakeWork(Sched(a, c, t)) = Sched(Tail(a), c, t)
         /\ a = << >> /\ c # << >> => /\ NextQueue(Sched(a, c, t)) # 0
                                      /\ NextWork(Sched(a, c, t)) = Head(c)
                                      /\ TakeWork(Sched(a, c, t)) = Sched(a, Tail(c), t)
         /\ a = << >> /\ c = << >> => NextQueue(Sched(a, c, t)) = 0
<1> DEFINE queues == Sched(a, c, t).queues
           busy == {i \in 1..Len(queues) : queues[i] # << >>}
<1>1. /\ Len(queues) = 3 /\ queues[1] = a /\ queues[2] = << >> /\ queues[3] = c
      /\ busy \in SUBSET Int
  BY DEF Sched
<1>2. NextQueue(Sched(a, c, t)) = IF busy # {} THEN Min(busy) ELSE 0
  BY DEF NextQueue, SelectInSeq
<1>3. CASE a # << >>
  <2>1. 1 \in busy /\ \A x \in busy : 1 <= x
    BY <1>1, <1>3
  <2> HIDE DEF busy
  <2>2. NextQueue(Sched(a, c, t)) = 1
    BY <1>1, <1>2, <2>1, LeastIs
  <2>3. NextWork(Sched(a, c, t)) = Head(a)
    BY <2>2 DEF NextWork, Sched
  <2>4. TakeWork(Sched(a, c, t)) = Queued(Sched(a, c, t), 1, Tail(a))
    BY <1>1, <2>2, Operations
  <2> QED BY <1>3, <2>2, <2>3, <2>4, SchedUpdated
<1>4. CASE a = << >> /\ c # << >>
  <2>1. 3 \in busy /\ \A x \in busy : 3 <= x
    BY <1>1, <1>4
  <2> HIDE DEF busy
  <2>2. NextQueue(Sched(a, c, t)) = 3
    BY <1>1, <1>2, <2>1, LeastIs
  <2>3. NextWork(Sched(a, c, t)) = Head(c)
    BY <2>2 DEF NextWork, Sched
  <2>4. TakeWork(Sched(a, c, t)) = Queued(Sched(a, c, t), 3, Tail(c))
    BY <1>1, <2>2, Operations
  <2> QED BY <1>4, <2>2, <2>3, <2>4, SchedUpdated
<1>5. CASE a = << >> /\ c = << >>
  <2>1. busy = {}
    BY <1>1, <1>5
  <2> QED BY <1>2, <1>5, <2>1
<1> QED BY <1>3, <1>4, <1>5

(* The ready handler: five pieces of work, and the first search.           *)
LEMMA AppendTuple ==
  ASSUME NEW a, NEW b, NEW c
  PROVE  /\ Append(<< >>, a) = <<a>> /\ Append(<<a>>, b) = <<a, b>>
         /\ Append(<<a, b>>, c) = <<a, b, c>>
<1> DEFINE S == {a, b, c}
<1>1. <<a>> \in Seq(S) /\ <<a, b>> \in Seq(S) /\ <<a, b, c>> \in Seq(S)
  OBVIOUS
<1>2. /\ Append(<<a, b>>, c) \in Seq(S) /\ Len(Append(<<a, b>>, c)) = 3
      /\ \A i \in 1..3 : Append(<<a, b>>, c)[i] = <<a, b, c>>[i]
  OBVIOUS
<1>3. /\ Append(<<a>>, b) \in Seq(S) /\ Len(Append(<<a>>, b)) = 2
      /\ \A i \in 1..2 : Append(<<a>>, b)[i] = <<a, b>>[i]
  OBVIOUS
<1>4. Append(<< >>, a) = <<a>>
  OBVIOUS
<1>5. Append(<<a>>, b) = <<a, b>>
  BY <1>1, <1>3, SeqEqual
<1>6. Append(<<a, b>>, c) = <<a, b, c>>
  BY <1>1, <1>2, SeqEqual
<1> QED BY <1>4, <1>5, <1>6

LEMMA LabelsAdded ==
  AddLabel(AddLabel(AddLabel(NewScheduler, "init", 1), "focus", 2), "filter", 4)
    = Sched(<< >>, << >>, FALSE)
<1> DEFINE Names  == {"init", "focus", "filter"}
           Labels == [name : Names, priority : Nat]
           Empty  == {<< >>}
<1>0. PICK no : no = FALSE
  OBVIOUS
<1> DEFINE R(l, q) == [labels |-> l, queues |-> q, timeout |-> no]
<1>1. ASSUME NEW l \in Seq(Labels), NEW q \in Seq(Empty), Len(l) = Len(q),
             NEW name \in Names, NEW n \in Nat, \A i \in 1..Len(l) : l[i].priority <= n
      PROVE  AddLabel(R(l, q), name, n) = R(Append(l, Label(name, n)), Append(q, << >>))
  <2>1. \A i \in 1..Len(l) : ~ (l[i].priority > n)
    <3>1. \A i \in 1..Len(l) : l[i] \in Labels
      BY <1>1, ElementOfSeq
    <3> QED BY <1>1, <3>1
  <2>2. SelectInSeq(R(l, q).labels, LAMBDA x : x.priority > n) = 0
    BY <2>1 DEF SelectInSeq
  <2>3. Label(name, n) \in Labels /\ << >> \in Empty
    BY DEF Label
  <2>4. /\ InsertAt(l, Len(l) + 1, Label(name, n)) = Append(l, Label(name, n))
        /\ InsertAt(q, Len(q) + 1, << >>) = Append(q, << >>)
    <3> HIDE DEF Labels, Empty
    <3> QED BY <1>1, <2>3, InsertLast
  <2>5. AddLabel(R(l, q), name, n)
          = Labelled(R(l, q), Append(l, Label(name, n)), Append(q, << >>))
    <3>1. R(l, q).labels = l /\ R(l, q).queues = q
      OBVIOUS
    <3> HIDE DEF R
    <3> QED BY <1>1, <2>2, <2>4, <3>1, Zenon DEF AddLabel, Label, Labelled
  <2>6. ASSUME NEW x, NEW y PROVE Labelled(R(l, q), x, y) = R(x, y)
    <3>1. [R(l, q) EXCEPT !.labels = x] = R(x, q)
      BY FieldsUpdated
    <3>2. [R(x, q) EXCEPT !.queues = y] = R(x, y)
      BY FieldsUpdated
    <3> HIDE DEF R
    <3> QED BY <3>1, <3>2, Zenon DEF Labelled
  <2> QED BY <2>5, <2>6, Zenon
<1>2. AddLabel(NewScheduler, "init", 1) = R(<<Label("init", 1)>>, << << >> >>)
  <2>1. << >> \in Seq(Labels) /\ << >> \in Seq(Empty) /\ Len(<< >>) = 0
    OBVIOUS
  <2>2. /\ Append(<< >>, Label("init", 1)) = <<Label("init", 1)>>
        /\ Append(<< >>, << >>) = << << >> >>
    BY AppendTuple
  <2>3. AddLabel(R(<< >>, << >>), "init", 1)
          = R(Append(<< >>, Label("init", 1)), Append(<< >>, << >>))
    <3>1. "init" \in Names /\ 1 \in Nat /\ \A i \in 1..0 : FALSE
      OBVIOUS
    <3> HIDE DEF R, Labels, Empty, Names
    <3> QED BY <1>1, <2>1, <3>1
  <2> QED BY <1>0, <2>2, <2>3 DEF NewScheduler
<1>3. AddLabel(R(<<Label("init", 1)>>, << << >> >>), "focus", 2)
        = R(<<Label("init", 1), Label("focus", 2)>>, << << >>, << >> >>)
  <2> DEFINE l == <<Label("init", 1)>>
             q == << << >> >>
  <2>1. /\ l \in Seq(Labels) /\ q \in Seq(Empty) /\ Len(l) = 1 /\ Len(q) = 1
        /\ l[1].priority = 1
    <3>1. Label("init", 1) \in Labels /\ Label("init", 1).priority = 1
      BY DEF Label
    <3> HIDE DEF Labels
    <3> QED BY <3>1
  <2>2. /\ Append(l, Label("focus", 2)) = <<Label("init", 1), Label("focus", 2)>>
        /\ Append(q, << >>) = << << >>, << >> >>
    BY AppendTuple
  <2>3. AddLabel(R(l, q), "focus", 2) = R(Append(l, Label("focus", 2)), Append(q, << >>))
    <3>1. /\ Len(l) = Len(q) /\ "focus" \in Names /\ 2 \in Nat
          /\ \A i \in 1..Len(l) : l[i].priority <= 2
      BY <2>1
    <3> HIDE DEF l, q, R, Labels, Empty, Names
    <3> QED BY <1>1, <2>1, <3>1
  <2> QED BY <2>2, <2>3
<1>4. AddLabel(R(<<Label("init", 1), Label("focus", 2)>>, << << >>, << >> >>), "filter", 4)
        = Sched(<< >>, << >>, FALSE)
  <2> DEFINE l == <<Label("init", 1), Label("focus", 2)>>
             q == << << >>, << >> >>
  <2>1. /\ l \in Seq(Labels) /\ q \in Seq(Empty) /\ Len(l) = 2 /\ Len(q) = 2
        /\ l[1].priority = 1 /\ l[2].priority = 2
    <3>1. /\ Label("init", 1) \in Labels /\ Label("init", 1).priority = 1
          /\ Label("focus", 2) \in Labels /\ Label("focus", 2).priority = 2
      BY DEF Label
    <3> HIDE DEF Labels
    <3> QED BY <3>1
  <2>2. /\ Append(l, Label("filter", 4))
             = <<Label("init", 1), Label("focus", 2), Label("filter", 4)>>
        /\ Append(q, << >>) = << << >>, << >>, << >> >>
    BY AppendTuple
  <2>3. AddLabel(R(l, q), "filter", 4) = R(Append(l, Label("filter", 4)), Append(q, << >>))
    <3>1. /\ Len(l) = Len(q) /\ "filter" \in Names /\ 4 \in Nat
          /\ \A i \in 1..Len(l) : l[i].priority <= 4
      BY <2>1
    <3> HIDE DEF l, q, R, Labels, Empty, Names
    <3> QED BY <1>1, <2>1, <3>1
  <2> QED BY <1>0, <2>2, <2>3 DEF Sched
<1> QED BY <1>2, <1>3, <1>4

LEMMA FilteredSched ==
  ASSUME NEW a, NEW c, NEW t, NEW q
  PROVE  Filtered(Sched(a, c, t), q) = IF Hits[q] = NoPattern THEN Sched(a, << >>, t)
                                       ELSE Sched(a, <<Search(q, 0)>>, Yes)
<1>1. Append(<< >>, Search(q, 0)) = <<Search(q, 0)>>
  BY AppendTuple
<1>2. Add(Sched(a, << >>, t), "filter", Search(q, 0)) = Sched(a, <<Search(q, 0)>>, Yes)
  <2>1. PICK e, w : e = << >> /\ w = Search(q, 0)
    OBVIOUS
  <2>2. Add(Sched(a, e, t), "filter", w) = Sched(a, Append(e, w), Yes)
    BY SchedAdded, AddIsAdded
  <2> QED BY <1>1, <2>1, <2>2, Zenon
<1>3. Clear(Sched(a, c, t), "filter") = Sched(a, << >>, t)
  BY SchedCleared
<1> QED BY <1>2, <1>3, Zenon DEF Filtered

LEMMA ReadyIs == \E a \in Seq(InitWorks) : ReadyScheduler = Filtered(Sched(a, << >>, Yes), "")
<1>1. PICK w1, w2, w3, w4, w5 :
        /\ w1 = Work("textInput") /\ w2 = Work("clearButton") /\ w3 = Work("kind")
        /\ w4 = Work("focusBar") /\ w5 = Work("focusLinks")
  OBVIOUS
<1> DEFINE a1 == Append(<< >>, w1)
           a2 == Append(a1, w2)
           a3 == Append(a2, w3)
           a4 == Append(a3, w4)
           a5 == Append(a4, w5)
<1>2. a1 \in Seq(InitWorks) /\ {w2, w3, w4, w5} \subseteq InitWorks
  <2>1. {w1, w2, w3, w4, w5} \subseteq InitWorks
    BY <1>1 DEF InitWorks
  <2> HIDE DEF InitWorks
  <2> QED BY <2>1
<1>3. a5 \in Seq(InitWorks)
  <2> HIDE DEF a1, InitWorks
  <2> QED BY <1>2
<1>4. /\ Add(Sched(<< >>, << >>, FALSE), "init", w1) = Sched(a1, << >>, Yes)
      /\ Add(Sched(a1, << >>, Yes), "init", w2) = Sched(a2, << >>, Yes)
      /\ Add(Sched(a2, << >>, Yes), "init", w3) = Sched(a3, << >>, Yes)
      /\ Add(Sched(a3, << >>, Yes), "init", w4) = Sched(a4, << >>, Yes)
      /\ Add(Sched(a4, << >>, Yes), "init", w5) = Sched(a5, << >>, Yes)
  <2> HIDE DEF a1, a2, a3, a4, a5
  <2>1. \A a, c, t, w : Add(Sched(a, c, t), "init", w) = Sched(Append(a, w), c, Yes)
    <3> SUFFICES ASSUME NEW a, NEW c, NEW t, NEW w
                 PROVE  Add(Sched(a, c, t), "init", w) = Sched(Append(a, w), c, Yes)
      OBVIOUS
    <3> QED BY SchedAdded, AddIsAdded
  <2> QED BY <2>1, Zenon DEF a1, a2, a3, a4, a5
<1>5. ReadyScheduler = Filtered(Sched(a5, << >>, Yes), "")
  <2> HIDE DEF a1, a2, a3, a4, a5
  <2> QED BY <1>1, <1>4, LabelsAdded, Zenon DEF ReadyScheduler
<1> QED BY <1>1, <1>3, <1>5

(* From a value of the scheduler to what the invariant says of it, and back.*)
OneSearch(c) == c = << >> \/ \E w \in Searches : c = <<w>>

LEMMA SchedulerNow ==
  ASSUME SchedulerInv
  PROVE  \E a \in Seq(InitWorks), t \in BOOLEAN : \E c :
           /\ scheduler = Sched(a, c, t) /\ OneSearch(c)
           /\ InitQueue = a /\ FilterQueue = c /\ scheduler.timeout = t
<1>1. scheduler = Sched(InitQueue, FilterQueue, scheduler.timeout) /\ OneSearch(FilterQueue)
  BY DEF SchedulerInv, OneSearch
<1>2. InitQueue \in Seq(InitWorks) /\ scheduler.timeout \in BOOLEAN
  BY DEF SchedulerInv
<1> QED BY <1>1, <1>2, Zenon

LEMMA SchedulerIs ==
  ASSUME NEW a \in Seq(InitWorks), NEW c, NEW t \in BOOLEAN, OneSearch(c)
  PROVE  scheduler = Sched(a, c, t) =>
           SchedulerInv /\ InitQueue = a /\ FilterQueue = c /\ scheduler.timeout = t
<1> SUFFICES ASSUME scheduler = Sched(a, c, t)
             PROVE  SchedulerInv /\ InitQueue = a /\ FilterQueue = c /\ scheduler.timeout = t
  OBVIOUS
<1>1. InitQueue = a /\ FilterQueue = c /\ scheduler.timeout = t
  <2>1. /\ Sched(a, c, t).queues[QueueOf(Sched(a, c, t), "filter")] = c
        /\ Sched(a, c, t).queues[1] = a /\ Sched(a, c, t).timeout = t
    BY SchedReads
  <2> QED BY <2>1, Zenon DEF InitQueue, FilterQueue
<1> QED BY <1>1, Zenon DEF SchedulerInv, OneSearch

LEMMA SchedulerNext ==
  ASSUME NEW a \in Seq(InitWorks), NEW c, NEW t \in BOOLEAN, OneSearch(c)
  PROVE  scheduler' = Sched(a, c, t) =>
           SchedulerInv' /\ InitQueue' = a /\ FilterQueue' = c /\ scheduler'.timeout = t
<1>1. scheduler = Sched(a, c, t) =>
        SchedulerInv /\ InitQueue = a /\ FilterQueue = c /\ scheduler.timeout = t
  BY SchedulerIs
<1>2. (scheduler = Sched(a, c, t) =>
        SchedulerInv /\ InitQueue = a /\ FilterQueue = c /\ scheduler.timeout = t)'
  BY <1>1, PTL
<1> QED BY <1>2

LEMMA SearchIsSearch ==
  ASSUME NEW q \in Queries, Hits[q] # NoPattern
  PROVE  Search(q, 0) \in Searches
BY PackagesAssumption DEF Search, Searches

(* textFilter drops the search under way and, unless the pattern is none,  *)
(* starts one over; either way the list, which is empty, is the answer.    *)
LEMMA TextFilterRestarts ==
  ASSUME SchedulerInv, NEW q \in Queries, scheduler' = Filtered(scheduler, q)
  PROVE  /\ SchedulerInv' /\ InitQueue' = InitQueue
         /\ FilterQueue' = IF Hits[q] = NoPattern THEN << >> ELSE <<Search(q, 0)>>
<1>1. PICK a \in Seq(InitWorks), t \in BOOLEAN, c \in {FilterQueue} :
        scheduler = Sched(a, c, t) /\ InitQueue = a
  BY SchedulerNow
<1>2. CASE Hits[q] = NoPattern
  <2>1. scheduler' = Sched(a, << >>, t)
    BY <1>1, <1>2, FilteredSched
  <2>2. OneSearch(<< >>)
    BY DEF OneSearch
  <2> QED BY <1>1, <1>2, <2>1, <2>2, SchedulerNext
<1>3. CASE Hits[q] # NoPattern
  <2>1. Search(q, 0) \in Searches
    BY <1>3, SearchIsSearch
  <2>2. scheduler' = Sched(a, <<Search(q, 0)>>, Yes)
    BY <1>1, <1>3, FilteredSched
  <2>3. OneSearch(<<Search(q, 0)>>)
    BY <2>1 DEF OneSearch
  <2>4. Yes \in BOOLEAN
    BY DEF Yes
  <2> QED BY <1>1, <1>3, <2>2, <2>3, <2>4, SchedulerNext
<1> QED BY <1>2, <1>3

LEMMA NoneFound ==
  /\ \A K : Only(Numbers(0), K) = << >>
  /\ \A n \in Nat : \A K : (\A i \in 1..n : i \notin K) => Only(Numbers(n), K) = << >>
<1>1. ASSUME NEW K PROVE Only(Numbers(0), K) = << >>
  BY NumbersFacts, KeptSteps DEF Only
<1>2. ASSUME NEW n \in Nat, NEW K, \A i \in 1..n : i \notin K
      PROVE  Only(Numbers(n), K) = << >>
  <2>1. 0 \in Nat /\ 0 <= n /\ \A i \in (0 + 1)..n : i \notin K
    BY <1>2
  <2> QED BY <1>1, <2>1, NumbersSkipped
<1> QED BY <1>1, <1>2

LEMMA EmptyListIsAnswer ==
  ASSUME NEW q
  PROVE  (/\ list = << >> /\ input = q
          /\ FilterQueue = IF Hits[q] = NoPattern THEN << >> ELSE <<Search(q, 0)>>)
           => SearchInv
<1> SUFFICES ASSUME list = << >>, input = q,
                    FilterQueue = (IF Hits[q] = NoPattern THEN << >> ELSE <<Search(q, 0)>>)
             PROVE  SearchInv
  OBVIOUS
<1>1. CASE Hits[q] = NoPattern
  <2>1. AnswerSet = {}
    BY <1>1 DEF AnswerSet, Answers
  <2>2. FilterQueue = << >> /\ Searched = Len(PACKAGES) /\ Len(PACKAGES) \in Nat
    BY <1>1, PackagesAssumption DEF Searched
  <2>3. Found(Len(PACKAGES)) = << >>
    BY <2>1, <2>2, NoneFound DEF Found
  <2> QED BY <2>2, <2>3 DEF SearchInv, ListIsFound
<1>2. CASE Hits[q] # NoPattern
  <2>1. /\ FilterQueue = <<Search(q, 0)>> /\ Head(FilterQueue) = Search(q, 0)
        /\ FilterQueue # << >>
    BY <1>2
  <2>2. Search(q, 0).query = q /\ Search(q, 0).index = 0
    BY DEF Search
  <2>3. Searched = 0
    BY <2>1, <2>2, Zenon DEF Searched
  <2>4. Found(0) = << >>
    BY NoneFound DEF Found
  <2> QED BY <2>1, <2>2, <2>3, <2>4 DEF SearchInv, ListIsFound
<1> QED BY <1>1, <1>2

LEMMA EmptyListIsAnswerNext ==
  ASSUME NEW q
  PROVE  (/\ list' = << >> /\ input' = q
          /\ FilterQueue' = IF Hits[q] = NoPattern THEN << >> ELSE <<Search(q, 0)>>)
           => SearchInv'
<1>1. (/\ list = << >> /\ input = q
       /\ FilterQueue = IF Hits[q] = NoPattern THEN << >> ELSE <<Search(q, 0)>>)
        => SearchInv
  BY EmptyListIsAnswer
<1>2. ((/\ list = << >> /\ input = q
        /\ FilterQueue = IF Hits[q] = NoPattern THEN << >> ELSE <<Search(q, 0)>>)
         => SearchInv)'
  BY <1>1, PTL
<1> QED BY <1>2, Zenon

-----------------------------------------------------------------------------
LEMMA IndexStarts == IndexInit => IndexInv
<1> SUFFICES ASSUME IndexInit PROVE IndexInv
  OBVIOUS
<1>1. PICK a \in Seq(InitWorks) : scheduler = Filtered(Sched(a, << >>, TRUE), "")
  BY ReadyIs, Zenon DEF IndexInit, Yes
<1>2. "" \in Queries
  BY HitsAssumption
<1>3. PICK t \in BOOLEAN : scheduler =
        IF Hits[""] = NoPattern THEN Sched(a, << >>, t) ELSE Sched(a, <<Search("", 0)>>, t)
  BY <1>1, FilteredSched, Zenon DEF Yes
<1>4. SchedulerInv /\ FilterQueue = IF Hits[""] = NoPattern THEN << >> ELSE <<Search("", 0)>>
  <2>1. CASE Hits[""] = NoPattern
    <3>1. scheduler = Sched(a, << >>, t) /\ OneSearch(<< >>)
      BY <1>3, <2>1 DEF OneSearch
    <3> QED BY <2>1, <3>1, SchedulerIs
  <2>2. CASE Hits[""] # NoPattern
    <3>1. Search("", 0) \in Searches
      BY <1>2, <2>2, SearchIsSearch
    <3>2. scheduler = Sched(a, <<Search("", 0)>>, t) /\ OneSearch(<<Search("", 0)>>)
      BY <1>3, <2>2, <3>1 DEF OneSearch
    <3> QED BY <2>2, <3>2, SchedulerIs
  <2> QED BY <2>1, <2>2
<1>5. SearchInv
  BY <1>4, EmptyListIsAnswer DEF IndexInit
<1>6. IndexTypeOK /\ list \in Seq(Trees)
  <2>1. /\ list = << >> /\ input = "" /\ ~keyup /\ controls = {} /\ hiddenPackages = {}
        /\ ~focusShown /\ ~kindShown /\ focusFilterState = NoFocus
        /\ kindFilterState = "undefined" /\ keyup \in BOOLEAN
        /\ focusShown \in BOOLEAN /\ kindShown \in BOOLEAN
    BY Zenon DEF IndexInit
  <2>2. list = << >>
    BY <2>1
  <2>3. DOMAIN list = {} /\ list \in Seq(Trees)
    BY <2>2
  <2> QED BY <1>2, <1>4, <2>1, <2>3 DEF IndexTypeOK, SchedulerInv
<1>7. StartInv /\ LinksAgree
  <2>1. list = << >> /\ controls = {} /\ ~focusShown /\ focusFilterState = NoFocus
    BY Zenon DEF IndexInit
  <2>2. DOMAIN list = {}
    BY <2>1
  <2> QED BY <2>1, <2>2 DEF StartInv, LinksAgree
<1> QED BY <1>4, <1>5, <1>6, <1>7 DEF IndexInv

-----------------------------------------------------------------------------
(* Steps that leave the scheduler's queues, the text and the focus alone.  *)
LEMMA SchedulerSame ==
  ASSUME SchedulerInv, scheduler' = scheduler
  PROVE  SchedulerInv' /\ InitQueue' = InitQueue /\ FilterQueue' = FilterQueue
BY DEF SchedulerInv, InitQueue, FilterQueue

LEMMA FoundIsSeq == \A n \in Nat : Found(n) \in Seq(Nat)
BY NumbersFacts, FilterProperties DEF Found

LEMMA SearchedInRange ==
  ASSUME SchedulerInv
  PROVE  Searched \in 0..Len(PACKAGES) /\ Len(PACKAGES) \in Nat
<1>1. Len(PACKAGES) \in Nat
  BY PackagesAssumption
<1>2. CASE FilterQueue = << >>
  BY <1>1, <1>2 DEF Searched
<1>3. ASSUME NEW w \in Searches, FilterQueue = <<w>> PROVE Searched \in 0..Len(PACKAGES)
  <2>1. FilterQueue # << >> /\ Head(FilterQueue) = w /\ w.index \in 0..Len(PACKAGES)
    BY <1>3 DEF Searches
  <2> QED BY <2>1, Zenon DEF Searched
<1> QED BY <1>1, <1>2, <1>3 DEF SchedulerInv

LEMMA AnswerKept ==
  ASSUME SchedulerInv, SearchInv, list \in Seq(Trees), list' \in Seq(Trees),
         FilterQueue' = FilterQueue, input' = input, keyup' = keyup,
         focusFilterState' = focusFilterState, Len(list') = Len(list),
         \A i \in 1..Len(list) : /\ list'[i].pack = list[i].pack
                                 /\ list'[i].matched = list[i].matched
  PROVE  SearchInv'
<1>1. AnswerSet' = AnswerSet /\ Searched' = Searched
  BY DEF AnswerSet, Answers, Searched
<1>2. Found(Searched)' = Found(Searched)
  BY <1>1 DEF Found
<1>3. Found(Searched) \in Seq(Nat)
  BY FoundIsSeq, SearchedInRange
<1>4. CASE ~keyup
  <2>1. ListIsFound(Searched) /\ (FilterQueue # << >> => Head(FilterQueue).query = input)
    BY <1>4 DEF SearchInv
  <2>2. DOMAIN Found(Searched) = 1..Len(list)
    BY <1>3, <2>1 DEF ListIsFound
  <2>3. ListIsFound(Searched)'
    BY <1>2, <2>1, <2>2 DEF ListIsFound
  <2> QED BY <2>1, <2>3 DEF SearchInv
<1> QED BY <1>4 DEF SearchInv

LEMMA TypeKeeps ==
  ASSUME IndexInv, NEW q \in Queries, Type(q)
  PROVE  IndexInv'
<1>1. SchedulerInv' /\ InitQueue' = InitQueue /\ FilterQueue' = FilterQueue
  BY SchedulerSame DEF Type, IndexInv
<1>2. SearchInv'
  BY DEF Type, SearchInv
<1>3. IndexTypeOK' /\ list' \in Seq(Trees)
  BY DEF Type, IndexInv, IndexTypeOK
<1>4. StartInv' /\ LinksAgree'
  BY <1>1 DEF Type, IndexInv, StartInv, LinksAgree
<1> QED BY <1>1, <1>2, <1>3, <1>4 DEF IndexInv

LEMMA ClickKindKeeps ==
  ASSUME IndexInv, ClickKind
  PROVE  IndexInv'
<1>1. SchedulerInv' /\ InitQueue' = InitQueue /\ FilterQueue' = FilterQueue
  BY SchedulerSame DEF ClickKind, IndexInv
<1> DEFINE show == kindFilterState' = "all" \/ focusFilterState # NoFocus
<1>2. /\ list \in Seq(Trees) /\ DOMAIN list = 1..Len(list) /\ Len(list) \in Nat
      /\ \A i \in 1..Len(list) : list[i] \in Trees
  BY DEF IndexInv
<1>3. list' = [i \in 1..Len(list) |->
                [list[i] EXCEPT !.open = show, !.link = IF show THEN "hide" ELSE "show"]]
  BY <1>2 DEF ClickKind, KindSynced
<1>4. ASSUME NEW i \in 1..Len(list)
      PROVE  /\ list'[i] \in Trees
             /\ list'[i].open = show /\ list'[i].link = IF show THEN "hide" ELSE "show"
             /\ list'[i].pack = list[i].pack /\ list'[i].matched = list[i].matched
             /\ list'[i].header = list[i].header
             /\ list'[i].hideHandlers = list[i].hideHandlers
             /\ list'[i].focusHandlers = list[i].focusHandlers
  <2>1. show \in BOOLEAN /\ (IF show THEN "hide" ELSE "show") \in {"hide", "show"}
    OBVIOUS
  <2> HIDE DEF show
  <2> QED BY <1>2, <1>3, <1>4, <2>1 DEF Trees
<1>5. list' \in Seq(Trees) /\ Len(list') = Len(list) /\ DOMAIN list' = 1..Len(list)
  <2>1. list' = [i \in 1..Len(list) |-> list'[i]]
    BY <1>3, Zenon
  <2> QED BY <1>2, <1>4, <2>1, FunctionIsSeq, Zenon
<1> HIDE DEF show
<1>6. SearchInv'
  BY <1>1, <1>4, <1>5, AnswerKept DEF ClickKind, IndexInv
<1>7. IndexTypeOK'
  BY <1>4, <1>5 DEF ClickKind, IndexInv, IndexTypeOK, Trees
<1>8. StartInv'
  BY <1>1, <1>5 DEF ClickKind, IndexInv, StartInv
<1>9. LinksAgree'
  BY <1>1, <1>2, <1>4, <1>5 DEF ClickKind, IndexInv, LinksAgree
<1> QED BY <1>1, <1>5, <1>6, <1>7, <1>8, <1>9 DEF IndexInv

(* A list whose entries keep all but their visibility, and whether they are *)
(* open as long as the link says so.                                       *)
LEMMA EntriesKept ==
  ASSUME IndexInv, list' = [i \in 1..Len(list) |-> list'[i]],
         \A i \in 1..Len(list) :
           /\ list'[i] \in Trees
           /\ list'[i].open <=> list'[i].link = "hide"
           /\ list'[i].pack = list[i].pack /\ list'[i].matched = list[i].matched
           /\ list'[i].header = list[i].header
           /\ list'[i].hideHandlers = list[i].hideHandlers
           /\ list'[i].focusHandlers = list[i].focusHandlers,
         UNCHANGED <<scheduler, input, keyup, focusFilterState, focusShown, kindShown, controls>>
  PROVE  /\ list' \in Seq(Trees) /\ DOMAIN list' = 1..Len(list)
         /\ SchedulerInv' /\ SearchInv' /\ StartInv' /\ LinksAgree'
<1>1. SchedulerInv' /\ InitQueue' = InitQueue /\ FilterQueue' = FilterQueue
  BY SchedulerSame DEF IndexInv
<1>2. list \in Seq(Trees) /\ DOMAIN list = 1..Len(list) /\ Len(list) \in Nat
  BY DEF IndexInv
<1>3. list' \in Seq(Trees) /\ Len(list') = Len(list) /\ DOMAIN list' = 1..Len(list)
  BY <1>2, FunctionIsSeq, Zenon
<1>4. SearchInv'
  BY <1>1, <1>3, AnswerKept DEF IndexInv
<1>5. StartInv'
  BY <1>1, <1>3 DEF IndexInv, StartInv
<1>6. LinksAgree'
  BY <1>1, <1>2, <1>3 DEF IndexInv, LinksAgree
<1> QED BY <1>1, <1>3, <1>4, <1>5, <1>6

LEMMA NoSubPackages == \A p : SubPackages(p) = {}
BY DEF SubPackages, Below, IsStrictPrefix

LEMMA ClickHideKeeps ==
  ASSUME IndexInv, NEW i \in DOMAIN list, ClickHide(i)
  PROVE  IndexInv'
<1>1. /\ list \in Seq(Trees) /\ DOMAIN list = 1..Len(list) /\ Len(list) \in Nat
      /\ \A j \in 1..Len(list) : list[j] \in Trees
      /\ \A j \in 1..Len(list) : list[j].open <=> list[j].link = "hide"
  BY DEF IndexInv, LinksAgree
<1>2. ASSUME NEW j \in 1..Len(list), NEW open \in BOOLEAN, NEW link \in {"hide", "show"},
             list'[j] = [list[j] EXCEPT !.open = open, !.link = link], open <=> link = "hide"
      PROVE  /\ list'[j] \in Trees
             /\ list'[j].open <=> list'[j].link = "hide"
             /\ list'[j].pack = list[j].pack /\ list'[j].matched = list[j].matched
             /\ list'[j].header = list[j].header
             /\ list'[j].hideHandlers = list[j].hideHandlers
             /\ list'[j].focusHandlers = list[j].focusHandlers
  BY <1>1, <1>2 DEF Trees
<1>3. ASSUME NEW j \in 1..Len(list), NEW visible \in BOOLEAN,
             list'[j] = [list[j] EXCEPT !.visible = visible]
      PROVE  /\ list'[j] \in Trees
             /\ list'[j].open <=> list'[j].link = "hide"
             /\ list'[j].pack = list[j].pack /\ list'[j].matched = list[j].matched
             /\ list'[j].header = list[j].header
             /\ list'[j].hideHandlers = list[j].hideHandlers
             /\ list'[j].focusHandlers = list[j].focusHandlers
  <2>1. list[j] \in Trees
    BY <1>1
  <2>2. list'[j] \in Trees
    BY <1>3, <2>1 DEF Trees
  <2>3. /\ list'[j].pack = list[j].pack /\ list'[j].matched = list[j].matched
        /\ list'[j].header = list[j].header
        /\ list'[j].open = list[j].open /\ list'[j].link = list[j].link
        /\ list'[j].hideHandlers = list[j].hideHandlers
        /\ list'[j].focusHandlers = list[j].focusHandlers
    BY <1>3, <2>1 DEF Trees
  <2> QED BY <1>1, <2>2, <2>3
<1>4. UNCHANGED <<scheduler, input, keyup, focusFilterState, kindFilterState, focusShown,
                  kindShown, controls>>
  BY DEF ClickHide
<1>5. /\ list' = [j \in 1..Len(list) |-> list'[j]]
      /\ \A j \in 1..Len(list) :
           /\ list'[j] \in Trees
           /\ list'[j].open <=> list'[j].link = "hide"
           /\ list'[j].pack = list[j].pack /\ list'[j].matched = list[j].matched
           /\ list'[j].header = list[j].header
           /\ list'[j].hideHandlers = list[j].hideHandlers
           /\ list'[j].focusHandlers = list[j].focusHandlers
  <2>1. CASE HidePackage(i)
    <3>1. list' = [j \in 1..Len(list) |->
                    IF j = i THEN [list[i] EXCEPT !.open = FALSE, !.link = "show"]
                    ELSE [list[j] EXCEPT !.visible = @ /\ j \notin SubPackages(list[i].pack)]]
      BY <1>1, <2>1, Zenon DEF HidePackage
    <3>2. list' = [j \in 1..Len(list) |-> list'[j]]
      BY <3>1, Zenon
    <3>3. ASSUME NEW j \in 1..Len(list), j # i
          PROVE  list'[j] = [list[j] EXCEPT !.visible = list[j].visible /\ j \notin SubPackages(list[i].pack)]
      BY <3>1, <3>3, Zenon
    <3>4. ASSUME NEW j \in 1..Len(list), j = i
          PROVE  list'[j] = [list[j] EXCEPT !.open = FALSE, !.link = "show"]
      BY <3>1, <3>4, Zenon
    <3> QED BY <1>2, <1>3, <3>2, <3>3, <3>4
  <2>2. CASE ShowPackage(i)
    <3>1. list' = [j \in 1..Len(list) |->
                    IF j = i THEN [list[i] EXCEPT !.open = TRUE, !.link = "hide"] ELSE list[j]]
      BY <1>1, <2>2, NoSubPackages DEF ShowPackage
    <3>2. list' = [j \in 1..Len(list) |-> list'[j]]
      BY <3>1, Zenon
    <3>3. ASSUME NEW j \in 1..Len(list), j # i PROVE list'[j] = list[j]
      BY <3>1, <3>3, Zenon
    <3>4. ASSUME NEW j \in 1..Len(list), j = i
          PROVE  list'[j] = [list[j] EXCEPT !.open = TRUE, !.link = "hide"]
      BY <3>1, <3>4, Zenon
    <3> QED BY <1>1, <1>2, <3>2, <3>3, <3>4, ZenonT(40)
  <2> QED BY <2>1, <2>2 DEF ClickHide
<1>6. /\ list' \in Seq(Trees) /\ DOMAIN list' = 1..Len(list)
      /\ SchedulerInv' /\ SearchInv' /\ StartInv' /\ LinksAgree'
  BY <1>4, <1>5, EntriesKept
<1>7. hiddenPackages' \subseteq Packs
  <2>1. list[i].pack \in Packs /\ hiddenPackages \subseteq Packs
    BY <1>1 DEF Trees, IndexInv, IndexTypeOK
  <2> QED BY <2>1 DEF ClickHide, HidePackage, ShowPackage
<1>8. IndexTypeOK'
  BY <1>4, <1>5, <1>6, <1>7 DEF IndexInv, IndexTypeOK, Trees
<1> QED BY <1>6, <1>8 DEF IndexInv

-----------------------------------------------------------------------------
(* Steps that run textFilter.                                              *)
LEMMA TextFilterKeeps ==
  ASSUME IndexInv, NEW q \in Queries, scheduler' = Filtered(scheduler, q), list' = << >>, input' = q
  PROVE  /\ SchedulerInv' /\ SearchInv' /\ InitQueue' = InitQueue
         /\ scheduler'.timeout \in BOOLEAN
         /\ list' \in Seq(Trees) /\ DOMAIN list' = {}
<1>1. /\ SchedulerInv' /\ InitQueue' = InitQueue
      /\ FilterQueue' = IF Hits[q] = NoPattern THEN << >> ELSE <<Search(q, 0)>>
  BY TextFilterRestarts DEF IndexInv
<1>2. SearchInv'
  BY <1>1, EmptyListIsAnswerNext
<1>3. list' \in Seq(Trees) /\ DOMAIN list' = {}
  OBVIOUS
<1> QED BY <1>1, <1>2, <1>3 DEF SchedulerInv

LEMMA KeyUpKeeps ==
  ASSUME IndexInv, NEW escape \in BOOLEAN, KeyUp(escape)
  PROVE  IndexInv'
<1>1. PICK q : q = input'
  OBVIOUS
<1>2. q \in Queries /\ scheduler' = Filtered(scheduler, q) /\ list' = << >> /\ keyup' = FALSE
  BY <1>1, HitsAssumption DEF KeyUp, TextFilter, IndexInv, IndexTypeOK
<1>3. /\ SchedulerInv' /\ SearchInv' /\ InitQueue' = InitQueue
      /\ scheduler'.timeout \in BOOLEAN /\ list' \in Seq(Trees) /\ DOMAIN list' = {}
  BY <1>1, <1>2, TextFilterKeeps
<1>4. UNCHANGED <<focusFilterState, kindFilterState, focusShown, kindShown, controls, hiddenPackages>>
  BY DEF KeyUp
<1> QED BY <1>1, <1>2, <1>3, <1>4 DEF IndexInv, IndexTypeOK, StartInv, LinksAgree

LEMMA ClickClearKeeps ==
  ASSUME IndexInv, ClickClear
  PROVE  IndexInv'
<1>1. PICK q \in Queries : q = ""
  BY HitsAssumption
<1>2. input' = q /\ scheduler' = Filtered(scheduler, q) /\ list' = << >>
  BY <1>1 DEF ClickClear, TextFilter
<1>3. /\ SchedulerInv' /\ SearchInv' /\ InitQueue' = InitQueue
      /\ scheduler'.timeout \in BOOLEAN /\ list' \in Seq(Trees) /\ DOMAIN list' = {}
  BY <1>2, TextFilterKeeps
<1>4. UNCHANGED <<keyup, focusFilterState, kindFilterState, focusShown, kindShown, controls,
                  hiddenPackages>>
  BY DEF ClickClear
<1> QED BY <1>2, <1>3, <1>4 DEF IndexInv, IndexTypeOK, StartInv, LinksAgree

LEMMA PackFacts ==
  /\ \A p \in Packs : p # NoFocus
  /\ \A i \in 1..Len(PACKAGES) : /\ PACKAGES[i].pack \in Packs
                                 /\ PACKAGES[i].templates \subseteq Templates
<1>1. \A i \in 1..Len(PACKAGES) : PACKAGES[i] \in [pack : Packs \ {NoFocus}, templates : SUBSET Templates]
  BY PackagesAssumption, ElementOfSeq
<1>2. DOMAIN PACKAGES = 1..Len(PACKAGES)
  BY PackagesAssumption
<1>3. ASSUME NEW p \in Packs PROVE p # NoFocus
  <2>1. PICK i \in 1..Len(PACKAGES) : p = PACKAGES[i].pack
    BY <1>2 DEF Packs
  <2> QED BY <1>1, <2>1
<1> QED BY <1>1, <1>3

LEMMA ClickFocusKeeps ==
  ASSUME IndexInv, NEW i \in DOMAIN list, ClickFocus(i)
  PROVE  IndexInv'
<1>1. PICK q \in Queries : q = input
  BY DEF IndexInv, IndexTypeOK
<1>2. input' = q /\ scheduler' = Filtered(scheduler, q) /\ list' = << >>
  BY <1>1 DEF ClickFocus, TextFilter
<1>3. /\ SchedulerInv' /\ SearchInv' /\ InitQueue' = InitQueue
      /\ scheduler'.timeout \in BOOLEAN /\ list' \in Seq(Trees) /\ DOMAIN list' = {}
  BY <1>2, TextFilterKeeps
<1>4. list[i].pack \in Packs /\ list # << >>
  <2>1. list \in Seq(Trees) /\ i \in 1..Len(list)
    BY DEF IndexInv
  <2>2. list[i] \in Trees
    BY <2>1
  <2> QED BY <2>1, <2>2 DEF Trees
<1>5. \A p \in Packs : p # NoFocus
  BY PackFacts
<1>6. /\ focusShown' /\ ~kindShown' /\ focusShown' \in BOOLEAN /\ kindShown' \in BOOLEAN
      /\ focusFilterState' = list[i].pack
      /\ UNCHANGED <<keyup, kindFilterState, controls, hiddenPackages>>
  BY DEF ClickFocus
<1> QED BY <1>2, <1>3, <1>4, <1>5, <1>6 DEF IndexInv, IndexTypeOK, StartInv, LinksAgree

LEMMA ClickFocusRemoveKeeps ==
  ASSUME IndexInv, ClickFocusRemove
  PROVE  IndexInv'
<1>1. PICK q \in Queries : q = input
  BY DEF IndexInv, IndexTypeOK
<1>2. input' = q /\ scheduler' = Filtered(scheduler, q) /\ list' = << >>
  BY <1>1 DEF ClickFocusRemove, TextFilter
<1>3. /\ SchedulerInv' /\ SearchInv' /\ InitQueue' = InitQueue
      /\ scheduler'.timeout \in BOOLEAN /\ list' \in Seq(Trees) /\ DOMAIN list' = {}
  BY <1>2, TextFilterKeeps
<1>4. /\ \/ UNCHANGED <<focusShown, kindShown, focusFilterState>>
         \/ /\ ~focusShown' /\ kindShown' /\ focusFilterState' = NoFocus
            /\ focusShown' \in BOOLEAN /\ kindShown' \in BOOLEAN
      /\ UNCHANGED <<keyup, kindFilterState, controls, hiddenPackages>>
  BY DEF ClickFocusRemove
<1> QED BY <1>2, <1>3, <1>4 DEF IndexInv, IndexTypeOK, StartInv, LinksAgree

-----------------------------------------------------------------------------
(* What the timer runs.                                                    *)
LEMMA TimerControlKeeps ==
  ASSUME IndexInv, TimerInit \/ TimerFocusLinks
  PROVE  IndexInv'
<1>1. PICK a \in Seq(InitWorks), t \in BOOLEAN, c \in {FilterQueue} :
        scheduler = Sched(a, c, t) /\ OneSearch(c) /\ InitQueue = a
  BY SchedulerNow DEF IndexInv
<1>2. a # << >>
  <2>1. SUFFICES ASSUME a = << >> PROVE FALSE
    OBVIOUS
  <2>2. NextQueue(scheduler) # 0 /\ NextWork(scheduler).fn # "search"
    BY DEF TimerInit, TimerFocusLinks
  <2>3. c # << >>
    BY <1>1, <2>1, <2>2, NextOfSched
  <2>4. PICK w \in Searches : c = <<w>>
    BY <1>1, <2>3 DEF OneSearch
  <2>5. NextWork(scheduler) = w
    BY <1>1, <2>1, <2>3, <2>4, NextOfSched
  <2> QED BY <2>2, <2>5 DEF Searches
<1>3. list = << >> /\ focusFilterState = NoFocus /\ ~focusShown
  BY <1>1, <1>2 DEF IndexInv, StartInv, LinksAgree
<1>4. scheduler' = Sched(Tail(a), c, Yes) /\ Tail(a) \in Seq(InitWorks)
  <2>1. TakeWork(scheduler) = Sched(Tail(a), c, t)
    BY <1>1, <1>2, NextOfSched
  <2>2. scheduler' = Timeout(TakeWork(scheduler), Yes)
    BY Zenon DEF TimerInit, TimerFocusLinks, Yes
  <2>3. Tail(a) \in Seq(InitWorks)
    BY <1>2, HeadTailProperties
  <2> QED BY <2>1, <2>2, <2>3, SchedUpdated
<1>5. /\ SchedulerInv' /\ FilterQueue' = FilterQueue /\ scheduler'.timeout = Yes
  <2>1. Yes \in BOOLEAN
    BY DEF Yes
  <2> QED BY <1>1, <1>4, <2>1, SchedulerNext
<1>6. PICK fn : fn = NextWork(scheduler).fn
  OBVIOUS
<1>7. fn \in {"textInput", "clearButton", "kind", "focusBar", "focusLinks"}
  <2>1. Head(a) \in InitWorks
    BY <1>2, HeadTailProperties
  <2>2. NextWork(scheduler) = Head(a)
    BY <1>1, <1>2, NextOfSched
  <2> QED BY <1>6, <2>1, <2>2 DEF InitWorks, Work
<1>8. (InitControl(fn) /\ fn # "focusLinks") \/ FocusLinks
  BY <1>6, Zenon DEF TimerInit, TimerFocusLinks
<1>9. UNCHANGED <<list, input, keyup, hiddenPackages>>
  BY <1>8 DEF InitControl, FocusLinks
<1>10. /\ focusFilterState' = NoFocus /\ ~focusShown' /\ focusShown' \in BOOLEAN
       /\ kindShown' \in BOOLEAN /\ kindFilterState' \in {"undefined", "all", "packs"}
       /\ controls' \subseteq {"textInput", "clearButton", "kind", "focusBar"}
       /\ "kind" \in controls' => kindShown'
  <2>1. CASE FocusLinks
    BY <1>3, <2>1 DEF FocusLinks, IndexInv, IndexTypeOK, LinksAgree
  <2>2. CASE InitControl(fn) /\ fn # "focusLinks"
    <3>1. focusFilterState' = NoFocus /\ focusShown' = FALSE
      BY <1>3, <2>2 DEF InitControl
    <3>2. kindFilterState' \in {"undefined", "all", "packs"} /\ kindShown' \in BOOLEAN
      BY <2>2 DEF InitControl, IndexInv, IndexTypeOK
    <3>3. controls' \subseteq {"textInput", "clearButton", "kind", "focusBar"}
      BY <1>7, <2>2 DEF InitControl, IndexInv, IndexTypeOK
    <3>4. "kind" \in controls' => kindShown'
      BY <1>3, <2>2 DEF InitControl, IndexInv, LinksAgree
    <3> QED BY <3>1, <3>2, <3>3, <3>4
  <2> QED BY <1>8, <2>1, <2>2
<1>11. SearchInv'
  BY <1>3, <1>5, <1>9, <1>10, AnswerKept DEF IndexInv
<1>12. IndexTypeOK'
  <2>1. scheduler'.timeout \in BOOLEAN
    BY <1>5 DEF Yes
  <2> QED BY <1>3, <1>9, <1>10, <2>1 DEF IndexInv, IndexTypeOK
<1>13. StartInv' /\ LinksAgree'
  BY <1>3, <1>9, <1>10 DEF StartInv, LinksAgree
<1> QED BY <1>5, <1>9, <1>11, <1>12, <1>13 DEF IndexInv

LEMMA TimerRunsOutKeeps ==
  ASSUME IndexInv, TimerRunsOut
  PROVE  IndexInv'
<1>1. PICK a \in Seq(InitWorks), t \in BOOLEAN, c \in {FilterQueue} :
        scheduler = Sched(a, c, t) /\ OneSearch(c) /\ InitQueue = a
  BY SchedulerNow DEF IndexInv
<1>2. PICK no \in BOOLEAN : scheduler' = Timeout(scheduler, no)
  BY Zenon DEF TimerRunsOut
<1>3. scheduler' = Sched(a, c, no)
  BY <1>1, <1>2, SchedUpdated
<1>4. /\ SchedulerInv' /\ InitQueue' = InitQueue /\ FilterQueue' = FilterQueue
      /\ scheduler'.timeout \in BOOLEAN
  BY <1>1, <1>3, SchedulerNext
<1>5. UNCHANGED <<list, input, keyup, focusFilterState, kindFilterState, focusShown, kindShown,
                  controls, hiddenPackages>>
  BY DEF TimerRunsOut
<1>6. SearchInv'
  BY <1>4, <1>5, AnswerKept DEF IndexInv
<1> QED BY <1>4, <1>5, <1>6 DEF IndexInv, IndexTypeOK, StartInv, LinksAgree

(* The next package with a match, if there is one.                         *)
LEMMA NextMatchIs ==
  ASSUME NEW w \in Searches
  PROVE  LET T == {i \in (w.index + 1)..Len(PACKAGES) :
                     InFocus(PACKAGES[i].pack, focusFilterState) /\ Matched(i, w.query) # {}}
         IN  \/ T = {} /\ NextMatch(w) = 0
             \/ NextMatch(w) \in T /\ \A x \in T : NextMatch(w) <= x
<1> DEFINE T == {i \in (w.index + 1)..Len(PACKAGES) :
                   InFocus(PACKAGES[i].pack, focusFilterState) /\ Matched(i, w.query) # {}}
           numbers == [i \in DOMAIN PACKAGES |-> i]
           U == {i \in (w.index + 1)..Len(PACKAGES) :
                   /\ InFocus(PACKAGES[numbers[i]].pack, focusFilterState)
                   /\ Matched(numbers[i], w.query) # {}}
<1>1. w.index \in Nat /\ Len(PACKAGES) \in Nat /\ DOMAIN PACKAGES = 1..Len(PACKAGES)
  BY PackagesAssumption DEF Searches
<1>2. \A i \in (w.index + 1)..Len(PACKAGES) : numbers[i] = i
  BY <1>1
<1>3. U = T
  <2> HIDE DEF numbers
  <2> QED BY <1>2
<1>4. NextMatch(w) = IF U # {} THEN Min(U) ELSE 0
  BY Zenon DEF NextMatch, SelectInSubSeq
<1>5. T \in SUBSET Nat
  BY <1>1
<1> HIDE DEF T, U
<1>6. CASE T = {}
  BY <1>3, <1>4, <1>6 DEF T
<1>7. CASE T # {}
  <2>1. PICK m \in T : \A x \in T : m <= x
    BY <1>5, <1>7, LeastNumber
  <2>2. NextMatch(w) = m
    BY <1>3, <1>4, <1>5, <1>7, <2>1, LeastIs
  <2> QED BY <2>1, <2>2 DEF T
<1> QED BY <1>6, <1>7

(* What a search for w has passed: with the keys up, it is a search for    *)
(* the text, and up to the next match nothing is an answer.                *)
LEMMA SearchIsUnderWay ==
  ASSUME IndexInv, NEW t, NEW w \in Searches, scheduler = Sched(<< >>, <<w>>, t)
  PROVE  /\ FilterQueue = <<w>> /\ Searched = w.index
         /\ w.index \in 0..Len(PACKAGES) /\ Len(PACKAGES) \in Nat
         /\ ~keyup => w.query = input /\ ListIsFound(w.index)
         /\ ~keyup => \A i \in 1..Len(PACKAGES) :
              i \in AnswerSet <=> /\ InFocus(PACKAGES[i].pack, focusFilterState)
                                  /\ Matched(i, w.query) # {}
<1>1. FilterQueue = <<w>>
  BY SchedReads DEF FilterQueue
<1>2. FilterQueue # << >> /\ Head(FilterQueue) = w
  BY <1>1
<1>3. Searched = w.index
  BY <1>2, Zenon DEF Searched
<1>4. w.index \in 0..Len(PACKAGES) /\ Hits[w.query] # NoPattern
  BY DEF Searches
<1>5. Len(PACKAGES) \in Nat /\ DOMAIN PACKAGES = 1..Len(PACKAGES)
  BY PackagesAssumption
<1>6. ASSUME ~keyup PROVE w.query = input /\ ListIsFound(w.index)
  BY <1>2, <1>3, <1>6, Zenon DEF IndexInv, SearchInv
<1>7. ASSUME ~keyup, NEW i \in 1..Len(PACKAGES)
      PROVE  i \in AnswerSet <=> /\ InFocus(PACKAGES[i].pack, focusFilterState)
                                 /\ Matched(i, w.query) # {}
  BY <1>4, <1>5, <1>6, <1>7 DEF AnswerSet, Answers
<1> QED BY <1>1, <1>3, <1>4, <1>5, <1>6, <1>7

LEMMA SearchEndsKeeps ==
  ASSUME IndexInv, NEW t, NEW w \in Searches, scheduler = Sched(<< >>, <<w>>, t),
         NextMatch(w) = 0, SearchEnds(Sched(<< >>, << >>, t)),
         UNCHANGED <<input, keyup, focusFilterState, kindFilterState, focusShown, kindShown,
                     controls, hiddenPackages>>
  PROVE  IndexInv'
<1>1. /\ FilterQueue = <<w>> /\ Searched = w.index
      /\ w.index \in 0..Len(PACKAGES) /\ Len(PACKAGES) \in Nat
      /\ ~keyup => w.query = input /\ ListIsFound(w.index)
      /\ ~keyup => \A i \in 1..Len(PACKAGES) :
           i \in AnswerSet <=> /\ InFocus(PACKAGES[i].pack, focusFilterState)
                               /\ Matched(i, w.query) # {}
  BY SearchIsUnderWay
<1>2. SchedulerInv' /\ InitQueue' = << >> /\ FilterQueue' = << >> /\ scheduler'.timeout = Yes
  <2>1. scheduler' = Timeout(Sched(<< >>, << >>, t), Yes)
    BY Zenon DEF SearchEnds, Yes
  <2>2. scheduler' = Sched(<< >>, << >>, Yes)
    BY <2>1, SchedUpdated
  <2>3. << >> \in Seq(InitWorks) /\ Yes \in BOOLEAN /\ OneSearch(<< >>)
    BY DEF Yes, OneSearch
  <2> QED BY <2>2, <2>3, SchedulerNext
<1>3. \A i \in (w.index + 1)..Len(PACKAGES) :
        ~ (InFocus(PACKAGES[i].pack, focusFilterState) /\ Matched(i, w.query) # {})
  <2>1. \A i \in (w.index + 1)..Len(PACKAGES) : i # 0
    BY <1>1
  <2> QED BY <2>1, NextMatchIs
<1>4. list \in Seq(Trees) /\ DOMAIN list = 1..Len(list) /\ Len(list) \in Nat
  BY DEF IndexInv
<1>5. ASSUME NEW i \in 1..Len(list)
      PROVE  /\ list'[i] \in Trees
             /\ list'[i].open = list[i].open /\ list'[i].link = list[i].link
             /\ list'[i].pack = list[i].pack /\ list'[i].matched = list[i].matched
             /\ list'[i].header = list[i].header
             /\ LET bound == IF list[i].header THEN 1 ELSE 0
                IN  list'[i].hideHandlers = bound /\ list'[i].focusHandlers = bound
  <2>1. list[i] \in Trees
    BY <1>4
  <2>2. list[i].hideHandlers = 0 /\ list[i].focusHandlers = 0
    BY <1>1, <1>4 DEF IndexInv, LinksAgree
  <2>3. list'[i] = IF list[i].header
                   THEN [list[i] EXCEPT !.hideHandlers = @ + 1, !.focusHandlers = @ + 1]
                   ELSE list[i]
    BY <1>4 DEF SearchEnds
  <2>4. CASE list[i].header
    <3>0. PICK one \in Nat : one = 1
      OBVIOUS
    <3>1. list'[i] = [list[i] EXCEPT !.hideHandlers = one, !.focusHandlers = one]
      BY <2>2, <2>3, <2>4, <3>0
    <3>2. list'[i] \in Trees
      BY <2>1, <3>1 DEF Trees
    <3>3. /\ list'[i].open = list[i].open /\ list'[i].link = list[i].link
          /\ list'[i].pack = list[i].pack /\ list'[i].matched = list[i].matched
          /\ list'[i].header = list[i].header
      BY <2>1, <3>1 DEF Trees
    <3>4. list'[i].hideHandlers = 1 /\ list'[i].focusHandlers = 1
      BY <2>1, <3>0, <3>1 DEF Trees
    <3> QED BY <2>4, <3>2, <3>3, <3>4
  <2>5. CASE ~list[i].header
    BY <2>1, <2>2, <2>3, <2>5
  <2> QED BY <2>4, <2>5
<1>6. list' \in Seq(Trees) /\ Len(list') = Len(list) /\ DOMAIN list' = 1..Len(list)
  <2>1. list' = [i \in 1..Len(list) |-> list'[i]]
    BY <1>4 DEF SearchEnds
  <2> QED BY <1>4, <1>5, <2>1, FunctionIsSeq
<1>7. SearchInv'
  <2>1. CASE ~keyup
    <3>1. AnswerSet' = AnswerSet /\ Searched' = Len(PACKAGES)
      BY <1>2 DEF AnswerSet, Answers, Searched
    <3>2. Found(Len(PACKAGES))' = Found(w.index)
      <4>1. \A i \in (w.index + 1)..Len(PACKAGES) : i \notin AnswerSet
        BY <1>1, <1>3, <2>1
      <4>2. Only(Numbers(Len(PACKAGES)), AnswerSet) = Only(Numbers(w.index), AnswerSet)
        BY <1>1, <4>1, NumbersSkipped
      <4> QED BY <3>1, <4>2 DEF Found
    <3>3. ListIsFound(w.index) /\ Found(w.index) \in Seq(Nat)
      BY <1>1, <2>1, FoundIsSeq
    <3>4. DOMAIN Found(w.index) = 1..Len(list)
      BY <3>3 DEF ListIsFound
    <3>5. ListIsFound(Len(PACKAGES))'
      BY <1>5, <1>6, <3>2, <3>3, <3>4 DEF ListIsFound
    <3> QED BY <1>2, <3>1, <3>5 DEF SearchInv
  <2> QED BY <2>1 DEF SearchInv
<1>8. IndexTypeOK'
  <2>1. scheduler'.timeout \in BOOLEAN
    BY <1>2 DEF Yes
  <2> QED BY <1>5, <1>6, <2>1 DEF IndexInv, IndexTypeOK, Trees
<1>9. StartInv' /\ LinksAgree'
  BY <1>2, <1>4, <1>5, <1>6 DEF IndexInv, StartInv, LinksAgree
<1> QED BY <1>2, <1>6, <1>7, <1>8, <1>9 DEF IndexInv

LEMMA SearchFindsKeeps ==
  ASSUME IndexInv, NEW t, NEW w \in Searches, scheduler = Sched(<< >>, <<w>>, t),
         NextMatch(w) # 0, SearchFinds(w, Sched(<< >>, << >>, t), NextMatch(w)),
         UNCHANGED <<input, keyup, focusFilterState, kindFilterState, focusShown, kindShown,
                     controls, hiddenPackages>>
  PROVE  IndexInv'
<1>1. /\ FilterQueue = <<w>> /\ Searched = w.index
      /\ w.index \in 0..Len(PACKAGES) /\ Len(PACKAGES) \in Nat
      /\ ~keyup => w.query = input /\ ListIsFound(w.index)
      /\ ~keyup => \A i \in 1..Len(PACKAGES) :
           i \in AnswerSet <=> /\ InFocus(PACKAGES[i].pack, focusFilterState)
                               /\ Matched(i, w.query) # {}
  BY SearchIsUnderWay
<1>2. PICK n : n = NextMatch(w)
  OBVIOUS
<1>3. /\ n \in (w.index + 1)..Len(PACKAGES)
      /\ InFocus(PACKAGES[n].pack, focusFilterState) /\ Matched(n, w.query) # {}
      /\ \A i \in (w.index + 1)..Len(PACKAGES) :
           InFocus(PACKAGES[i].pack, focusFilterState) /\ Matched(i, w.query) # {} => n <= i
  BY <1>2, NextMatchIs
<1>4. n \in Nat /\ n - 1 \in Nat /\ n \in 1..Len(PACKAGES) /\ (n - 1) + 1 = n /\ w.index <= n - 1
  BY <1>1, <1>3
<1>5. PICK v : v = Search(w.query, n)
  OBVIOUS
<1>6. v \in Searches /\ v.query = w.query /\ v.index = n
  BY <1>1, <1>4, <1>5 DEF Searches, Search
<1>7. SchedulerInv' /\ InitQueue' = << >> /\ FilterQueue' = <<v>> /\ scheduler'.timeout = Yes
  <2>1. PICK e : e = << >>
    OBVIOUS
  <2>2. scheduler' = Timeout(Add(Sched(e, e, t), "filter", v), Yes)
    BY <1>2, <1>5, <2>1, Zenon DEF SearchFinds, Yes
  <2>3. Add(Sched(e, e, t), "filter", v) = Sched(e, Append(e, v), Yes)
    BY SchedAdded, AddIsAdded
  <2>4. Append(e, v) = <<v>>
    BY <2>1, AppendTuple
  <2>5. scheduler' = Sched(e, <<v>>, Yes)
    BY <2>2, <2>3, <2>4, SchedUpdated
  <2>6. e \in Seq(InitWorks) /\ Yes \in BOOLEAN /\ OneSearch(<<v>>)
    BY <1>6, <2>1 DEF Yes, OneSearch
  <2> QED BY <2>1, <2>5, <2>6, SchedulerNext
<1>8. list \in Seq(Trees) /\ DOMAIN list = 1..Len(list) /\ Len(list) \in Nat
  BY DEF IndexInv
<1>9. PICK tree : tree = Tree(PACKAGES[n].pack, Matched(n, w.query), focusFilterState)
  OBVIOUS
<1>10. /\ tree \in Trees
       /\ tree.pack = PACKAGES[n].pack /\ tree.matched = Matched(n, w.query)
       /\ tree.header <=> tree.pack # focusFilterState
       /\ tree.open <=> tree.link = "hide"
       /\ tree.hideHandlers = 0 /\ tree.focusHandlers = 0
  <2>1. PACKAGES[n].pack \in Packs /\ Matched(n, w.query) \subseteq Templates
    BY <1>4, PackFacts DEF Matched
  <2> QED BY <1>9, <2>1 DEF Tree, Trees
<1>11. list' = Append(list, tree)
  BY <1>2, <1>9, Zenon DEF SearchFinds
<1>12. /\ list' \in Seq(Trees) /\ Len(list') = Len(list) + 1
       /\ DOMAIN list' = 1..(Len(list) + 1)
       /\ \A i \in 1..Len(list) : list'[i] = list[i]
       /\ list'[Len(list) + 1] = tree
  BY <1>8, <1>10, <1>11
<1>13. SearchInv'
  <2>1. CASE ~keyup
    <3>1. AnswerSet' = AnswerSet
      BY DEF AnswerSet, Answers
    <3>2. FilterQueue' # << >> /\ Head(FilterQueue') = v /\ Searched' = n
      <4>1. FilterQueue' # << >> /\ Head(FilterQueue') = v
        BY <1>7
      <4> QED BY <1>6, <4>1, Zenon DEF Searched
    <3>3. Found(n)' = Append(Found(w.index), n)
      <4>1. n \in AnswerSet /\ \A i \in (w.index + 1)..(n - 1) : i \notin AnswerSet
        BY <1>1, <1>3, <1>4, <2>1
      <4>2. Only(Numbers(n - 1), AnswerSet) = Only(Numbers(w.index), AnswerSet)
        BY <1>1, <1>4, <4>1, NumbersSkipped
      <4>3. Only(Numbers(n), AnswerSet) = Append(Only(Numbers(n - 1), AnswerSet), n)
        BY <1>4, <4>1, NextNumber, ZenonT(40)
      <4> QED BY <3>1, <4>2, <4>3 DEF Found
    <3>4. ListIsFound(w.index) /\ Found(w.index) \in Seq(Nat) /\ w.query = input
      BY <1>1, <2>1, FoundIsSeq
    <3>5. PICK found \in Seq(Nat) : found = Found(w.index)
      BY <3>4
    <3>6. Len(found) = Len(list) /\ DOMAIN found = 1..Len(list)
      BY <3>4, <3>5 DEF ListIsFound
    <3>7. /\ Len(Append(found, n)) = Len(list) + 1 /\ DOMAIN Append(found, n) = 1..(Len(list) + 1)
          /\ \A k \in 1..Len(list) : Append(found, n)[k] = found[k]
          /\ Append(found, n)[Len(list) + 1] = n
      BY <1>4, <3>5, <3>6
    <3>8. ListIsFound(n)'
      <4>1. \A k \in 1..Len(list) : /\ list'[k].pack = PACKAGES[found[k]].pack
                                    /\ list'[k].matched = Matched(found[k], input)
        BY <1>12, <3>4, <3>5, <3>6 DEF ListIsFound
      <4>2. \A k \in 1..(Len(list) + 1) : k \in 1..Len(list) \/ k = Len(list) + 1
        BY <1>8
      <4>3. \A k \in 1..(Len(list) + 1) :
              /\ list'[k].pack = PACKAGES[Append(found, n)[k]].pack
              /\ list'[k].matched = Matched(Append(found, n)[k], input)
        BY <1>10, <1>12, <3>4, <3>7, <4>1, <4>2
      <4>4. Found(n)' = Append(found, n)
        BY <3>3, <3>5
      <4> QED BY <1>12, <3>7, <4>3, <4>4 DEF ListIsFound
    <3> QED BY <1>6, <3>2, <3>4, <3>8 DEF SearchInv
  <2> QED BY <2>1 DEF SearchInv
<1>14. \A i \in 1..(Len(list) + 1) : i \in 1..Len(list) \/ i = Len(list) + 1
  BY <1>8
<1>15. IndexTypeOK'
  <2>1. scheduler'.timeout \in BOOLEAN
    BY <1>7 DEF Yes
  <2>2. \A i \in DOMAIN list' : list'[i] \in Trees
    BY <1>12
  <2> QED BY <2>1, <2>2 DEF IndexInv, IndexTypeOK, Trees
<1>16. StartInv'
  BY <1>7 DEF StartInv
<1>17. LinksAgree'
  <2>1. FilterQueue # << >> /\ FilterQueue' # << >>
    BY <1>1, <1>7
  <2>2. \A i \in 1..Len(list) :
         /\ list[i].open <=> list[i].link = "hide"
         /\ list[i].header <=> list[i].pack # focusFilterState
         /\ list[i].hideHandlers = 0 /\ list[i].focusHandlers = 0
    BY <1>8, <2>1 DEF IndexInv, LinksAgree
  <2>3. \A i \in DOMAIN list' :
         /\ list'[i].open <=> list'[i].link = "hide"
         /\ list'[i].header <=> list'[i].pack # focusFilterState
         /\ list'[i].hideHandlers = 0 /\ list'[i].focusHandlers = 0
    BY <1>10, <1>12, <1>14, <2>2
  <2> QED BY <2>1, <2>3 DEF IndexInv, LinksAgree
<1> QED BY <1>7, <1>12, <1>13, <1>15, <1>16, <1>17 DEF IndexInv

LEMMA TimerSearchKeeps ==
  ASSUME IndexInv, TimerSearch
  PROVE  IndexInv'
<1>1. PICK a \in Seq(InitWorks), t \in BOOLEAN, c \in {FilterQueue} :
        scheduler = Sched(a, c, t) /\ OneSearch(c) /\ InitQueue = a
  BY SchedulerNow DEF IndexInv
<1>2. a = << >>
  <2>1. SUFFICES ASSUME a # << >> PROVE FALSE
    OBVIOUS
  <2>2. Head(a) \in InitWorks /\ NextWork(scheduler) = Head(a)
    BY <1>1, <2>1, HeadTailProperties, NextOfSched
  <2>3. NextWork(scheduler).fn = "search"
    BY DEF TimerSearch
  <2> QED BY <2>2, <2>3 DEF InitWorks, Work
<1>3. c # << >>
  BY <1>1, <1>2, NextOfSched DEF TimerSearch
<1>4. PICK w \in Searches : c = <<w>>
  BY <1>1, <1>3 DEF OneSearch
<1>5. NextWork(scheduler) = w /\ TakeWork(scheduler) = Sched(<< >>, << >>, t)
  <2>1. NextWork(scheduler) = Head(c) /\ TakeWork(scheduler) = Sched(a, Tail(c), t)
    BY <1>1, <1>2, <1>3, NextOfSched
  <2>2. Head(c) = w /\ Tail(c) = << >>
    BY <1>4
  <2> QED BY <1>2, <2>1, <2>2
<1>6. scheduler = Sched(<< >>, <<w>>, t)
  BY <1>1, <1>2, <1>4
<1>7. SearchLoop(w, Sched(<< >>, << >>, t))
  BY <1>5 DEF TimerSearch
<1> QED BY <1>6, <1>7, SearchEndsKeeps, SearchFindsKeeps DEF SearchLoop

-----------------------------------------------------------------------------
LEMMA IndexUserKeeps ==
  ASSUME IndexInv, IndexUser
  PROVE  IndexInv'
BY TypeKeeps, ClickFocusKeeps, ClickHideKeeps, ClickClearKeeps, ClickFocusRemoveKeeps,
   ClickKindKeeps DEF IndexUser

LEMMA IndexEventsKeep ==
  ASSUME IndexInv, IndexEvents
  PROVE  IndexInv'
BY TimerControlKeeps, TimerSearchKeeps, TimerRunsOutKeeps, KeyUpKeeps DEF IndexEvents, Timer

LEMMA IndexInvImplies == IndexInv => ListIsAnswer
<1> SUFFICES ASSUME IndexInv PROVE ListIsAnswer
  OBVIOUS
<1>1. Len(FilterQueue) <= 1
  <2>1. PICK q : q = FilterQueue
    OBVIOUS
  <2>2. q = << >> \/ \E w \in Searches : q = <<w>>
    BY <2>1 DEF IndexInv, SchedulerInv
  <2>3. Len(q) <= 1
    <3>1. CASE q = << >>
      BY <3>1
    <3>2. ASSUME NEW w, q = <<w>> PROVE Len(q) <= 1
      <4>1. Len(<<w>>) = 1
        OBVIOUS
      <4> QED BY <3>2, <4>1
    <3> QED BY <2>2, <3>1, <3>2
  <2> QED BY <2>1, <2>3
<1>2. PICK n : n = Searched
  OBVIOUS
<1>3. n \in 0..Len(PACKAGES) /\ Len(PACKAGES) \in Nat /\ DOMAIN PACKAGES = 1..Len(PACKAGES)
  BY <1>2, SearchedInRange, PackagesAssumption DEF IndexInv
<1>4. Only([i \in 1..n |-> i], {i \in 1..n : Answers(i)}) = Found(n)
  <2>1. \A i \in 1..n : i \in {j \in 1..n : Answers(j)} <=> i \in AnswerSet
    BY <1>3 DEF AnswerSet
  <2>2. Only(Numbers(n), {i \in 1..n : Answers(i)}) = Only(Numbers(n), AnswerSet)
    BY <1>3, <2>1, NumbersAgree
  <2> QED BY <2>2, Zenon DEF Numbers, Found
<1>5. ASSUME ~keyup
      PROVE  /\ FilterQueue # << >> => Head(FilterQueue).query = input
             /\ ListIsFound(n)
  BY <1>2, <1>5 DEF IndexInv, SearchInv
<1> QED BY <1>1, <1>2, <1>4, <1>5, Zenon DEF ListIsAnswer, ListIsFound

-----------------------------------------------------------------------------
LEMMA DocInit == Init => DocInv
BY BudgetsAssumption, IndexStarts, FrameStarts, PageStarts DEF Init, DocInv

(* What the list links to, it links to templates, which have pages.        *)
LEMMA LinkedHasPage ==
  ASSUME IndexInv
  PROVE  Linked \subseteq Pages
<1> SUFFICES ASSUME NEW p \in Linked PROVE p \in Pages
  OBVIOUS
<1>1. PICK i \in DOMAIN list : p \in list[i].matched
  BY DEF Linked
<1>2. list[i] \in Trees
  BY DEF IndexInv
<1> QED BY <1>1, <1>2, PagesAssumption DEF Trees

LEMMA DocNext == DocInv /\ [Next]_vars => DocInv'
<1> SUFFICES ASSUME DocInv, [Next]_vars PROVE DocInv'
  OBVIOUS
<1>1. /\ UNCHANGED indexVars => IndexInv'
      /\ UNCHANGED frameVars => FrameInv'
      /\ UNCHANGED pageVars => PageInv'
  <2>1. ASSUME UNCHANGED indexVars PROVE IndexInv'
    <3>1. SchedulerInv' /\ InitQueue' = InitQueue /\ FilterQueue' = FilterQueue
      BY <2>1, SchedulerSame DEF DocInv, IndexInv, indexVars
    <3>2. SearchInv'
      BY <2>1, <3>1, AnswerKept DEF DocInv, IndexInv, indexVars
    <3> QED BY <2>1, <3>1, <3>2
            DEF DocInv, IndexInv, IndexTypeOK, StartInv, LinksAgree, indexVars
  <2>2. ASSUME UNCHANGED frameVars PROVE FrameInv'
    BY <2>2 DEF DocInv, FrameInv, FrameTypeOK, TitleNamesFrame, AddressNamesFrame,
                ChangesAreSeen, LoadedIsNamed, BlankIsLeft, frameVars
  <2>3. ASSUME UNCHANGED pageVars PROVE PageInv'
    BY <2>3 DEF DocInv, PageInv, PageTypeOK, FlatAnswers, GroupedAnswers, pageVars
  <2> QED BY <2>1, <2>2, <2>3
<1>2. ASSUME NEW part \in {"index", "frame", "page"}, Act(part)
      PROVE  budget' \in [{"index", "frame", "page"} -> Nat]
  BY <1>2 DEF Act, DocInv
<1>3. CASE UseIndex
  BY <1>1, <1>2, <1>3, IndexUserKeeps DEF UseIndex, DocInv
<1>4. CASE UseFrame
  <2>1. \/ \E p \in Pages : FollowLink(p)
        \/ \E m \in Anchors : FollowAnchor(m)
        \/ \E f \in Addresses : EditHash(f)
    BY <1>4, LinkedHasPage DEF UseFrame, DocInv
  <2> QED BY <1>1, <1>2, <1>4, <2>1, FrameUserKeeps DEF UseFrame, DocInv
<1>5. CASE UsePage
  BY <1>1, <1>2, <1>5, PageUserKeeps DEF UsePage, DocInv
<1>6. CASE IndexEvent
  BY <1>1, <1>6, IndexEventsKeep DEF IndexEvent, DocInv
<1>7. CASE PageArrives
  BY <1>1, <1>7, FrameArrivesKeeps, PageStarts DEF PageArrives, DocInv
<1>8. CASE FrameEvent
  BY <1>1, <1>8, FrameEventsKeep DEF FrameEvent, DocInv
<1>9. CASE UNCHANGED vars
  BY <1>1, <1>9 DEF vars, DocInv
<1> QED BY <1>3, <1>4, <1>5, <1>6, <1>7, <1>8, <1>9 DEF Next

(* DocInv holds in every state of the window: timers, loads, hashchange    *)
(* events and the user's clicks keep it, in whatever order they come.      *)
THEOREM DocInvHolds == Spec => []DocInv
BY DocInit, DocNext, PTL DEF Spec

(* The parts of the window are what their comments say.                    *)
THEOREM TypeCorrect == Spec => []TypeOK
<1>1. DocInv => TypeOK
  BY DEF DocInv, IndexInv, FrameInv, PageInv, TypeOK
<1> QED BY <1>1, DocInvHolds, PTL

(* searchLoop and the filters: the list holds, of the packages the search  *)
(* has passed, those with a match, in order, for the text and the focus as *)
(* they are, whatever the user does while the scheduler builds it.         *)
THEOREM ListAnswersAlways == Spec => []ListIsAnswer
<1>1. DocInv => ListIsAnswer
  BY IndexInvImplies DEF DocInv
<1> QED BY <1>1, DocInvHolds, PTL

(* The links and bars of index.js say what they do, and a finished list    *)
(* has its handlers once.                                                  *)
THEOREM LinksAlwaysAgree == Spec => []LinksAgree
<1>1. DocInv => LinksAgree
  BY DEF DocInv, IndexInv
<1> QED BY <1>1, DocInvHolds, PTL

(* Once no event is to come, title and address name the page displayed:    *)
(* where the browser lets it be read, and unless a link within the page    *)
(* has ended the navigation the address called for.  For any pages and     *)
(* addresses, whatever the browser forbids or a link ends.                 *)
THEOREM PageAlwaysNamed == Spec => []PageNamed
<1>1. DocInv => PageNamed
  BY FrameInvImplies DEF DocInv
<1> QED BY <1>1, DocInvHolds, PTL

(* template.js displays a member once, if at all.                          *)
THEOREM MembersAlwaysOnce == Spec => []MembersOnce
<1>1. DocInv => MembersOnce
  BY PageInvImplies DEF DocInv
<1> QED BY <1>1, DocInvHolds, PTL
=============================================================================
