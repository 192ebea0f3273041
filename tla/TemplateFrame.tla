--------------------------- MODULE TemplateFrame ---------------------------
(***************************************************************************)
(* The frame of scaladoc's index page, which shows a package or template,  *)
(* the fragment of the address, which names it, and the title of the       *)
(* window: what index.js and the page in the frame (template.js) do to     *)
(* keep the three together.  Navigation, load and hashchange are events    *)
(* of the browser and come in any order it allows.                         *)
(*   A place is a page, or a page and a member: <<p>> or <<p, m>>.  As the *)
(* fragment it is written "#p@m", as the frame's location "p.html#m"; the  *)
(* fragment may also be empty.                                             *)
(*   The browser may forbid the two documents to read each other, as       *)
(* Chrome does on the local file system: then nothing names the page.      *)
(***************************************************************************)
EXTENDS Naturals, Sequences

CONSTANTS Pages, Root, Anchors,     \* Root is package.html, without members
          Addresses                 \* the fragments the user opens or enters

ASSUME RootAssumption == Root \in Pages

Places    == {<<p>> : p \in Pages} \cup {<<p, m>> : p \in Pages \ {Root}, m \in Anchors}
Fragments == Places \cup {<< >>}

ASSUME AddressesAssumption == Addresses \subseteq Fragments

Undeclared == <<"not", "yet", "declared">>     \* no fragment: reading it throws
IndexTitle == "index"
Blank      == << >>                            \* the empty document a frame starts with
PageOf(location) == IF location = Blank THEN "" ELSE location[1]

VARIABLES
  readable,        \* whether index page and frame may read each other
  hash,            \* window.location.hash
  lastFragment,
  frame, nav,      \* where the frame is, and where it is on the way to, if it is
  loading,         \* the page in the frame is there, and its load event is to come
  hashEvents,      \* hashchange events to come
  title,
  stopped          \* a link within the page has ended a navigation; no load since

frameVars == <<readable, hash, lastFragment, frame, nav, loading, hashEvents, title, stopped>>

-----------------------------------------------------------------------------
(* setFrameSrcFromUrlFragment.  A place on the page that is there is       *)
(* scrolled to without a load; whether that stops a navigation under way   *)
(* is up to the browser.                                                   *)
Location(fragment) == IF fragment = << >> THEN <<Root>> ELSE fragment

SetFrameSrc(fragment) ==
  LET loc == Location(fragment)
  IN  IF Len(loc) = 2 /\ frame # Blank /\ loc[1] = frame[1]
      THEN frame' = loc /\ nav' \in {nav, << >>} /\ stopped' = FALSE
      ELSE frame' = frame /\ nav' = loc /\ stopped' = stopped

(* The frame is given package.html by index.html.  When the ready handler  *)
(* sends it where the fragment says, that page may not be there yet, or    *)
(* not be ready, or have named itself, with its load to come or already    *)
(* missed; a load may also come for the empty document before it.          *)
FrameInit ==
  /\ readable \in BOOLEAN
  /\ hash \in Addresses
  /\ lastFragment = Undeclared
  /\ frame \in {Blank, <<Root>>} /\ nav = Location(hash)
  /\ loading \in BOOLEAN /\ hashEvents = 0
  /\ title \in {<<IndexTitle>>, <<Root>>}
  /\ title = <<Root>> => readable /\ frame = <<Root>>
  /\ loading /\ readable /\ frame = <<Root>> => title = <<Root>>
  /\ stopped = FALSE

-----------------------------------------------------------------------------
(* The user follows a link to a page, or to a member of the one he is on,  *)
(* or edits the address (or goes back).  A link within the page may end a  *)
(* navigation under way, as scrolling there does in SetFrameSrc; what had  *)
(* called for it, an address perhaps, stays.                               *)
FollowLink(p) == /\ nav' = <<p>>
                 /\ UNCHANGED <<readable, hash, lastFragment, frame, loading, hashEvents,
                                title, stopped>>

FollowAnchor(m) == /\ frame # Blank /\ frame[1] # Root
                   /\ frame' = <<frame[1], m>>
                   /\ nav' \in {nav, << >>}
                   /\ stopped' = (stopped \/ nav' # nav)
                   /\ UNCHANGED <<readable, hash, lastFragment, loading, hashEvents, title>>

EditHash(f) == /\ hash' = f /\ f # hash
               /\ hashEvents' = hashEvents + 1
               /\ UNCHANGED <<readable, lastFragment, frame, nav, loading, title, stopped>>

(* The frame has arrived, its document is ready: template.js sets the      *)
(* title of the window, or catches that it may not.                        *)
WindowTitle == title' = IF readable THEN <<nav[1]>> ELSE title
FrameArrives ==
  /\ nav # << >>
  /\ frame' = nav /\ nav' = << >>
  /\ loading' = TRUE
  /\ WindowTitle
  /\ UNCHANGED <<readable, hash, lastFragment, hashEvents, stopped>>

(* The load handler: the title, and setUrlFragmentFromFrameSrc, which      *)
(* returns for a location without a relative path and catches that it may  *)
(* not read one.  Reading the title of a page it may not read throws, or   *)
(* gives nothing, as the browser has it.                                   *)
SetUrlFragmentOnce ==            \* variant: only while lastFragment is undeclared
  IF readable /\ frame # Blank /\ lastFragment = Undeclared
  THEN hash' = frame /\ lastFragment' = frame
  ELSE UNCHANGED <<hash, lastFragment>>
SetUrlFragmentUnguarded ==       \* variant: an "@" though the location has no hash
  IF readable /\ frame # Blank
  THEN hash' = <<frame[1], IF Len(frame) = 1 THEN "" ELSE frame[2]>> /\ lastFragment' = hash'
  ELSE UNCHANGED <<hash, lastFragment>>
SetUrlFragment ==
  IF readable /\ frame # Blank
  THEN hash' = frame /\ lastFragment' = frame
  ELSE UNCHANGED <<hash, lastFragment>>

FrameLoads ==
  /\ loading
  /\ loading' = FALSE
  /\ IF readable THEN title' = <<IndexTitle, PageOf(frame)>>
                 ELSE title' \in {title, <<IndexTitle, "">>}
  /\ SetUrlFragment
  /\ hashEvents' = IF hash' # hash THEN hashEvents + 1 ELSE hashEvents
  /\ stopped' = FALSE
  /\ UNCHANGED <<readable, frame, nav>>

(* The hashchange handler.  Until a load has named a page it throws.       *)
HashChange ==
  /\ hashEvents > 0
  /\ hashEvents' = hashEvents - 1
  /\ IF lastFragment # Undeclared /\ lastFragment # hash
     THEN lastFragment' = hash /\ SetFrameSrc(hash)
     ELSE UNCHANGED <<lastFragment, frame, nav, stopped>>
  /\ UNCHANGED <<readable, hash, loading, title>>

FrameEvents == FrameLoads \/ HashChange

-----------------------------------------------------------------------------
FrameTypeOK ==
  /\ readable \in BOOLEAN /\ stopped \in BOOLEAN
  /\ hash \in Fragments /\ lastFragment \in Fragments \cup {Undeclared}
  /\ frame \in Places \cup {Blank} /\ nav \in Places \cup {<< >>}
  /\ loading \in BOOLEAN /\ hashEvents \in Nat
  /\ title \in {<<IndexTitle>>} \cup ({<<p>> : p \in Pages} \cup {<<IndexTitle, p>> : p \in Pages \cup {""}})

(* PageNamed: where the browser lets them be read, when no event is to     *)
(* come, the title names the page in the frame, the next change of the     *)
(* address will be noticed, and the address names the page too, in         *)
(* whatever order links, edits, loads and hashchange events came; unless a *)
(* link within the page has ended the navigation an address called for,    *)
(* which no handler notices.  (The member need not be named: moving within *)
(* the page is no load.)                                                   *)
FrameSettled == nav = << >> /\ ~loading /\ hashEvents = 0
PageNamed ==
  readable /\ FrameSettled =>
    /\ title = <<IndexTitle, PageOf(frame)>>
    /\ lastFragment = hash
    /\ ~stopped => hash # << >> /\ hash[1] = PageOf(frame)
=============================================================================
