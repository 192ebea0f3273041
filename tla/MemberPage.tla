----------------------------- MODULE MemberPage -----------------------------
(***************************************************************************)
(* The members of a template on its page (lib/template.js), and which of   *)
(* them its controls display: a text, the visibility, the classes of the   *)
(* linearization, and the order, alphabetic or by inheritance.             *)
(***************************************************************************)
EXTENDS Naturals, Sequences, SequencesExt

CONSTANTS
  Linearization,   \* classes, the template's own first
  HiddenClasses,   \* scala.Any and, but on its own page, scala.AnyRef
  Members,         \* records: id, owner, section, public, and hashed, which is
                   \* whether the name is "owner#name" rather than "owner.name"
  Finds            \* what each query matches: a set of members

Classes  == ToSet(Linearization)
Own      == Head(Linearization)
Texts    == DOMAIN Finds

ASSUME MembersAssumption ==
  /\ Linearization \in Seq(Classes) /\ Linearization # << >>
  /\ \A m \in Members : /\ m.owner \in Classes
                        /\ m.section \in {"constructors", "types", "values"}
                        /\ m.section = "constructors" => m.owner = Own
                        /\ m.public \in BOOLEAN /\ m.hashed \in BOOLEAN
  /\ "" \in Texts /\ Finds[""] = Members
  /\ \A q \in Texts : Finds[q] \subseteq Members

VARIABLES
  text,
  public,            \* "Public" chosen rather than "All"
  alpha,             \* ordered alphabetically rather than by inheritance
  out,               \* the classes not chosen
  flat,              \* the members not hidden in #allMembers,
  grouped,           \* in the groups of #inheritedMembers,
  inheritedShown     \* and whether these are displayed

pageVars == <<text, public, alpha, out, flat, grouped, inheritedShown>>

-----------------------------------------------------------------------------
(* initInherit: a member is copied below the heading of its owner, which   *)
(* is what its name has before the '#'.  Without one slice(0, -1) yields   *)
(* the name without its last letter, and there is no such heading.         *)
Copies == {m \in Members : m.section # "constructors" /\ m.hashed /\ m.owner # Own}

(* filter: the two lists, for the values the controls have now.            *)
Passes(m, q, pub) == (pub => m.public) /\ m \in Finds[q]
HiddenSuperclasses(alphabetic, notChosen) == IF alphabetic THEN notChosen ELSE Classes \ {Own}

FilterAllMembersOnly(q, pub, alphabetic, notChosen) ==     \* variant: the groups forgotten
  /\ flat' = {m \in Members : m.owner \notin HiddenSuperclasses(alphabetic, notChosen)
                              /\ Passes(m, q, pub)}
  /\ inheritedShown' = ~alphabetic
  /\ UNCHANGED grouped
Filter(q, pub, alphabetic, notChosen) ==
  /\ flat' = {m \in Members : m.owner \notin HiddenSuperclasses(alphabetic, notChosen)
                              /\ Passes(m, q, pub)}
  /\ inheritedShown' = ~alphabetic
  /\ grouped' = IF alphabetic THEN grouped ELSE {m \in Copies : Passes(m, q, pub)}

(* The page when its document is ready: the classes that are hidden by     *)
(* default are out, the members are filtered, and those displayed, or not, *)
(* are copied as they are.                                                 *)
Fresh(q, pub, alphabetic, notChosen, fl, gr, shown) ==
  /\ q = "" /\ pub = TRUE /\ alphabetic = TRUE
  /\ notChosen = Classes \cap HiddenClasses
  /\ fl = {m \in Members : m.owner \notin notChosen /\ Passes(m, "", TRUE)}
  /\ gr = fl \cap Copies
  /\ shown = FALSE
PageInit  == Fresh(text, public, alpha, out, flat, grouped, inheritedShown)
PageReady == Fresh(text', public', alpha', out', flat', grouped', inheritedShown')

-----------------------------------------------------------------------------
(* A key pressed and released, or escape, or the button behind the text.   *)
EnterText(q) ==
  /\ text' = q
  /\ Filter(q, public, alpha, out)
  /\ UNCHANGED <<public, alpha, out>>

(* The linearization is displayed in alphabetic order only.                *)
Choose(notChosen) ==
  /\ alpha
  /\ out' = notChosen
  /\ Filter(text, public, alpha, notChosen)
  /\ UNCHANGED <<text, public, alpha>>
ToggleClass(c) == Choose(IF c \in out THEN out \ {c} ELSE out \cup {c})
HideAll == Choose(Classes \ {Own})
ShowAll == Choose(out \cap HiddenClasses)

SetVisibility ==
  /\ public' = ~public
  /\ Filter(text, public', alpha, out)
  /\ UNCHANGED <<text, alpha, out>>

SetOrderUnfiltered ==                   \* variant: the order without a filter
  /\ alpha' = ~alpha
  /\ inheritedShown' = ~alpha'
  /\ UNCHANGED <<text, public, out, flat, grouped>>
SetOrder ==
  /\ alpha' = ~alpha
  /\ Filter(text, public, alpha', out)
  /\ UNCHANGED <<text, public, out>>

PageUser == \/ \E q \in Texts : EnterText(q)
            \/ \E c \in Classes : ToggleClass(c)
            \/ HideAll \/ ShowAll \/ SetVisibility \/ SetOrder

-----------------------------------------------------------------------------
PageTypeOK ==
  /\ text \in Texts /\ public \in BOOLEAN /\ alpha \in BOOLEAN /\ inheritedShown \in BOOLEAN
  /\ out \subseteq Classes
  /\ flat \subseteq Members /\ grouped \subseteq Copies

(* MembersOnce: whatever was clicked before, a member is displayed once if *)
(* the text and the visibility let it pass and, in alphabetic order, its   *)
(* owner is chosen; by inheritance, the template's own members are listed  *)
(* flat and the others below their owners, those that were copied there.   *)
Displayed(m) == (IF m \in flat THEN 1 ELSE 0) + (IF inheritedShown /\ m \in grouped THEN 1 ELSE 0)
MembersOnce ==
  \A m \in Members :
    Displayed(m) = IF /\ Passes(m, text, public)
                      /\ IF alpha THEN m.owner \notin out ELSE m.owner = Own \/ m \in Copies
                   THEN 1 ELSE 0
=============================================================================
