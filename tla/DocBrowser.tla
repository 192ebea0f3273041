----------------------------- MODULE DocBrowser -----------------------------
(***************************************************************************)
(* A browser window with the documentation under design patterns/          *)
(* behavioral/di/doc/api: the index page with its list of entities, and    *)
(* the frame with the page of a template.  Links of the list take the      *)
(* frame to a page; a page that arrives starts with fresh controls and     *)
(* sets the window's title.  The user acts at any time; how often on each  *)
(* part is one of the Budgets.                                             *)
(***************************************************************************)
EXTENDS EntityIndex, TemplateFrame, MemberPage

CONSTANT Budgets

ASSUME PagesAssumption == Pages = Templates \cup {Root} /\ Root \notin Templates
ASSUME BudgetsAssumption == Budgets \subseteq [{"index", "frame", "page"} -> Nat]

VARIABLE budget      \* how often the user will still act on each part, at most

vars == <<budget, indexVars, frameVars, pageVars>>

Init == budget \in Budgets /\ IndexInit /\ FrameInit /\ PageInit

Linked == UNION {list[i].matched : i \in {j \in DOMAIN list : list[j].visible /\ list[j].open}}

Act(part) == budget[part] > 0 /\ budget' = [budget EXCEPT ![part] = @ - 1]

UseIndex == Act("index") /\ IndexUser /\ UNCHANGED <<frameVars, pageVars>>
UseFrame == /\ Act("frame")
            /\ \/ \E p \in Linked : FollowLink(p)
               \/ \E m \in Anchors : FollowAnchor(m)
               \/ \E f \in Addresses : EditHash(f)
            /\ UNCHANGED <<indexVars, pageVars>>
UsePage  == Act("page") /\ PageUser /\ UNCHANGED <<indexVars, frameVars>>

IndexEvent  == IndexEvents /\ UNCHANGED <<budget, frameVars, pageVars>>
PageArrives == FrameArrives /\ PageReady /\ UNCHANGED <<budget, indexVars>>
FrameEvent  == FrameEvents /\ UNCHANGED <<budget, indexVars, pageVars>>

Next == UseIndex \/ UseFrame \/ UsePage \/ IndexEvent \/ PageArrives \/ FrameEvent

Spec == Init /\ [][Next]_vars

(* The browser dispatches its events; the user owes nothing.               *)
FairSpec == Spec /\ WF_vars(IndexEvent) /\ WF_vars(PageArrives) /\ WF_vars(FrameEvent)

(* TypeOK: the parts of the window are what their comments say.            *)
TypeOK == budget \in [{"index", "frame", "page"} -> Nat] /\ IndexTypeOK /\ FrameTypeOK /\ PageTypeOK

(* WindowSettles: when the user stops, the search gets to its end, the     *)
(* timer stops, and the frame arrives: no event calls for another one for  *)
(* ever (a fragment set by a load does not load the page again).           *)
WindowSettles == <>[](IndexSettled /\ FrameSettled)
=============================================================================
