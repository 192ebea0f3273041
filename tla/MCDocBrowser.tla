---------------------------- MODULE MCDocBrowser ----------------------------
(* Three packages, one inside another; a query that finds some, one that   *)
(* finds nothing in two of them, and one that does not compile; a page     *)
(* with members of each sort.                                              *)
EXTENDS DocBrowser

CONSTANT Bad        \* NoPattern

MCPackages == <<[pack |-> <<"mdpm">>,       templates |-> {"Tweet"}],
                [pack |-> <<"mdpm", "di">>, templates |-> {"Main"}],
                [pack |-> <<"mdpm2">>,      templates |-> {"Types"}]>>
MCHits == ("" :> {"Tweet", "Main", "Types"}) @@ ("t" :> {"Tweet", "Types"}) @@ ("{2}" :> Bad)
MCAddresses == {<< >>, <<"Main", "m">>}
Budget(i, f, p) == [index |-> i, frame |-> f, page |-> p]
MCBudgets == {Budget(3, 0, 0), Budget(1, 1, 0), Budget(0, 3, 0), Budget(0, 1, 1), Budget(0, 0, 2)}
MCPages == {"package", "Tweet", "Main", "Types"}

Member(i, o, s, p, h) == [id |-> i, owner |-> o, section |-> s, public |-> p, hashed |-> h]
MCMembers == {Member(1, "Own", "constructors", TRUE, TRUE), Member(2, "Trait", "types", TRUE, FALSE),
              Member(3, "Trait", "values", TRUE, TRUE),     Member(4, "AnyRef", "values", FALSE, TRUE)}
MCFinds == ("" :> MCMembers) @@ ("n" :> {m \in MCMembers : m.id \in {2, 4}})
MCLinearization == <<"Own", "Trait", "AnyRef">>
=============================================================================
