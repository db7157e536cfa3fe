------------------------------ MODULE MCPages ------------------------------
(* Pages on small instances; the variables of the two pages that the tab   *)
(* does not show rest in one initial state.                                *)
EXTENDS Pages, TLC

CONSTANTS e1, e2, d1, d2, d3, v1, v2, person, org, text

\* Two entities that are connected, on two pages of the list.
MCTypeOf == (e1 :> person) @@ (e2 :> org)
MCNamed == (text :> {e2})
MCRank == (e1 :> 1) @@ (e2 :> 2)
MCLinked == (e1 :> {e2}) @@ (e2 :> {e1})
MCMentions == (e1 :> {v1}) @@ (e2 :> {v2})

\* A group of one member and a group with two donors.
MCGroups == {<<d1>>, <<d1, d2, d3>>}

MCPagesInit ==
    /\ PagesInit
    /\ url # "/" => history[1].url = None
    /\ url # "/recoveries/1" => members = <<d1>> /\ cached = {}
    /\ url # "/pdf/embed" => windowWidth = 1

MCPagesSpec == MCPagesInit /\ [][PagesNext]_pagesVars

\* The filter and the type select; an answer can overtake another.
ASSUME MCPagesAssumption == MaxExplore > 2 /\ MaxRecovery > 2 /\ MaxRenders > 1 /\ MaxLoads > 1
=============================================================================
