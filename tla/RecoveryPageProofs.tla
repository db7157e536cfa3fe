------------------------- MODULE RecoveryPageProofs -------------------------
(* Proofs about RecoveryPage and Comparison, for any numbers of passages,  *)
(* of members and of loads of the tabs.  The passages, the source panel    *)
(* and the two panes of the comparison share the tab and nothing else, and *)
(* have an invariant each; what keeps the panes scrolling each other adds  *)
(* three, about the scripts that have not run, the listeners and their     *)
(* timers.                                                                 *)
EXTENDS RecoveryPage, SequenceTheorems, TLAPS

-----------------------------------------------------------------------------
(* The selected passage. *)

PassageInv ==
    /\ currentIndex \in 0..Passages
    /\ segments = IF tab = "merged" THEN Passages ELSE 0
    /\ SelectionAgrees

LEMMA SelectingKeeps ==
    ASSUME PassageInv, NEW n \in Int, ScrollTo(n)
    PROVE  PassageInv'
<1>1. Passages \in Nat \ {0}
  BY RecoveryAssumption
<1>2. n \in 1..segments /\ tab = "merged" /\ segments = Passages
  BY <1>1 DEF ScrollTo, PassageInv
<1>3. UNCHANGED <<tab, segments>> /\ currentIndex' = n /\ highlighted' = n /\ position' = n
  BY DEF ScrollTo, Select, tabVars
<1>4. QED
  BY <1>1, <1>2, <1>3 DEF PassageInv, SelectionAgrees

LEMMA PassagesInductive ==
    /\ RecoveryInit => PassageInv
    /\ PassageInv /\ [RecoveryNext]_recoveryVars => PassageInv'
<1> USE RecoveryAssumption
<1>1. RecoveryInit => PassageInv
  BY DEF RecoveryInit, PassageInv, SelectionAgrees
<1>2. ASSUME PassageInv, [RecoveryNext]_recoveryVars PROVE PassageInv'
  <2>1. currentIndex \in Int
    BY <1>2 DEF PassageInv
  <2>2. CASE KeyJ \/ NextButton
    BY <1>2, <2>1, <2>2, SelectingKeeps DEF KeyJ, NextButton
  <2>3. CASE KeyK \/ PrevButton
    BY <1>2, <2>1, <2>3, SelectingKeeps DEF KeyK, PrevButton
  <2>4. ASSUME NEW n \in 1..Passages, ScrollToSegment(n) PROVE PassageInv'
    BY <1>2, <2>4, SelectingKeeps DEF ScrollToSegment
  <2>5. ASSUME NEW n \in 1..Passages, ClickPassage(n) PROVE PassageInv'
    BY <1>2, <2>5 DEF ClickPassage, Select, tabVars, PassageInv, SelectionAgrees
  <2>6. ASSUME NEW t \in Tabs, SwapTab(t) PROVE PassageInv'
    BY <2>6 DEF SwapTab, AfterSwap, CollectSegments, PassageInv, SelectionAgrees
  <2>7. CASE SwapStatus
    <3>1. /\ UNCHANGED <<tab, highlighted>> /\ currentIndex' = 0
          /\ segments' = IF tab = "merged" THEN Passages ELSE 0
          /\ position' = IF tab = "merged" THEN currentIndex ELSE 0
      BY <2>7 DEF SwapStatus, AfterSwap, CollectSegments, UpdateToolbar, tabVars
    <3>2. currentIndex > 0 => highlighted = currentIndex
      BY <1>2 DEF PassageInv, SelectionAgrees
    <3>3. highlighted > 0 => tab = "merged"
      BY <1>2 DEF PassageInv, SelectionAgrees
    <3>4. QED
      BY <1>2, <3>1, <3>2, <3>3 DEF PassageInv, SelectionAgrees
  <2>8. CASE UNCHANGED <<tab, passageVars>>
    BY <1>2, <2>8 DEF passageVars, PassageInv, SelectionAgrees
  <2>9. ASSUME ~(KeyJ \/ NextButton \/ KeyK \/ PrevButton \/ SwapStatus),
               \A n \in 1..Passages : ~ScrollToSegment(n) /\ ~ClickPassage(n), \A t \in Tabs : ~SwapTab(t)
        PROVE  UNCHANGED <<tab, passageVars>>
    BY <1>2, <2>9 DEF RecoveryNext, Escape, CloseButton, CloseSourcePanel, AnswerSource, ClickTab, TabFails,
                      OnComparison, tabVars, recoveryVars
  <2>10. QED
    BY <2>2, <2>3, <2>4, <2>5, <2>6, <2>7, <2>8, <2>9
<1>3. QED
  BY <1>1, <1>2

\* While the index that the keys count from is set, the highlighted passage and
\* the toolbar agree with it, for any number of passages.  Nothing more is said
\* after a swap, also that of the status, which resets the index, than that a
\* highlight left behind is not contradicted by the number of another passage.
THEOREM SelectionsAgree == RecoverySpec => []SelectionAgrees
<1>1. PassageInv => SelectionAgrees
  BY DEF PassageInv
<1>2. QED
  BY <1>1, PassagesInductive, PTL DEF RecoverySpec

-----------------------------------------------------------------------------
(* The source panel. *)

\* A request for a source that overlaps nothing is the one asked for last.
PanelInv ==
    /\ sourceReqs \in [1..Passages -> Nat]
    /\ shifted => panelOpen /\ tab = "merged"
    /\ \/ overlapped
       \/ /\ \A n \in 1..Passages : sourceReqs[n] > 0 => n = asked
          /\ \/ Pending(sourceReqs)
             \/ panelOpen /\ panel \in {asked, Failed}
             \/ ~panelOpen /\ panel = Nothing /\ asked = Nothing

LEMMA ClosingKeeps ==
    ASSUME PanelInv, CloseSourcePanel
    PROVE  PanelInv'
<1>1. UNCHANGED <<sourceReqs, tab>> /\ ~shifted' /\ ~panelOpen' /\ panel' = Nothing /\ asked' = Nothing
  BY DEF CloseSourcePanel, tabVars
<1>2. CASE Pending(sourceReqs)
  BY <1>1, <1>2 DEF CloseSourcePanel, PanelInv
<1>3. CASE ~Pending(sourceReqs)
  <2>1. \A n \in 1..Passages : ~(sourceReqs'[n] > 0)
    BY <1>1, <1>3 DEF Pending, PanelInv
  <2>2. QED
    BY <1>1, <2>1 DEF PanelInv
<1>4. QED
  BY <1>2, <1>3

LEMMA AskingKeeps ==
    ASSUME PanelInv, NEW n \in 1..Passages, ClickPassage(n)
    PROVE  PanelInv'
<1>1. /\ sourceReqs' = [sourceReqs EXCEPT ![n] = @ + 1] /\ asked' = n
      /\ overlapped' = Pending(sourceReqs) /\ UNCHANGED <<tab, panelOpen, shifted>>
  BY DEF ClickPassage, Sent, tabVars
<1>2. sourceReqs' \in [1..Passages -> Nat] /\ Pending(sourceReqs')
  BY <1>1 DEF PanelInv, Pending
<1>3. ~Pending(sourceReqs) => \A m \in 1..Passages : sourceReqs'[m] > 0 => m = n
  BY <1>1 DEF PanelInv, Pending
<1>4. QED
  BY <1>1, <1>2, <1>3 DEF PanelInv

LEMMA AnswerKeeps ==
    ASSUME PanelInv, NEW n \in 1..Passages, AnswerSource(n)
    PROVE  PanelInv'
<1>1. /\ sourceReqs' = [sourceReqs EXCEPT ![n] = @ - 1] /\ sourceReqs[n] > 0 /\ panelOpen'
      /\ UNCHANGED <<tab, asked, overlapped>> /\ panel' \in {n, Failed}
      /\ shifted' => shifted \/ tab = "merged"
  <2>1. sourceReqs' = [sourceReqs EXCEPT ![n] = @ - 1] /\ sourceReqs[n] > 0
    BY DEF AnswerSource, Answered
  <2>2. panelOpen' /\ UNCHANGED <<tab, asked, overlapped>> /\ panel' \in {n, Failed}
    BY DEF AnswerSource, tabVars
  <2>3. shifted' => shifted \/ tab = "merged"
    BY Zenon DEF AnswerSource
  <2>4. QED
    BY <2>1, <2>2, <2>3
<1>2. sourceReqs' \in [1..Passages -> Nat] /\ \A m \in 1..Passages : sourceReqs'[m] > 0 => sourceReqs[m] > 0
  BY <1>1 DEF PanelInv
<1>3. ~overlapped => n = asked
  BY <1>1 DEF PanelInv
<1>4. QED
  BY <1>1, <1>2, <1>3 DEF PanelInv

LEMMA PanelInductive ==
    /\ RecoveryInit => PanelInv
    /\ PanelInv /\ [RecoveryNext]_recoveryVars => PanelInv'
<1>1. ASSUME RecoveryInit PROVE PanelInv
  <2>1. sourceReqs \in [1..Passages -> Nat] /\ \A n \in 1..Passages : ~(sourceReqs[n] > 0)
    BY <1>1 DEF RecoveryInit, Unsent
  <2>2. ~shifted /\ ~panelOpen /\ panel = Nothing /\ asked = Nothing
    BY <1>1 DEF RecoveryInit
  <2>3. QED
    BY <2>1, <2>2 DEF PanelInv
<1>2. ASSUME PanelInv, [RecoveryNext]_recoveryVars PROVE PanelInv'
  <2>1. CASE Escape \/ CloseButton
    BY <1>2, <2>1, ClosingKeeps DEF Escape, CloseButton
  <2>2. ASSUME NEW t \in Tabs, SwapTab(t) PROVE PanelInv'
    BY <1>2, <2>2 DEF SwapTab, PanelInv
  <2>3. CASE UNCHANGED <<tab, panelVars>>
    BY <1>2, <2>3 DEF panelVars, PanelInv
  <2>4. ASSUME ~(Escape \/ CloseButton), \A t \in Tabs : ~SwapTab(t),
               \A n \in 1..Passages : ~ClickPassage(n) /\ ~AnswerSource(n)
        PROVE  UNCHANGED <<tab, panelVars>>
    BY <1>2, <2>4 DEF RecoveryNext, KeyJ, KeyK, NextButton, PrevButton, ScrollToSegment, ScrollTo, ClickTab,
                      TabFails, SwapStatus, OnComparison, tabVars, recoveryVars
  <2>5. QED
    BY <1>2, <2>1, <2>2, <2>3, <2>4, AskingKeeps, AnswerKeeps
<1>3. QED
  BY <1>1, <1>2

\* At rest the source panel shows what was asked for last, or is closed, unless
\* requests overlapped each other or a close.
THEOREM SourceIsAskedFor == RecoverySpec => []SourcePanelAgrees
<1>1. PanelInv => SourcePanelAgrees
  BY DEF PanelInv, SourcePanelAgrees
<1>2. QED
  BY <1>1, PanelInductive, PTL DEF RecoverySpec

-----------------------------------------------------------------------------
(* The two panes. *)

\* The mode that the two panes must have, and what a pane shows of which
\* member; a single member has one pane and no donor.
PanesInv ==
    /\ members \in Seq(Docs) \ {<<>>}
    /\ pane \in [Panes -> PaneStates]
    /\ shown =>
          /\ pane["primary"].doc = members[1] /\ pane["primary"].mode # "none"
          /\ IF Len(members) = 1
             THEN pane["donor"] = NoPane
             ELSE /\ pane["donor"].doc \in Docs
                  /\ \A p \in Panes : pane[p].mode = IF PdfMode(pane["donor"].doc) THEN "pdf" ELSE "text"
          /\ \A p \in Panes : pane[p].mode = "text" => pane[p].text \in {pane[p].doc, Loading, Failed}
    /\ ~shown => \A p \in Panes : pane[p] = NoPane

Requests == [pane : Panes, doc : Docs \union {NoDoc}, live : BOOLEAN, by : 0..MaxLoads]

\* An answer that can still arrive is for the pane that is on the page.
RequestsInv ==
    /\ textReqs \subseteq Requests
    /\ \A r \in textReqs :
        r.live => r.pane \in Panes /\ pane[r.pane].mode = "text" /\ pane[r.pane].doc = r.doc

\* The script that asks for the texts of a tab with one member, or with more.
Asks == IF Len(members) = 1 THEN "original-pdfs-single" ELSE "original-pdfs"

Scripts == [name : {Asks, "comparison"}, by : 1..MaxLoads]

\* A pane that waits for its text waits for an answer or for a script.
WaitsInv ==
    /\ scripts \in Seq(Scripts) /\ loads \in 0..MaxLoads
    /\ \A p \in Panes :
          pane[p].mode = "text" /\ pane[p].text = Loading =>
             \/ \E r \in textReqs : r.pane = p /\ r.live
             \/ \E i \in 1..Len(scripts) : scripts[i].name = Asks

ComparisonInv == PanesInv /\ RequestsInv /\ WaitsInv

\* The steps that change none of this.
Idle == UNCHANGED <<members, cached, shown, pane, textReqs, scripts, loads>>

LEMMA IdleKeeps == ComparisonInv /\ Idle => ComparisonInv'
BY DEF Idle, ComparisonInv, PanesInv, RequestsInv, WaitsInv, Asks, Scripts, PdfMode

LEMMA NewPanes ==
    ASSUME NEW d \in Docs, NEW pdf \in BOOLEAN
    PROVE  /\ NewPane(d, pdf) \in PaneStates
           /\ NewPane(d, pdf).doc = d /\ NewPane(d, pdf).mode = (IF pdf THEN "pdf" ELSE "text")
           /\ ~pdf => NewPane(d, pdf).text = Loading
           /\ NoPane \in PaneStates
           /\ NoPane.mode = "none"
BY DEF NewPane, NoPane, PaneStates

LEMMA AnswerKeepsPanes ==
    ASSUME ComparisonInv, NEW r \in textReqs, AnswerText(r)
    PROVE  ComparisonInv'
<1>1. UNCHANGED <<members, cached, shown, scripts, loads>> /\ textReqs' = textReqs \ {r}
  BY DEF AnswerText, groupVars, viewVars, scriptVars
<1>2. CASE ~r.live
  <2>1. pane' = pane
    BY <1>2 DEF AnswerText
  <2>2. QED
    BY <1>1, <1>2, <2>1 DEF ComparisonInv, PanesInv, RequestsInv, WaitsInv, Asks, Scripts, PdfMode
<1>3. CASE r.live
  <2>1. PICK text \in {r.doc, Failed} : pane' = [pane EXCEPT ![r.pane].text = text]
    BY <1>3 DEF AnswerText
  <2>2. r.pane \in Panes /\ pane[r.pane].mode = "text" /\ pane[r.pane].doc = r.doc /\ shown
    BY <1>3 DEF ComparisonInv, RequestsInv, PanesInv, NoPane
  <2>3. /\ \A p \in Panes : pane'[p].doc = pane[p].doc /\ pane'[p].mode = pane[p].mode
        /\ \A p \in Panes \ {r.pane} : pane'[p] = pane[p]
        /\ pane'[r.pane].text = text
    BY <2>1, <2>2 DEF ComparisonInv, PanesInv
  <2>4. r.doc \in Docs /\ text # Loading /\ text \in Docs \union {Failed}
    <3>1. members[1] \in Docs
      BY DEF ComparisonInv, PanesInv
    <3>2. r.pane = "donor" => Len(members) # 1
      BY <2>2 DEF ComparisonInv, PanesInv, NoPane
    <3>3. r.doc \in Docs
      BY <2>2, <3>1, <3>2 DEF ComparisonInv, PanesInv, Panes
    <3>4. QED
      BY <2>1, <3>3, ComparisonAssumption
  <2>5. pane' \in [Panes -> PaneStates]
    <3>1. pane[r.pane] \in PaneStates
      BY <2>2 DEF ComparisonInv, PanesInv
    <3>2. [pane[r.pane] EXCEPT !.text = text] \in PaneStates
      BY <2>4, <3>1 DEF PaneStates
    <3>3. QED
      BY <2>1, <2>2, <3>2 DEF ComparisonInv, PanesInv
  <2>6. PanesInv'
    <3>1. Len(members) = 1 => pane'["donor"] = NoPane
      BY <2>2, <2>3 DEF ComparisonInv, PanesInv, Panes, NoPane
    <3>2. \A p \in Panes : pane'[p].mode = "text" => pane'[p].text \in {pane'[p].doc, Loading, Failed}
      <4>1. ASSUME NEW p \in Panes, pane'[p].mode = "text"
            PROVE  pane'[p].text \in {pane'[p].doc, Loading, Failed}
        <5>1. CASE p = r.pane
          BY <2>1, <2>2, <2>3, <5>1
        <5>2. CASE p # r.pane
          BY <2>2, <2>3, <4>1, <5>2 DEF ComparisonInv, PanesInv
        <5>3. QED
          BY <5>1, <5>2
      <4>2. QED
        BY <4>1
    <3>3. QED
      BY <1>1, <2>2, <2>3, <2>5, <3>1, <3>2 DEF ComparisonInv, PanesInv, PdfMode, Panes
  <2>7. RequestsInv'
    BY <1>1, <2>3 DEF ComparisonInv, RequestsInv
  <2>8. WaitsInv'
    <3>1. ASSUME NEW p \in Panes, pane'[p].mode = "text", pane'[p].text = Loading
          PROVE  \/ \E q \in textReqs' : q.pane = p /\ q.live
                 \/ \E i \in 1..Len(scripts) : scripts[i].name = Asks
      <4>1. p # r.pane /\ pane'[p] = pane[p]
        BY <2>3, <2>4, <3>1
      <4>2. QED
        BY <1>1, <3>1, <4>1 DEF ComparisonInv, WaitsInv
    <3>2. QED
      BY <1>1, <3>1 DEF ComparisonInv, WaitsInv, Asks, Scripts
  <2>9. QED
    BY <2>6, <2>7, <2>8 DEF ComparisonInv
<1>4. QED
  BY <1>2, <1>3

\* What is left of the requests when the elements of some panes go.
LEMMA Orphans ==
    ASSUME NEW reqs \in SUBSET Requests, NEW gone
    PROVE  /\ Orphaned(reqs, gone) \subseteq Requests
           /\ \A o \in Orphaned(reqs, gone) : \E r \in reqs : r.pane = o.pane /\ r.doc = o.doc
           /\ \A o \in Orphaned(reqs, gone) :
                 o.live => o.pane \notin gone /\ \E r \in reqs : r.live /\ r.pane = o.pane /\ r.doc = o.doc
           /\ \A r \in reqs :
                 r.live /\ r.pane \notin gone => \E o \in Orphaned(reqs, gone) : o.live /\ o.pane = r.pane
<1> DEFINE orphan(r) == [r EXCEPT !.live = @ /\ r.pane \notin gone]
<1>1. ASSUME NEW r \in reqs
      PROVE  /\ orphan(r) \in Requests /\ orphan(r).pane = r.pane /\ orphan(r).doc = r.doc
             /\ orphan(r).live <=> r.live /\ r.pane \notin gone
  <2>1. r \in Requests
    OBVIOUS
  <2> DEFINE b == r.live /\ r.pane \notin gone
             o == [r EXCEPT !.live = b]
  <2>2. b \in BOOLEAN
    OBVIOUS
  <2> HIDE DEF b
  <2>3. o \in Requests /\ o.pane = r.pane /\ o.doc = r.doc /\ o.live = b
    BY <2>1, <2>2 DEF Requests
  <2>4. QED
    BY <2>3 DEF b
<1>2. Orphaned(reqs, gone) = {orphan(r) : r \in reqs}
  BY DEF Orphaned
<1> HIDE DEF orphan
<1>3. QED
  BY <1>1, <1>2

LEMMA NobodyAnswers ==
    ASSUME ComparisonInv
    PROVE  /\ Orphaned(textReqs, Panes) \subseteq Requests
           /\ \A o \in Orphaned(textReqs, Panes) : ~o.live
<1>1. textReqs \in SUBSET Requests
  BY DEF ComparisonInv, RequestsInv
<1>2. \A o \in Requests : o.pane \in Panes
  BY DEF Requests
<1>3. QED
  BY <1>1, <1>2, Orphans

LEMMA LoadKeepsPanes ==
    ASSUME ComparisonInv, LoadTab
    PROVE  ComparisonInv'
<1>1. /\ members' = members /\ cached' = cached /\ shown' /\ pane' = Template /\ loads' = loads + 1
      /\ textReqs' = Orphaned(textReqs, Panes) /\ loads < MaxLoads
      /\ members \in Seq(Docs) \ {<<>>} /\ scripts \in Seq(Scripts) /\ loads \in 0..MaxLoads
      /\ MaxLoads \in Nat
  BY ComparisonAssumption DEF LoadTab, groupVars, ComparisonInv, PanesInv, WaitsInv
<1>2. RequestsInv'
  BY <1>1, NobodyAnswers DEF RequestsInv
<1>3. members[1] \in Docs /\ (Len(members) # 1 => Len(members) > 1 /\ members[2] \in Docs) /\ Len(members) \in Nat
      /\ Len(members) # 0
  <2>1. Len(members) \in Nat /\ Len(members) # 0 /\ \A i \in 1..Len(members) : members[i] \in Docs
    <3>1. members \in Seq(Docs) /\ members # <<>>
      BY <1>1
    <3>2. Len(members) \in Nat \ {0}
      BY <3>1, EmptySeq
    <3>3. QED
      BY <3>1, <3>2
  <2>2. 1 \in 1..Len(members) /\ (Len(members) # 1 => Len(members) > 1 /\ 2 \in 1..Len(members))
    <3>1. \A n \in Nat : n # 0 => 1 \in 1..n /\ (n # 1 => n > 1 /\ 2 \in 1..n)
      OBVIOUS
    <3>2. QED
      BY <2>1, <3>1
  <2>3. QED
    BY <2>1, <2>2
<1>4. PanesInv'
  <2> DEFINE donor == IF Len(members) > 1 THEN members[2] ELSE members[1]
             pdf == PdfMode(donor)
  <2>1. donor \in Docs /\ pdf \in BOOLEAN
    BY <1>3 DEF PdfMode
  <2>2. /\ pane'["primary"] = NewPane(members[1], pdf)
        /\ pane'["donor"] = IF Len(members) > 1 THEN NewPane(donor, pdf) ELSE NoPane
        /\ DOMAIN pane' = Panes /\ pane' = [p \in Panes |-> pane'[p]]
    BY <1>1 DEF Template, Panes
  <2> HIDE DEF donor, pdf
  <2>3. /\ NewPane(members[1], pdf) \in PaneStates /\ NewPane(donor, pdf) \in PaneStates
        /\ NoPane \in PaneStates /\ NoPane.mode = "none"
        /\ NewPane(members[1], pdf).doc = members[1] /\ NewPane(donor, pdf).doc = donor
        /\ NewPane(members[1], pdf).mode = (IF pdf THEN "pdf" ELSE "text")
        /\ NewPane(donor, pdf).mode = (IF pdf THEN "pdf" ELSE "text")
        /\ ~pdf => NewPane(members[1], pdf).text = Loading /\ NewPane(donor, pdf).text = Loading
    BY <1>3, <2>1, NewPanes
  <2>4. pane' \in [Panes -> PaneStates]
    BY <2>2, <2>3 DEF Panes
  <2>5. Len(members) # 1 => \A p \in Panes : pane'[p].mode = IF pdf THEN "pdf" ELSE "text"
    BY <1>3, <2>2, <2>3 DEF Panes
  <2>6. Len(members) # 1 => pane'["donor"].doc = donor
    BY <1>3, <2>2, <2>3
  <2>7. Len(members) # 1 => (PdfMode(pane["donor"].doc)' <=> pdf)
    BY <1>1, <2>6 DEF PdfMode, pdf
  <2>8. \A p \in Panes : pane'[p].mode = "text" => pane'[p].text = Loading
    BY <2>2, <2>3 DEF Panes
  <2>9. pane'["primary"].doc = members'[1] /\ pane'["primary"].mode # "none"
    BY <1>1, <2>2, <2>3
  <2>10. CASE Len(members) = 1
    BY <1>1, <2>2, <2>4, <2>8, <2>9, <2>10 DEF PanesInv
  <2>11. CASE Len(members) # 1
    BY <1>1, <2>1, <2>4, <2>5, <2>6, <2>7, <2>8, <2>9, <2>11 DEF PanesInv
  <2>12. QED
    BY <2>10, <2>11
<1>5. WaitsInv'
  <2> DEFINE by == loads + 1
             new == IF Len(members) > 1 THEN <<Script("original-pdfs"), Script("comparison")>>
                                        ELSE <<Script("original-pdfs-single")>>
  <2>1. /\ Script("original-pdfs") = [name |-> "original-pdfs", by |-> by]
        /\ Script("comparison") = [name |-> "comparison", by |-> by]
        /\ Script("original-pdfs-single") = [name |-> "original-pdfs-single", by |-> by]
        /\ by \in 1..MaxLoads
    BY <1>1 DEF Script
  <2>2. new \in Seq(Scripts) /\ Len(new) # 0 /\ Len(new) \in Nat /\ new[1].name = Asks
    <3>1. CASE Len(members) = 1
      <4>1. new = <<[name |-> Asks, by |-> by]>> /\ [name |-> Asks, by |-> by] \in Scripts
        BY <2>1, <3>1 DEF Scripts, Asks
      <4>2. QED
        BY <4>1
    <3>2. CASE Len(members) # 1
      <4>1. /\ new = <<[name |-> Asks, by |-> by], [name |-> "comparison", by |-> by]>>
            /\ [name |-> Asks, by |-> by] \in Scripts /\ [name |-> "comparison", by |-> by] \in Scripts
        BY <1>3, <2>1, <3>2 DEF Scripts, Asks
      <4>2. QED
        BY <4>1
    <3>3. QED
      BY <3>1, <3>2
  <2>3. scripts' = scripts \o new
    BY DEF LoadTab
  <2> HIDE DEF new, by
  <2>4. /\ scripts' \in Seq(Scripts) /\ Len(scripts') = Len(scripts) + Len(new)
        /\ scripts'[Len(scripts) + 1].name = Asks /\ Len(scripts) \in Nat
    BY <1>1, <2>2, <2>3, ConcatProperties
  <2>5. Len(scripts) + 1 \in 1..Len(scripts') /\ Asks' = Asks /\ Scripts' = Scripts
    BY <1>1, <2>2, <2>4 DEF Asks, Scripts
  <2>6. QED
    BY <1>1, <2>4, <2>5 DEF WaitsInv
<1>6. QED
  BY <1>2, <1>4, <1>5 DEF ComparisonInv

LEMMA LeaveKeepsPanes ==
    ASSUME ComparisonInv, LeaveTab
    PROVE  ComparisonInv'
<1>1. /\ UNCHANGED <<members, cached, scripts, loads>> /\ ~shown' /\ pane' = [p \in Panes |-> NoPane]
      /\ textReqs' = Orphaned(textReqs, Panes)
  BY DEF LeaveTab, groupVars
<1>2. RequestsInv'
  BY <1>1, NobodyAnswers DEF RequestsInv
<1>3. NoPane \in PaneStates /\ NoPane.mode = "none"
  BY DEF NoPane, PaneStates
<1>4. PanesInv'
  BY <1>1, <1>3 DEF ComparisonInv, PanesInv
<1>5. WaitsInv'
  BY <1>1, <1>3 DEF ComparisonInv, WaitsInv, Asks, Scripts
<1>6. QED
  BY <1>2, <1>4, <1>5 DEF ComparisonInv

\* A script that has run leaves the others to run.
LEMMA ScriptHasRun ==
    ASSUME ComparisonInv, scripts # <<>>, scripts' = Tail(scripts)
    PROVE  /\ Head(scripts) \in Scripts /\ scripts' \in Seq(Scripts)
           /\ \A i \in 1..Len(scripts) : scripts[i].name # Head(scripts).name =>
                 \E j \in 1..Len(scripts') : scripts'[j] = scripts[i]
<1>1. scripts \in Seq(Scripts) /\ scripts # <<>> /\ scripts' = Tail(scripts)
  BY DEF ComparisonInv, WaitsInv
<1>2. /\ Head(scripts) \in Scripts /\ Head(scripts) = scripts[1] /\ scripts' \in Seq(Scripts)
      /\ Len(scripts') = Len(scripts) - 1 /\ Len(scripts) \in Nat
      /\ \A j \in 1..Len(scripts') : scripts'[j] = scripts[j + 1]
  BY <1>1
<1>3. ASSUME NEW i \in 1..Len(scripts), scripts[i].name # Head(scripts).name
      PROVE  \E j \in 1..Len(scripts') : scripts'[j] = scripts[i]
  <2>1. i - 1 \in 1..Len(scripts')
    BY <1>1, <1>2, <1>3
  <2>2. scripts'[i - 1] = scripts[i]
    BY <1>2, <2>1
  <2>3. QED
    BY <2>1, <2>2
<1>4. QED
  BY <1>1, <1>2, <1>3

\* loadText of some panes.
LEMMA TextsAskedFor ==
    ASSUME NEW content \in [Panes -> PaneStates], NEW ps \in SUBSET Panes, NEW by \in 0..MaxLoads
    PROVE  /\ \A r \in TextFor(content, ps, by) :
                 /\ r \in Requests /\ r.pane \in ps
                 /\ content[r.pane].mode = "text" /\ content[r.pane].doc = r.doc
           /\ \A p \in ps : content[p].mode = "text" =>
                 \E r \in TextFor(content, ps, by) : r.pane = p /\ r.live
<1>1. ASSUME NEW p \in ps
      PROVE  [pane |-> p, doc |-> content[p].doc, live |-> TRUE, by |-> by] \in Requests
  <2>1. content[p].doc \in Docs \union {NoDoc}
    BY DEF PaneStates
  <2>2. QED
    BY <2>1 DEF Requests
<1>2. ASSUME NEW r \in TextFor(content, ps, by)
      PROVE  r \in Requests /\ r.pane \in ps /\ content[r.pane].mode = "text" /\ content[r.pane].doc = r.doc
  <2>1. PICK p \in ps : /\ r = [pane |-> p, doc |-> content[p].doc, live |-> TRUE, by |-> by]
                        /\ content[p].mode = "text"
    BY DEF TextFor
  <2>2. r.pane = p /\ r.doc = content[p].doc
    BY <2>1
  <2>3. QED
    BY <1>1, <2>1, <2>2
<1>3. ASSUME NEW p \in ps, content[p].mode = "text"
      PROVE  \E r \in TextFor(content, ps, by) : r.pane = p /\ r.live
  <2> DEFINE r == [pane |-> p, doc |-> content[p].doc, live |-> TRUE, by |-> by]
  <2>1. r \in TextFor(content, ps, by)
    BY <1>3 DEF TextFor
  <2>2. QED
    BY <2>1
<1>4. QED
  BY <1>2, <1>3

\* The script of the tab asks for all texts that are missing.
LEMMA AskingKeepsPanes ==
    ASSUME ComparisonInv, NEW ps \in SUBSET Panes, Runs(Asks),
           textReqs' = textReqs \union TextFor(pane, ps, Head(scripts).by),
           \A p \in Panes \ ps : pane[p].mode # "text",
           UNCHANGED <<members, cached, shown, pane, loads>>
    PROVE  ComparisonInv'
<1> DEFINE new == TextFor(pane, ps, Head(scripts).by)
<1>1. Head(scripts).by \in 0..MaxLoads /\ scripts' \in Seq(Scripts) /\ pane \in [Panes -> PaneStates]
  BY ScriptHasRun, ComparisonAssumption DEF Runs, Scripts, ComparisonInv, PanesInv
<1>2. \A r \in new : r \in Requests /\ r.pane \in Panes /\ pane[r.pane].mode = "text" /\ pane[r.pane].doc = r.doc
  BY <1>1, TextsAskedFor
<1>3. \A p \in Panes : pane[p].mode = "text" => \E r \in textReqs' : r.pane = p /\ r.live
  BY <1>1, TextsAskedFor
<1>4. RequestsInv'
  <2>1. textReqs' = textReqs \union new /\ pane' = pane
    OBVIOUS
  <2> HIDE DEF new
  <2>2. textReqs' \subseteq Requests
    BY <1>2, <2>1 DEF ComparisonInv, RequestsInv
  <2>3. QED
    BY <1>2, <2>1, <2>2 DEF ComparisonInv, RequestsInv, Requests
<1>5. PanesInv'
  BY DEF ComparisonInv, PanesInv, PdfMode
<1>6. WaitsInv'
  BY <1>1, <1>3 DEF ComparisonInv, WaitsInv, Asks, Scripts
<1>7. QED
  BY <1>4, <1>5, <1>6 DEF ComparisonInv

LEMMA ScriptsKeepPanes ==
    ASSUME ComparisonInv, RunOriginalPdfs \/ RunOriginalPdfsSingle \/ RunComparison
    PROVE  ComparisonInv'
<1>1. UNCHANGED <<members, cached, shown, pane, loads>>
  BY DEF RunOriginalPdfs, RunOriginalPdfsSingle, RunComparison, groupVars, viewVars, paneVars
<1>2. ~shown => \A p \in Panes : pane[p].mode # "text"
  BY DEF ComparisonInv, PanesInv, NoPane
<1>3. CASE RunOriginalPdfs
  <2>1. Asks = "original-pdfs"
    BY <1>3, ScriptHasRun DEF RunOriginalPdfs, Runs, Scripts, Asks
  <2>2. \A p \in Panes \ {q \in Panes : shown} : pane[p].mode # "text"
    BY <1>2
  <2>3. QED
    BY <1>1, <1>3, <2>1, <2>2, AskingKeepsPanes DEF RunOriginalPdfs
<1>4. CASE RunOriginalPdfsSingle
  <2>1. Asks = "original-pdfs-single" /\ Len(members) = 1
    BY <1>4, ScriptHasRun DEF RunOriginalPdfsSingle, Runs, Scripts, Asks
  <2>2. \A p \in Panes \ {q \in {"primary"} : shown} : pane[p].mode # "text"
    BY <1>2, <2>1 DEF ComparisonInv, PanesInv, NoPane, Panes
  <2>3. {q \in {"primary"} : shown} \in SUBSET Panes
    BY DEF Panes
  <2>4. QED
    BY <1>1, <1>4, <2>1, <2>2, <2>3, AskingKeepsPanes DEF RunOriginalPdfsSingle
<1>5. CASE RunComparison
  <2>1. UNCHANGED textReqs /\ Runs("comparison")
    BY <1>5 DEF RunComparison, paneVars
  <2>2. /\ scripts' \in Seq(Scripts) /\ Asks # "comparison"
        /\ \A i \in 1..Len(scripts) : scripts[i].name = Asks => \E j \in 1..Len(scripts') : scripts'[j].name = Asks
    <3>1. /\ scripts' \in Seq(Scripts)
          /\ \A i \in 1..Len(scripts) : scripts[i].name # "comparison" =>
                \E j \in 1..Len(scripts') : scripts'[j] = scripts[i]
      BY <2>1, ScriptHasRun DEF Runs
    <3>2. Asks # "comparison"
      BY DEF Asks
    <3>3. QED
      BY <3>1, <3>2
  <2>3. WaitsInv'
    BY <1>1, <2>1, <2>2 DEF ComparisonInv, WaitsInv, Asks, Scripts
  <2>4. PanesInv' /\ RequestsInv'
    BY <1>1, <2>1 DEF ComparisonInv, PanesInv, RequestsInv, PdfMode
  <2>5. QED
    BY <2>3, <2>4 DEF ComparisonInv
<1>6. QED
  BY <1>3, <1>4, <1>5

\* A new donor: the panes that are replaced ask again, the other one keeps what
\* it shows or waits for.
LEMMA DonorKeepsPanes ==
    ASSUME ComparisonInv, NEW d \in Docs, ChooseDonor(d)
    PROVE  ComparisonInv'
<1>1. /\ UNCHANGED <<members, cached, shown, scripts, loads>> /\ shown /\ Len(members) > 1
  BY DEF ChooseDonor, groupVars, scriptVars
<1>2. CASE ~updateReady
  <2>1. UNCHANGED <<pane, textReqs>>
    BY <1>2 DEF ChooseDonor, paneVars
  <2>2. QED
    BY <1>1, <2>1, IdleKeeps DEF Idle
<1>3. CASE UpdateDonor(d)
  <2> DEFINE pdf == PdfMode(d)
             mode == IF pdf THEN "pdf" ELSE "text"
             gone == Replaced(d)
             primary == IF "primary" \in gone THEN NewPane(members[1], pdf) ELSE pane["primary"]
             new == [p \in Panes |-> IF p = "donor" THEN NewPane(d, pdf)
                                     ELSE IF p \in gone THEN NewPane(members[1], pdf) ELSE pane[p]]
  <2>1. pane' = new /\ textReqs' = Orphaned(textReqs, gone) \union TextFor(new, gone, 0)
    BY <1>3 DEF UpdateDonor
  <2>2. /\ gone \in SUBSET Panes /\ "donor" \in gone
        /\ "primary" \notin gone => pane["primary"].mode = mode
    BY DEF Replaced, Panes
  <2>3. pdf \in BOOLEAN
    BY DEF PdfMode
  <2>4. /\ new["donor"] = NewPane(d, pdf) /\ new["primary"] = primary
        /\ DOMAIN new = Panes /\ new = [p \in Panes |-> new[p]]
    BY DEF Panes
  <2>5. /\ members[1] \in Docs /\ pane["primary"].doc = members[1] /\ pane["primary"] \in PaneStates
        /\ pane["primary"].mode = "text" => pane["primary"].text \in {pane["primary"].doc, Loading, Failed}
        /\ members \in Seq(Docs) \ {<<>>}
    BY <1>1 DEF ComparisonInv, PanesInv, Panes
  <2> HIDE DEF new, gone
  <2>6. /\ new["donor"] \in PaneStates /\ new["primary"] \in PaneStates
        /\ new["donor"].doc = d /\ new["primary"].doc = members[1]
        /\ new["donor"].mode = mode /\ new["primary"].mode = mode
        /\ ~pdf => new["donor"].text = Loading
        /\ ~pdf /\ "primary" \in gone => new["primary"].text = Loading
        /\ "primary" \notin gone => new["primary"] = pane["primary"]
    <3> HIDE DEF pdf
    <3>1. QED
      BY <2>2, <2>3, <2>4, <2>5, NewPanes
  <2>7. new \in [Panes -> PaneStates]
    BY <2>4, <2>6 DEF Panes
  <2>8. PanesInv'
    <3>1. PdfMode(pane["donor"].doc)' <=> pdf
      BY <1>1, <2>1, <2>6 DEF PdfMode
    <3>2. \A p \in Panes : new[p].mode = mode /\ (new[p].mode = "text" => new[p].text \in {new[p].doc, Loading, Failed})
      BY <2>5, <2>6 DEF Panes
    <3> HIDE DEF pdf
    <3>3. /\ pane' \in [Panes -> PaneStates] /\ pane'["primary"].doc = members'[1] /\ pane'["primary"].mode # "none"
          /\ pane'["donor"].doc \in Docs
          /\ \A p \in Panes : pane'[p].mode = IF pdf THEN "pdf" ELSE "text"
          /\ \A p \in Panes : pane'[p].mode = "text" => pane'[p].text \in {pane'[p].doc, Loading, Failed}
      BY <1>1, <2>1, <2>6, <2>7, <3>2
    <3>4. shown' /\ Len(members') # 1 /\ members' \in Seq(Docs) \ {<<>>}
      <4>1. Len(members) # 1
        <5>1. Len(members) \in Nat /\ Len(members) > 1
          BY <1>1, <2>5, LenProperties
        <5>2. \A n \in Nat : n > 1 => n # 1
          OBVIOUS
        <5>3. QED
          BY <5>1, <5>2
      <4>2. QED
        BY <1>1, <2>5, <4>1
    <3>5. QED
      BY <2>3, <3>1, <3>3, <3>4 DEF PanesInv
  <2>9. /\ textReqs \in SUBSET Requests /\ 0 \in 0..MaxLoads
        /\ \A r \in textReqs : r.live => /\ r.pane \in Panes /\ pane[r.pane].mode = "text"
                                         /\ pane[r.pane].doc = r.doc
    BY ComparisonAssumption DEF ComparisonInv, RequestsInv
  <2>10. \A p \in Panes : p \notin gone => p = "primary" /\ new[p] = pane[p]
    BY <2>2, <2>6 DEF Panes
  <2>11. RequestsInv'
    <3>1. \A o \in Orphaned(textReqs, gone) :
             o \in Requests /\ (o.live => o.pane \in Panes /\ new[o.pane].mode = "text" /\ new[o.pane].doc = o.doc)
      BY <2>9, <2>10, Orphans
    <3>2. \A r \in TextFor(new, gone, 0) :
             r \in Requests /\ r.pane \in Panes /\ new[r.pane].mode = "text" /\ new[r.pane].doc = r.doc
      BY <2>2, <2>7, <2>9, TextsAskedFor
    <3>3. textReqs' \subseteq Requests
      BY <2>1, <3>1, <3>2
    <3>4. QED
      BY <2>1, <3>1, <3>2, <3>3 DEF RequestsInv, Requests
  <2>12. WaitsInv'
    <3>1. ASSUME NEW p \in Panes, new[p].mode = "text", new[p].text = Loading
          PROVE  \/ \E r \in textReqs' : r.pane = p /\ r.live
                 \/ \E i \in 1..Len(scripts) : scripts[i].name = Asks
      <4>1. CASE p \in gone
        BY <2>1, <2>2, <2>7, <2>9, <3>1, <4>1, TextsAskedFor
      <4>2. CASE p \notin gone
        <5>1. pane[p].mode = "text" /\ pane[p].text = Loading
          BY <2>10, <3>1, <4>2
        <5>2. CASE \E r \in textReqs : r.pane = p /\ r.live
          BY <2>1, <2>9, <4>2, <5>2, Orphans
        <5>3. QED
          BY <5>1, <5>2 DEF ComparisonInv, WaitsInv
      <4>3. QED
        BY <4>1, <4>2
    <3>2. Asks' = Asks /\ Scripts' = Scripts
      BY <1>1 DEF Asks, Scripts
    <3>3. QED
      BY <1>1, <2>1, <3>1, <3>2 DEF ComparisonInv, WaitsInv
  <2>13. QED
    BY <2>8, <2>11, <2>12 DEF ComparisonInv
<1>4. QED
  BY <1>2, <1>3 DEF ChooseDonor

LEMMA ComparisonInductive ==
    /\ RecoveryInit => ComparisonInv
    /\ ComparisonInv /\ [RecoveryNext]_recoveryVars => ComparisonInv'
<1>1. ASSUME RecoveryInit PROVE ComparisonInv
  <2>1. /\ members \in Seq(Docs) \ {<<>>} /\ ~shown /\ pane = [p \in Panes |-> NoPane]
        /\ textReqs = {} /\ loads = 0 /\ scripts = <<>> /\ MaxLoads \in Nat
    BY <1>1, ComparisonAssumption DEF RecoveryInit, ComparisonInit
  <2>2. NoPane \in PaneStates /\ NoPane.mode = "none"
    BY DEF NoPane, PaneStates
  <2>3. scripts \in Seq(Scripts)
    BY <2>1
  <2>4. QED
    BY <2>1, <2>2, <2>3 DEF ComparisonInv, PanesInv, RequestsInv, WaitsInv
<1>2. ASSUME ComparisonInv, [RecoveryNext]_recoveryVars PROVE ComparisonInv'
  <2>1. ASSUME NEW t \in Tabs, SwapTab(t) PROVE ComparisonInv'
    BY <1>2, <2>1, LoadKeepsPanes, LeaveKeepsPanes DEF SwapTab
  <2>2. CASE OnComparison(ComparisonStep /\ UNCHANGED recoveryEvents)
    <3>1. CASE \E r \in textReqs : AnswerText(r)
      BY <1>2, <3>1, AnswerKeepsPanes
    <3>2. CASE RunOriginalPdfs \/ RunOriginalPdfsSingle \/ RunComparison
      BY <1>2, <3>2, ScriptsKeepPanes
    <3>3. CASE (\E p \in Panes : FrameLoads(p)) \/ (\E i \in 1..MaxLoads : TimerFires(i))
      <4>1. Idle
        BY <3>3 DEF FrameLoads, TimerFires, groupVars, viewVars, paneVars, scriptVars, Idle
      <4>2. QED
        BY <1>2, <4>1, IdleKeeps
    <3>4. QED
      BY <2>2, <3>1, <3>2, <3>3 DEF OnComparison, ComparisonStep
  <2>3. ASSUME NEW d \in Docs, OnComparison(UserActs /\ ChooseDonor(d)) PROVE ComparisonInv'
    BY <1>2, <2>3, DonorKeepsPanes DEF OnComparison
  <2>4. CASE \/ SwapStatus \/ OnComparison(UserActs /\ ToggleComparison) \/ UNCHANGED comparisonVars
    <3>1. Idle
      BY <2>4 DEF SwapStatus, SwapElsewhere, OnComparison, ToggleComparison, comparisonVars,
                  groupVars, viewVars, paneVars, scriptVars, Idle
    <3>2. QED
      BY <1>2, <3>1, IdleKeeps
  <2>5. ASSUME \A t \in Tabs : ~SwapTab(t), ~SwapStatus, ~OnComparison(UserActs /\ ToggleComparison),
               ~OnComparison(ComparisonStep /\ UNCHANGED recoveryEvents),
               \A d \in Docs : ~OnComparison(UserActs /\ ChooseDonor(d))
        PROVE  UNCHANGED comparisonVars
    BY <1>2, <2>5 DEF RecoveryNext, KeyJ, KeyK, NextButton, PrevButton, Escape, CloseButton, CloseSourcePanel,
                      ScrollToSegment, ScrollTo, ClickPassage, AnswerSource, ClickTab, TabFails, recoveryVars
  <2>6. QED
    BY <2>1, <2>2, <2>3, <2>4, <2>5
<1>3. QED
  BY <1>1, <1>2

\* Two panes are both PDF or both text, a text pane shows its own member, and no
\* pane stays at "Loading..." with nothing on the way, whatever the order of
\* loads, scripts, answers and changes of the donor.
THEOREM PanesStayAlike == RecoverySpec => []PanesAgree
<1>1. ASSUME ComparisonInv, shown PROVE PanesAgree
  <2>1. ASSUME NEW p \in Panes, pane[p].mode = "text", pane[p].text = Loading, scripts = <<>>
        PROVE  \E r \in textReqs : r.pane = p /\ r.live
    BY <1>1, <2>1 DEF ComparisonInv, WaitsInv
  <2>2. QED
    BY <1>1, <2>1 DEF PanesAgree, ComparisonInv, PanesInv
<1>2. ComparisonInv => PanesAgree
  BY <1>1 DEF PanesAgree
<1>3. QED
  BY <1>2, ComparisonInductive, PTL DEF RecoverySpec

-----------------------------------------------------------------------------
(* The types of the page, and the scripts and listeners of its last tab.   *)

\* The steps of the Original Documents tab.
LEMMA ComparisonSteps ==
    ASSUME [RecoveryNext]_recoveryVars
    PROVE  \/ LoadTab \/ LeaveTab
           \/ RunOriginalPdfs \/ RunOriginalPdfsSingle \/ RunComparison
           \/ \E r \in textReqs : AnswerText(r)
           \/ \E p \in Panes : FrameLoads(p)
           \/ \E i \in 1..MaxLoads : TimerFires(i)
           \/ SwapElsewhere \/ ToggleComparison
           \/ \E d \in Docs : ChooseDonor(d)
           \/ UNCHANGED comparisonVars
<1>1. ASSUME NEW t \in Tabs, SwapTab(t) PROVE LoadTab \/ LeaveTab
  BY <1>1 DEF SwapTab
<1>2. SwapStatus => SwapElsewhere
  BY DEF SwapStatus
<1>3. CASE \/ KeyJ \/ KeyK \/ NextButton \/ PrevButton \/ Escape \/ CloseButton
           \/ \E n \in 1..Passages : ScrollToSegment(n) \/ ClickPassage(n) \/ AnswerSource(n)
           \/ \E t \in Tabs : ClickTab(t) \/ TabFails(t)
           \/ UNCHANGED recoveryVars
  BY <1>3 DEF KeyJ, KeyK, NextButton, PrevButton, Escape, CloseButton, CloseSourcePanel,
              ScrollToSegment, ScrollTo, ClickPassage, AnswerSource, ClickTab, TabFails, recoveryVars
<1>. QED
  BY <1>1, <1>2, <1>3 DEF RecoveryNext, OnComparison, ComparisonStep

\* Every request that is still in flight was sent by this step, or was in
\* flight before it.
LEMMA RequestsComeFrom ==
    ASSUME ComparisonInv, [RecoveryNext]_recoveryVars
    PROVE  \A r \in textReqs' : r.live \/ \E q \in textReqs : q.doc = r.doc
<1>1. ASSUME NEW gone, NEW r \in Orphaned(textReqs, gone)
      PROVE  \E q \in textReqs : q.doc = r.doc
  BY Orphans DEF ComparisonInv, RequestsInv
<1>2. ASSUME NEW content, NEW ps, NEW by, NEW r \in TextFor(content, ps, by)
      PROVE  r.live
  BY DEF TextFor
<1>3. CASE LoadTab \/ LeaveTab
  BY <1>1, <1>3 DEF LoadTab, LeaveTab
<1>4. CASE RunOriginalPdfs \/ RunOriginalPdfsSingle
  BY <1>2, <1>4 DEF RunOriginalPdfs, RunOriginalPdfsSingle
<1>5. CASE (\E r \in textReqs : AnswerText(r)) \/ RunComparison
  BY <1>5 DEF AnswerText, RunComparison, paneVars
<1>6. CASE \/ \E p \in Panes : FrameLoads(p)
           \/ \E i \in 1..MaxLoads : TimerFires(i)
           \/ SwapElsewhere \/ ToggleComparison \/ UNCHANGED comparisonVars
  BY <1>6 DEF FrameLoads, TimerFires, SwapElsewhere, ToggleComparison, comparisonVars, paneVars
<1>7. ASSUME NEW d \in Docs, ChooseDonor(d)
      PROVE  \A r \in textReqs' : r.live \/ \E q \in textReqs : q.doc = r.doc
  <2>1. CASE UpdateDonor(d)
    <3>1. \A r \in textReqs' : \/ r \in Orphaned(textReqs, Replaced(d))
                               \/ \E content, ps, by : r \in TextFor(content, ps, by)
      BY <2>1 DEF UpdateDonor
    <3>. QED
      BY <1>1, <1>2, <3>1
  <2>2. CASE UNCHANGED paneVars
    BY <2>2 DEF paneVars
  <2>. QED
    BY <1>7, <2>1, <2>2 DEF ChooseDonor
<1>. QED
  BY <1>3, <1>4, <1>5, <1>6, <1>7, ComparisonSteps

\* What the tab shows, without its panes.
ViewInv ==
    /\ members \in Groups /\ cached \subseteq Docs
    /\ shown \in BOOLEAN /\ singleView \in BOOLEAN /\ selected \in Docs \union {NoDoc}
    /\ loaded \subseteq Panes /\ updateReady \in BOOLEAN
    /\ \A r \in textReqs : r.doc \in Docs

LEMMA FirstMember == ASSUME members \in Groups PROVE members[1] \in Docs
<1>1. members \in Seq(Docs) /\ members # <<>>
  BY ComparisonAssumption
<1>. QED
  BY <1>1

LEMMA ViewInductive ==
    /\ RecoveryInit => ViewInv
    /\ ViewInv /\ ComparisonInv /\ ComparisonInv' /\ [RecoveryNext]_recoveryVars => ViewInv'
<1>1. ASSUME RecoveryInit PROVE ViewInv
  <2>1. members \in Groups /\ cached \subseteq {members[i] : i \in DOMAIN members}
        /\ members \in Seq(Docs)
    BY <1>1, ComparisonAssumption DEF RecoveryInit, ComparisonInit
  <2>2. cached \subseteq Docs
    BY <2>1
  <2>. QED
    BY <1>1, <2>1, <2>2 DEF RecoveryInit, ComparisonInit, ViewInv
<1>2. ASSUME ViewInv, ComparisonInv, ComparisonInv', [RecoveryNext]_recoveryVars PROVE ViewInv'
  <2>1. \A r \in textReqs' : r.doc \in Docs
    <3>1. ASSUME NEW r \in textReqs', r.live
          PROVE  r.doc \in Docs
      <4>1. r.pane \in Panes /\ pane'[r.pane].mode = "text" /\ pane'[r.pane].doc = r.doc /\ shown'
            /\ members' \in Seq(Docs) \ {<<>>}
        BY <1>2, <3>1 DEF ComparisonInv, RequestsInv, PanesInv, NoPane
      <4>2. r.pane = "donor" => Len(members') # 1
        BY <1>2, <4>1 DEF ComparisonInv, PanesInv, NoPane
      <4>3. members'[1] \in Docs
        BY <4>1
      <4>. QED
        BY <1>2, <4>1, <4>2, <4>3 DEF ComparisonInv, PanesInv, Panes
    <3>. QED
      BY <1>2, <3>1, RequestsComeFrom DEF ViewInv
  <2>2. members[1] \in Docs
    BY <1>2, FirstMember DEF ViewInv
  <2>3. UNCHANGED <<members, cached>>
    BY <1>2, ComparisonSteps DEF LoadTab, LeaveTab, RunOriginalPdfs, RunOriginalPdfsSingle, RunComparison,
       AnswerText, FrameLoads, TimerFires, SwapElsewhere, ToggleComparison, ChooseDonor,
       comparisonVars, groupVars
  <2>4. shown' \in BOOLEAN /\ singleView' \in BOOLEAN /\ selected' \in Docs \union {NoDoc}
    <3>1. CASE LoadTab \/ LeaveTab
      BY <2>2, <3>1 DEF LoadTab, LeaveTab
    <3>2. CASE UNCHANGED viewVars
      BY <1>2, <3>2 DEF ViewInv, viewVars
    <3>3. CASE ToggleComparison
      BY <1>2, <3>3 DEF ViewInv, ToggleComparison
    <3>4. ASSUME NEW d \in Docs, ChooseDonor(d)
          PROVE  shown' \in BOOLEAN /\ singleView' \in BOOLEAN /\ selected' \in Docs \union {NoDoc}
      BY <1>2, <3>4 DEF ViewInv, ChooseDonor
    <3>. QED
      BY <1>2, <3>1, <3>2, <3>3, <3>4, ComparisonSteps DEF RunOriginalPdfs, RunOriginalPdfsSingle,
         RunComparison, AnswerText, FrameLoads, TimerFires, SwapElsewhere, comparisonVars
  <2>5. loaded' \subseteq Panes
    <3>1. CASE LoadTab \/ LeaveTab \/ \E p \in Panes : FrameLoads(p)
      BY <1>2, <3>1 DEF ViewInv, LoadTab, LeaveTab, FrameLoads
    <3>2. CASE loaded' \subseteq loaded
      BY <1>2, <3>2 DEF ViewInv
    <3>3. ASSUME NEW d \in Docs, ChooseDonor(d)
          PROVE  loaded' \subseteq loaded
      BY <3>3 DEF ChooseDonor, UpdateDonor, paneVars
    <3>. QED
      BY <1>2, <3>1, <3>2, <3>3, ComparisonSteps DEF RunOriginalPdfs, RunOriginalPdfsSingle,
         RunComparison, AnswerText, TimerFires, SwapElsewhere, ToggleComparison, comparisonVars, paneVars
  <2>6. updateReady' \in BOOLEAN
    <3>1. CASE RunOriginalPdfs
      BY <1>2, <3>1 DEF ViewInv, RunOriginalPdfs
    <3>2. CASE updateReady' = updateReady
      BY <1>2, <3>2 DEF ViewInv
    <3>. QED
      BY <1>2, <3>1, <3>2, ComparisonSteps DEF LoadTab, LeaveTab, RunOriginalPdfsSingle, RunComparison,
       AnswerText, FrameLoads, TimerFires, SwapElsewhere, ToggleComparison, ChooseDonor,
       comparisonVars, scriptVars
  <2>. QED
    BY <1>2, <2>1, <2>3, <2>4, <2>5, <2>6 DEF ViewInv
<1>. QED
  BY <1>1, <1>2

-----------------------------------------------------------------------------
(* The instances of comparison.js and their listeners.                     *)

\* An instance comes from a load of the tab, and the scripts that have not run
\* come from later loads than the last instance, each from another one.
RunsInv ==
    /\ instances \in 0..loads
    /\ \A i \in 1..Len(scripts) :
          /\ scripts[i].by <= loads
          /\ scripts[i].name = "comparison" => instances < scripts[i].by
    /\ \A i, j \in 1..Len(scripts) :
          i < j /\ scripts[i].name = "comparison" /\ scripts[j].name = "comparison"
             => scripts[i].by < scripts[j].by
    /\ timers \in [1..MaxLoads -> Nat]
    /\ wanted \/ (\E i \in 1..MaxLoads : timers[i] > 0) => instances > 0

\* What the code of the page can rely on of the scripts that have not run.
LEMMA ScriptTypes ==
    ASSUME ComparisonInv
    PROVE  /\ scripts \in Seq(Scripts) /\ Len(scripts) \in Nat
           /\ loads \in 0..MaxLoads /\ MaxLoads \in Nat
           /\ \A i \in 1..Len(scripts) : scripts[i].by \in 1..MaxLoads
<1>1. scripts \in Seq(Scripts) /\ loads \in 0..MaxLoads /\ MaxLoads \in Nat
  BY ComparisonAssumption DEF ComparisonInv, WaitsInv
<1>2. \A s \in Scripts : s.by \in 1..MaxLoads
  BY DEF Scripts
<1>. QED
  BY <1>1, <1>2

LEMMA LoadingKeepsRuns ==
    ASSUME ComparisonInv, RunsInv, LoadTab
    PROVE  RunsInv'
<1> DEFINE new == IF Len(members) > 1 THEN <<Script("original-pdfs"), Script("comparison")>>
                                      ELSE <<Script("original-pdfs-single")>>
<1>1. /\ scripts \in Seq(Scripts) /\ loads \in Nat /\ instances \in Nat /\ instances <= loads
  BY ScriptTypes DEF RunsInv
<1>2. /\ timers' = timers /\ loads' = loads + 1 /\ instances' = instances /\ scripts' = scripts \o new
      /\ wanted' = (instances > 0)
  BY DEF LoadTab
<1> DEFINE later == [name : {"original-pdfs", "comparison", "original-pdfs-single"}, by : Nat]
<1>3. /\ new \in Seq(later) /\ Len(new) \in {1, 2}
      /\ \A i \in 1..Len(new) : new[i].by = loads + 1 /\ (new[i].name = "comparison" => i = 2)
  <2>2. ASSUME NEW a \in later, NEW b \in later
        PROVE  /\ <<a>> \in Seq(later) /\ Len(<<a>>) = 1 /\ <<a>>[1] = a
               /\ <<a, b>> \in Seq(later) /\ Len(<<a, b>>) = 2 /\ <<a, b>>[1] = a /\ <<a, b>>[2] = b
    OBVIOUS
  <2>3. "original-pdfs" # "comparison" /\ "original-pdfs-single" # "comparison"
    OBVIOUS
  <2>4. CASE Len(members) > 1
    <3> DEFINE a == Script("original-pdfs")  b == Script("comparison")
    <3>1. new = <<a, b>>
      BY <2>4
    <3>2. /\ a \in later /\ b \in later /\ a.by = loads + 1 /\ b.by = loads + 1
          /\ a.name = "original-pdfs" /\ b.name = "comparison"
      BY <1>1 DEF Script
    <3> HIDE DEF a, b, new
    <3>3. /\ new \in Seq(later) /\ Len(new) = 2 /\ new[1] = a /\ new[2] = b
      BY <2>2, <3>1, <3>2
    <3>. QED
      BY <2>3, <3>2, <3>3
  <2>5. CASE ~(Len(members) > 1)
    <3> DEFINE a == Script("original-pdfs-single")
    <3>1. new = <<a>>
      BY <2>5
    <3>2. a \in later /\ a.by = loads + 1 /\ a.name = "original-pdfs-single"
      BY <1>1 DEF Script
    <3> HIDE DEF a, new
    <3>3. new \in Seq(later) /\ Len(new) = 1 /\ new[1] = a
      BY <2>2, <3>1, <3>2
    <3>. QED
      BY <2>3, <3>2, <3>3
  <2>. QED
    BY <2>4, <2>5
<1> HIDE DEF new, later
<1> DEFINE n == Len(scripts)
<1>4. /\ n \in Nat /\ Len(new) \in Nat /\ Len(scripts') = n + Len(new)
      /\ \A i \in 1..Len(scripts') : scripts'[i] = IF i <= n THEN scripts[i] ELSE new[i - n]
  BY <1>1, <1>2, <1>3
<1>5. ASSUME NEW i \in 1..Len(scripts')
      PROVE  \/ i \in 1..n /\ scripts'[i] = scripts[i]
             \/ /\ i > n /\ scripts'[i].by = loads + 1
                /\ scripts'[i].name = "comparison" => i = n + 2
  <2>1. CASE i <= n
    BY <1>4, <2>1
  <2>2. CASE i > n
    <3>1. i - n \in 1..Len(new)
      BY <1>4, <2>2
    <3>2. scripts'[i] = new[i - n]
      BY <1>4, <2>2
    <3>. QED
      BY <1>3, <1>4, <2>2, <3>1, <3>2
  <2>. QED
    BY <1>4, <2>1, <2>2
<1> HIDE DEF n
<1>6. \A i \in 1..n : scripts[i].by \in Nat /\ scripts[i].by <= loads
  BY ScriptTypes DEF RunsInv, n
<1>7. ASSUME NEW i \in 1..Len(scripts')
      PROVE  /\ scripts'[i].by <= loads'
             /\ scripts'[i].name = "comparison" => instances' < scripts'[i].by
  BY <1>1, <1>2, <1>5, <1>6 DEF RunsInv, n
<1>8. ASSUME NEW i \in 1..Len(scripts'), NEW j \in 1..Len(scripts'), i < j,
             scripts'[i].name = "comparison", scripts'[j].name = "comparison"
      PROVE  scripts'[i].by < scripts'[j].by
  <2>1. CASE j <= n
    <3>1. i \in 1..n /\ j \in 1..n /\ scripts'[i] = scripts[i] /\ scripts'[j] = scripts[j]
      BY <1>4, <1>5, <1>8, <2>1
    <3>. QED
      BY <1>8, <3>1 DEF RunsInv, n
  <2>2. CASE j > n
    <3>1. j = n + 2 /\ scripts'[j].by = loads + 1
      BY <1>4, <1>5, <1>8, <2>2
    <3>2. i \in 1..n /\ scripts'[i] = scripts[i]
      BY <1>4, <1>5, <1>8, <3>1
    <3>. QED
      BY <1>1, <1>6, <3>1, <3>2
  <2>. QED
    BY <1>4, <2>1, <2>2
<1>9. instances' \in 0..loads'
  BY <1>1, <1>2
<1>10. timers' \in [1..MaxLoads -> Nat] /\ (wanted' \/ (\E i \in 1..MaxLoads : timers'[i] > 0) => instances' > 0)
  BY <1>2 DEF RunsInv
<1>. QED
  BY <1>7, <1>8, <1>9, <1>10 DEF RunsInv

LEMMA RunningKeepsRuns ==
    ASSUME ComparisonInv, RunsInv, scripts # <<>>, scripts' = Tail(scripts), UNCHANGED <<loads, wanted, timers>>,
           IF Head(scripts).name = "comparison" THEN instances' = instances + 1 ELSE instances' = instances
    PROVE  RunsInv'
<1>1. scripts \in Seq(Scripts) /\ loads \in Nat /\ instances \in Nat /\ instances <= loads
  BY ScriptTypes DEF RunsInv
<1>2. /\ Len(scripts) \in Nat /\ 1 \in 1..Len(scripts) /\ Head(scripts) = scripts[1]
      /\ \A i \in 1..Len(scripts') : i + 1 \in 1..Len(scripts) /\ scripts'[i] = scripts[i + 1]
      /\ Len(scripts') \in Nat
  BY <1>1
<1>3. \A i \in 1..Len(scripts) : scripts[i].by \in Nat /\ scripts[i].by <= loads
  BY ScriptTypes DEF RunsInv
<1>4. instances' \in 0..loads
  BY <1>1, <1>2, <1>3 DEF RunsInv
<1>5. ASSUME NEW i \in 1..Len(scripts')
      PROVE  /\ scripts'[i].by <= loads'
             /\ scripts'[i].name = "comparison" => instances' < scripts'[i].by
  <2>1. i + 1 \in 1..Len(scripts) /\ scripts'[i] = scripts[i + 1] /\ 1 < i + 1
    BY <1>2
  <2>2. scripts[i + 1].by \in Nat /\ scripts[1].by \in Nat
    BY <1>2, <1>3, <2>1
  <2>3. CASE Head(scripts).name = "comparison"
    <3>1. scripts'[i].name = "comparison" => instances < scripts[1].by /\ scripts[1].by < scripts[i + 1].by
      BY <1>2, <2>1, <2>3 DEF RunsInv
    <3>. QED
      BY <1>1, <1>3, <2>1, <2>2, <2>3, <3>1
  <2>4. CASE Head(scripts).name # "comparison"
    BY <1>1, <2>1, <2>4 DEF RunsInv
  <2>. QED
    BY <2>3, <2>4
<1>6. ASSUME NEW i \in 1..Len(scripts'), NEW j \in 1..Len(scripts'), i < j,
             scripts'[i].name = "comparison", scripts'[j].name = "comparison"
      PROVE  scripts'[i].by < scripts'[j].by
  BY <1>2, <1>6 DEF RunsInv
<1>7. timers' \in [1..MaxLoads -> Nat] /\ (wanted' \/ (\E i \in 1..MaxLoads : timers'[i] > 0) => instances' > 0)
  BY <1>1 DEF RunsInv
<1>. QED
  BY <1>4, <1>5, <1>6, <1>7 DEF RunsInv

LEMMA RunsInductive ==
    /\ RecoveryInit => RunsInv
    /\ ComparisonInv /\ RunsInv /\ [RecoveryNext]_recoveryVars => RunsInv'
<1>1. RecoveryInit => RunsInv
  BY DEF RecoveryInit, ComparisonInit, RunsInv
<1>2. ASSUME ComparisonInv, RunsInv, [RecoveryNext]_recoveryVars PROVE RunsInv'
  <2>1. instances \in Nat
    BY <1>2, ScriptTypes DEF RunsInv
  <2>2. CASE UNCHANGED <<instances, scripts, loads, timers>> /\ (wanted' => wanted \/ instances > 0)
    BY <1>2, <2>2 DEF RunsInv
  <2>3. CASE RunOriginalPdfs \/ RunOriginalPdfsSingle
    BY <1>2, <2>3, RunningKeepsRuns DEF RunOriginalPdfs, RunOriginalPdfsSingle, Runs, syncVars
  <2>4. CASE RunComparison
    BY <1>2, <2>4, RunningKeepsRuns DEF RunComparison, Runs
  <2>5. CASE LeaveTab \/ (\E r \in textReqs : AnswerText(r)) \/ (\E p \in Panes : FrameLoads(p))
             \/ ToggleComparison \/ UNCHANGED comparisonVars
    BY <1>2, <2>2, <2>5 DEF LeaveTab, AnswerText, FrameLoads, ToggleComparison, comparisonVars,
       scriptVars, syncVars
  <2>6. ASSUME NEW i \in 1..MaxLoads, TimerFires(i) PROVE RunsInv'
    <3>1. timers[i] > 0 /\ timers' = [timers EXCEPT ![i] = @ - 1] /\ UNCHANGED <<instances, scripts, loads>>
      BY <2>6 DEF TimerFires, scriptVars
    <3>2. timers' \in [1..MaxLoads -> Nat] /\ instances > 0
      BY <1>2, <3>1 DEF RunsInv
    <3>. QED
      BY <1>2, <3>1, <3>2 DEF RunsInv
  <2>7. CASE SwapElsewhere
    <3>1. wanted' => wanted \/ 1..instances # {}
      BY <2>7 DEF SwapElsewhere, SetUpBy
    <3>. QED
      BY <2>1, <2>2, <2>7, <3>1 DEF SwapElsewhere, scriptVars
  <2>8. ASSUME NEW d \in Docs, ChooseDonor(d) PROVE RunsInv'
    <3>1. UNCHANGED <<instances, scripts, loads>>
      BY <2>8 DEF ChooseDonor, scriptVars
    <3>2. CASE UNCHANGED <<timers, wanted>>
      BY <2>2, <3>1, <3>2
    <3>3. CASE UpdateDonor(d) /\ instances > 0
      <4>1. timers' = [timers EXCEPT ![instances] = @ + 1] /\ instances \in 1..MaxLoads
        BY <1>2, <2>1, <3>3, ScriptTypes DEF UpdateDonor, RunsInv
      <4>2. timers' \in [1..MaxLoads -> Nat]
        BY <1>2, <4>1 DEF RunsInv
      <4>. QED
        BY <1>2, <3>1, <3>3, <4>2 DEF RunsInv
    <3>4. CASE UpdateDonor(d) /\ ~(instances > 0)
      BY <2>2, <3>1, <3>4 DEF UpdateDonor
    <3>. QED
      BY <2>8, <3>2, <3>3, <3>4 DEF ChooseDonor
  <2>. QED
    BY <1>2, <2>3, <2>4, <2>5, <2>6, <2>7, <2>8, LoadingKeepsRuns, ComparisonSteps
<1>. QED
  BY <1>1, <1>2

Attached == [listen : SUBSET Listeners, drive : SUBSET Listeners]

SyncTypes ==
    /\ sync \in [1..MaxLoads -> Attached]
    /\ wanted \in BOOLEAN /\ late \in BOOLEAN

LEMMA SettingUp ==
    ASSUME NEW s \in Attached, NEW content, NEW ready
    PROVE  SetUp(s, content, ready) \in Attached
<1>1. Live \subseteq Listeners /\ [pane : Panes \ ready, live : {TRUE}] \subseteq Listeners
  BY DEF Live, Listeners
<1>2. \A l \in SUBSET Listeners, d \in SUBSET Listeners : [listen |-> l, drive |-> d] \in Attached
  BY DEF Attached
<1>3. s.listen \in SUBSET Listeners
  BY DEF Attached
<1>. QED
  BY <1>1, <1>2, <1>3 DEF SetUp

LEMMA Hearing ==
    ASSUME NEW s \in Attached, NEW p
    PROVE  Heard(s, p) \in Attached
BY DEF Attached, Heard

LEMMA Detaching ==
    ASSUME NEW s \in Attached, NEW gone
    PROVE  DetachedSync(s, gone) \in Attached
<1>1. ASSUME NEW ls \in SUBSET Listeners PROVE Detached(ls, gone) \in SUBSET Listeners
  <2>1. ASSUME NEW l \in Listeners, NEW b \in BOOLEAN
        PROVE  [l EXCEPT !.live = @ /\ b] \in Listeners
    <3> DEFINE c == l.live /\ b
    <3>1. c \in BOOLEAN
      OBVIOUS
    <3> HIDE DEF c
    <3>2. [l EXCEPT !.live = c] \in Listeners
      BY <3>1 DEF Listeners
    <3>. QED
      BY <3>2 DEF c
  <2>. QED
    BY <2>1 DEF Detached
<1>2. s.listen \in SUBSET Listeners /\ s.drive \in SUBSET Listeners
  BY DEF Attached
<1>. QED
  BY <1>1, <1>2 DEF DetachedSync, Attached

LEMMA SettingUpTypes ==
    ASSUME SyncTypes, NEW who, SetUpBy(who)
    PROVE  SyncTypes'
<1>1. sync' \in [1..MaxLoads -> Attached]
  BY SettingUp DEF SetUpBy, SyncTypes
<1>. QED
  BY <1>1 DEF SetUpBy, SyncTypes

LEMMA SyncTypesInductive ==
    /\ RecoveryInit => SyncTypes
    /\ SyncTypes /\ [RecoveryNext]_recoveryVars => SyncTypes'
<1>0. NoSync \in Attached
  BY DEF NoSync, Attached
<1>1. RecoveryInit => SyncTypes
  BY <1>0 DEF RecoveryInit, ComparisonInit, SyncTypes
<1>2. ASSUME SyncTypes, [RecoveryNext]_recoveryVars PROVE SyncTypes'
  <2>1. CASE LoadTab
    <3>1. sync' \in [1..MaxLoads -> Attached]
      BY <1>0, <1>2, <2>1, SettingUp DEF LoadTab, SyncTypes
    <3>2. wanted' = (instances > 0) /\ late' = FALSE
      BY <2>1 DEF LoadTab
    <3>3. wanted' \in BOOLEAN
      BY <3>2
    <3>. QED
      BY <3>1, <3>2, <3>3 DEF SyncTypes
  <2>2. CASE LeaveTab
    BY <1>0, <1>2, <2>2 DEF LeaveTab, SyncTypes
  <2>3. CASE UNCHANGED <<sync, wanted, late>>
    BY <1>2, <2>3 DEF SyncTypes
  <2>4. CASE SwapElsewhere \/ \E i \in 1..MaxLoads : TimerFires(i)
    BY <1>2, <2>4, SettingUpTypes DEF SwapElsewhere, TimerFires
  <2>5. ASSUME NEW p \in Panes, FrameLoads(p) PROVE SyncTypes'
    <3>1. sync' \in [1..MaxLoads -> Attached]
      BY <1>2, <2>5, Hearing DEF FrameLoads, SyncTypes
    <3>. QED
      BY <1>2, <2>5, <3>1 DEF FrameLoads, SyncTypes
  <2>6. ASSUME NEW d \in Docs, UpdateDonor(d) PROVE SyncTypes'
    <3>1. sync' \in [1..MaxLoads -> Attached]
      BY <1>2, <2>6, Detaching DEF UpdateDonor, SyncTypes
    <3>2. wanted' \in BOOLEAN /\ late' \in BOOLEAN
      BY <1>2, <2>6 DEF UpdateDonor, SyncTypes
    <3>. QED
      BY <3>1, <3>2 DEF SyncTypes
  <2>7. ASSUME NEW d \in Docs, ChooseDonor(d) PROVE SyncTypes'
    BY <2>3, <2>6, <2>7 DEF ChooseDonor
  <2>8. CASE \/ RunOriginalPdfs \/ RunOriginalPdfsSingle \/ RunComparison
             \/ (\E r \in textReqs : AnswerText(r)) \/ ToggleComparison \/ UNCHANGED comparisonVars
    BY <2>3, <2>8 DEF RunOriginalPdfs, RunOriginalPdfsSingle, RunComparison, AnswerText,
                      ToggleComparison, comparisonVars, syncVars
  <2>. QED
    BY <1>2, <2>1, <2>2, <2>4, <2>5, <2>7, <2>8, ComparisonSteps
<1>. QED
  BY <1>1, <1>2

\* The listeners that instance i has when they are those that both panes need.
InPlace(i) ==
    IF Both(pane, "text")
    THEN sync[i].drive = Live
    ELSE /\ sync[i].drive = {l \in Live : l.pane \in loaded}
         /\ sync[i].listen = {l \in Live : l.pane \notin loaded}

\* Two panes that should scroll each other do so by some instance, or will when
\* its timer fires.
SyncInv ==
    shown /\ pane["donor"].mode # "none" /\ wanted /\ (Both(pane, "text") \/ ~late)
       => \E i \in 1..MaxLoads : timers[i] > 0 \/ InPlace(i)

\* Two panes are both PDF or both text.
LEMMA OneMode ==
    ASSUME ComparisonInv, shown, pane["donor"].mode # "none"
    PROVE  /\ ~Both(pane, "text") => Both(pane, "pdf")
           /\ Both(pane, "pdf") => ~Both(pane, "text")
<1>1. \A p \in Panes : pane[p].mode = IF PdfMode(pane["donor"].doc) THEN "pdf" ELSE "text"
  BY DEF ComparisonInv, PanesInv, NoPane
<1>. QED
  BY <1>1 DEF Both, Panes

\* A setup leaves its instance's listeners in place, unless it came too late.
LEMMA SetUpInPlace ==
    ASSUME ComparisonInv, SyncTypes, NEW who \in SUBSET (1..MaxLoads), SetUpBy(who), NEW i \in who,
           UNCHANGED <<shown, pane, loaded>>,
           shown, pane["donor"].mode # "none", Both(pane, "text") \/ ~late'
    PROVE  InPlace(i)'
<1>1. sync'[i] = SetUp(sync[i], pane, loaded) /\ sync[i].listen \in SUBSET Listeners
  BY DEF SetUpBy, SyncTypes, Attached
<1>2. CASE Both(pane, "text")
  <2>1. sync'[i].drive = Live
    BY <1>1, <1>2 DEF SetUp
  <2>. QED
    BY <1>2, <2>1 DEF InPlace, Both
<1>3. CASE ~Both(pane, "text")
  <2>1. Both(pane, "pdf")
    BY <1>3, OneMode
  <2>2. loaded = {} /\ \A l \in sync[i].listen : l.live
    BY <1>3, <2>1 DEF SetUpBy
  <2>3. \A l \in sync[i].listen : l \in Live
    BY <1>1, <2>2 DEF Listeners, Live
  <2>4. sync'[i].drive = {} /\ sync'[i].listen = Live
    <3>1. [pane : Panes \ loaded, live : {TRUE}] = Live
      BY <2>2 DEF Live
    <3>2. sync'[i] = [listen |-> sync[i].listen \union Live, drive |-> {}]
      BY <1>1, <1>3, <2>1, <3>1 DEF SetUp
    <3>. QED
      BY <2>3, <3>2
  <2>5. ~Both(pane', "text") /\ loaded' = {}
    BY <1>3, <2>2
  <2>. QED
    BY <2>4, <2>5 DEF InPlace, Both
<1>. QED
  BY <1>2, <1>3

LEMMA LoadingKeepsSync ==
    ASSUME RunsInv, ComparisonInv, SyncTypes, LoadTab
    PROVE  SyncInv'
<1>1. ASSUME instances > 0 PROVE 1 \in 1..MaxLoads /\ 1 <= instances
  BY <1>1, ScriptTypes DEF RunsInv
<1>2. /\ pane' = Template /\ loaded' = {} /\ wanted' = (instances > 0)
      /\ sync' = [i \in DOMAIN sync |-> IF i <= instances THEN SetUp(NoSync, Template, {}) ELSE NoSync]
  BY DEF LoadTab
<1>3. ASSUME instances > 0, shown', pane'["donor"].mode # "none" PROVE InPlace(1)'
  <2>1. sync'[1] = SetUp(NoSync, Template, {})
    BY <1>1, <1>2, <1>3 DEF SyncTypes
  <2>2. CASE Both(Template, "text")
    <3>1. sync'[1].drive = Live
      BY <2>1, <2>2 DEF SetUp
    <3>. QED
      BY <1>2, <2>2, <3>1 DEF InPlace, Both
  <2>3. CASE ~Both(Template, "text")
    <3>1. Both(Template, "pdf")
      <4>1. ComparisonInv'
        BY LoadKeepsPanes
      <4>2. \A p \in Panes : pane'[p].mode = IF PdfMode(pane["donor"].doc)' THEN "pdf" ELSE "text"
        BY <1>3, <4>1 DEF ComparisonInv, PanesInv, NoPane
      <4>. QED
        BY <1>2, <2>3, <4>2 DEF Both, Panes
    <3>2. Panes \ {} = Panes
      OBVIOUS
    <3>3. sync'[1] = [listen |-> {} \union [pane : Panes, live : {TRUE}], drive |-> {}]
      BY <2>1, <2>3, <3>1, <3>2 DEF SetUp, NoSync
    <3>4. sync'[1].listen = Live /\ sync'[1].drive = {}
      <4>1. {} \union [pane : Panes, live : {TRUE}] = Live
        BY DEF Live
      <4>2. sync'[1] = [listen |-> Live, drive |-> {}]
        BY <3>3, <4>1
      <4>. QED
        BY <4>2
    <3>. QED
      BY <1>2, <2>3, <3>4 DEF InPlace, Both
  <2>. QED
    BY <2>2, <2>3
<1>. QED
  BY <1>1, <1>2, <1>3 DEF SyncInv

\* A frame that has loaded takes its load listener with it.
LEMMA FrameKeepsSync ==
    ASSUME SyncTypes, SyncInv, NEW p \in Panes, FrameLoads(p)
    PROVE  SyncInv'
<1>1. /\ UNCHANGED <<shown, pane, wanted, late, timers>> /\ loaded' = loaded \union {p} /\ p \notin loaded
      /\ sync' = [i \in DOMAIN sync |-> Heard(sync[i], p)] /\ pane[p].mode = "pdf"
  BY DEF FrameLoads, viewVars
<1>2. ~Both(pane, "text") /\ ~Both(pane', "text")
  BY <1>1 DEF Both
<1>3. ASSUME NEW i \in 1..MaxLoads, InPlace(i) PROVE InPlace(i)'
  <2>1. sync'[i] = Heard(sync[i], p)
    BY <1>1 DEF SyncTypes
  <2>2. /\ sync[i].drive = {l \in Live : l.pane \in loaded}
        /\ sync[i].listen = {l \in Live : l.pane \notin loaded}
    BY <1>2, <1>3 DEF InPlace
  <2>3. /\ sync'[i].drive = {l \in Live : l.pane \in loaded'}
        /\ sync'[i].listen = {l \in Live : l.pane \notin loaded'}
    <3>1. /\ sync'[i].drive = {l \in Live : l.pane \in loaded} \union {l \in {x \in Live : x.pane \notin loaded} : l.pane = p}
          /\ sync'[i].listen = {l \in {x \in Live : x.pane \notin loaded} : l.pane # p}
      BY <2>1, <2>2 DEF Heard
    <3>. QED
      BY <1>1, <3>1
  <2>. QED
    BY <1>2, <2>3 DEF InPlace, Both
<1>4. ~late' /\ shown' /\ pane'["donor"].mode # "none" /\ wanted' =>
          \E i \in 1..MaxLoads : timers'[i] > 0 \/ InPlace(i)'
  BY <1>1, <1>3 DEF SyncInv
<1>. QED
  BY <1>2, <1>4 DEF SyncInv, Both

\* An answer changes what a pane shows, not its mode.
LEMMA AnswerKeepsSync ==
    ASSUME ComparisonInv, SyncInv, NEW r \in textReqs, AnswerText(r)
    PROVE  SyncInv'
<1>1. UNCHANGED <<shown, loaded, sync, timers, wanted, late>>
  BY DEF AnswerText, viewVars, syncVars
<1>2. \A p \in Panes : pane'[p].mode = pane[p].mode
  <2>1. CASE pane' = pane
    BY <2>1
  <2>2. ASSUME NEW text, pane' = [pane EXCEPT ![r.pane].text = text]
        PROVE  \A p \in Panes : pane'[p].mode = pane[p].mode
    <3>1. pane \in [Panes -> PaneStates]
      BY DEF ComparisonInv, PanesInv
    <3>2. ASSUME NEW s \in PaneStates PROVE [s EXCEPT !.text = text].mode = s.mode
      BY DEF PaneStates
    <3>. QED
      BY <2>2, <3>1, <3>2
  <2>. QED
    BY <2>1, <2>2 DEF AnswerText
<1>3. Both(pane, "text")' <=> Both(pane, "text")
  BY <1>2 DEF Both
<1>. QED
  BY <1>1, <1>2, <1>3 DEF SyncInv, InPlace, Panes

LEMMA SyncInductive ==
    /\ RecoveryInit => SyncInv
    /\ ComparisonInv /\ RunsInv /\ SyncTypes /\ SyncInv /\ [RecoveryNext]_recoveryVars => SyncInv'
<1>1. RecoveryInit => SyncInv
  BY DEF RecoveryInit, ComparisonInit, SyncInv
<1>2. ASSUME ComparisonInv, RunsInv, SyncTypes, SyncInv, [RecoveryNext]_recoveryVars PROVE SyncInv'
  <2>1. CASE LeaveTab
    BY <2>1 DEF LeaveTab, SyncInv
  <2>2. CASE UNCHANGED <<shown, pane, loaded, sync, timers, wanted, late>>
    BY <1>2, <2>2 DEF SyncInv, InPlace
  <2>3. CASE \/ RunOriginalPdfs \/ RunOriginalPdfsSingle \/ RunComparison
             \/ ToggleComparison \/ UNCHANGED comparisonVars
    BY <2>2, <2>3 DEF RunOriginalPdfs, RunOriginalPdfsSingle, RunComparison, ToggleComparison,
                      comparisonVars, viewVars, paneVars, syncVars
  <2>4. ASSUME NEW i \in 1..MaxLoads, TimerFires(i) PROVE SyncInv'
    <3>1. SetUpBy({i}) /\ UNCHANGED <<shown, pane, loaded>> /\ {i} \in SUBSET (1..MaxLoads)
      BY <2>4 DEF TimerFires, viewVars, paneVars
    <3>2. ASSUME shown, pane["donor"].mode # "none", Both(pane, "text") \/ ~late'
          PROVE  InPlace(i)'
      BY <1>2, <3>1, <3>2, SetUpInPlace
    <3>. QED
      BY <3>1, <3>2 DEF SyncInv, Both
  <2>5. CASE SwapElsewhere
    <3>1. SetUpBy(1..instances) /\ UNCHANGED <<shown, pane, loaded>> /\ 1..instances \in SUBSET (1..MaxLoads)
      BY <1>2, <2>5, ScriptTypes DEF SwapElsewhere, viewVars, paneVars, RunsInv
    <3>2. CASE instances > 0
      <4>1. 1 \in 1..instances /\ 1 \in 1..MaxLoads
        BY <1>2, <3>2, ScriptTypes DEF RunsInv
      <4>2. ASSUME shown, pane["donor"].mode # "none", Both(pane, "text") \/ ~late'
            PROVE  InPlace(1)'
        BY <1>2, <3>1, <4>1, <4>2, SetUpInPlace
      <4>. QED
        BY <3>1, <4>1, <4>2 DEF SyncInv, Both
    <3>3. CASE ~(instances > 0)
      <4>1. ~wanted /\ 1..instances = {}
        BY <1>2, <3>3, ScriptTypes DEF RunsInv
      <4>2. ~wanted'
        BY <3>1, <4>1 DEF SetUpBy
      <4>. QED
        BY <4>2 DEF SyncInv
    <3>. QED
      BY <3>2, <3>3
  <2>6. ASSUME NEW d \in Docs, UpdateDonor(d) PROVE SyncInv'
    <3>1. CASE instances > 0
      <4>1. instances \in 1..MaxLoads /\ timers' = [timers EXCEPT ![instances] = @ + 1]
        BY <1>2, <2>6, <3>1, ScriptTypes DEF UpdateDonor, RunsInv
      <4>2. timers'[instances] > 0
        BY <1>2, <4>1 DEF RunsInv
      <4>. QED
        BY <4>1, <4>2 DEF SyncInv
    <3>2. CASE ~(instances > 0)
      <4>1. ~wanted' 
        BY <1>2, <2>6, <3>2 DEF UpdateDonor, RunsInv
      <4>. QED
        BY <4>1 DEF SyncInv
    <3>. QED
      BY <3>1, <3>2
  <2>7. ASSUME NEW d \in Docs, ChooseDonor(d) PROVE SyncInv'
    BY <2>2, <2>6, <2>7 DEF ChooseDonor, paneVars
  <2>. QED
    BY <1>2, <2>1, <2>3, <2>4, <2>5, <2>7, ComparisonSteps, LoadingKeepsSync, FrameKeepsSync, AnswerKeepsSync
<1>. QED
  BY <1>1, <1>2

-----------------------------------------------------------------------------

\* The rest of the page: requests for tabs, and what of the passages and of
\* the source panel is not in their invariants.
RestInv ==
    /\ tab \in Tabs /\ tabReqs \subseteq Tabs /\ tabQueued \subseteq tabReqs
    /\ highlighted \in 0..Passages /\ position \in 0..Passages /\ wired \in BOOLEAN
    /\ panel \in 1..Passages \union {Nothing, Failed}
    /\ panelOpen \in BOOLEAN /\ shifted \in BOOLEAN
    /\ asked \in 1..Passages \union {Nothing} /\ overlapped \in BOOLEAN
    /\ recoveryEvents \in Nat

LEMMA RestInductive ==
    /\ RecoveryInit => RestInv
    /\ PassageInv /\ RestInv /\ [RecoveryNext]_recoveryVars => RestInv'
<1> USE RecoveryAssumption
<1>1. RecoveryInit => RestInv
  <2>1. RecoveryInit => tab \in Tabs /\ tabReqs \subseteq Tabs /\ tabQueued \subseteq tabReqs
    BY DEF RecoveryInit, Tabs
  <2>2. RecoveryInit => wired \in BOOLEAN /\ panelOpen \in BOOLEAN /\ shifted \in BOOLEAN /\ overlapped \in BOOLEAN
    BY DEF RecoveryInit
  <2>3. RecoveryInit => /\ highlighted \in 0..Passages /\ position \in 0..Passages /\ recoveryEvents \in Nat
                        /\ panel = Nothing /\ asked = Nothing
    BY DEF RecoveryInit
  <2>. QED
    BY <2>1, <2>2, <2>3 DEF RestInv
<1>2. ASSUME PassageInv, RestInv, [RecoveryNext]_recoveryVars PROVE RestInv'
  <2>1. recoveryEvents' \in Nat
    BY <1>2 DEF RestInv, RecoveryNext, KeyJ, KeyK, NextButton, PrevButton, ScrollToSegment, ScrollTo,
       ClickPassage, AnswerSource, Escape, CloseButton, ClickTab, SwapTab, TabFails, SwapStatus,
       OnComparison, UserActs, recoveryVars
  <2>2. tab' \in Tabs /\ tabReqs' \subseteq Tabs /\ tabQueued' \subseteq tabReqs'
    <3>1. CASE UNCHANGED tabVars
      BY <1>2, <3>1 DEF RestInv, tabVars
    <3>2. ASSUME NEW t \in Tabs, ClickTab(t)
          PROVE  tab' \in Tabs /\ tabReqs' \subseteq Tabs /\ tabQueued' \subseteq tabReqs'
      BY <1>2, <3>2 DEF RestInv, ClickTab
    <3>3. ASSUME NEW t \in Tabs, SwapTab(t) \/ TabFails(t)
          PROVE  tab' \in Tabs /\ tabReqs' \subseteq Tabs /\ tabQueued' \subseteq tabReqs'
      BY <1>2, <3>3 DEF RestInv, SwapTab, TabFails, TabAnswered
    <3>. QED
      BY <1>2, <3>1, <3>2, <3>3 DEF RecoveryNext, KeyJ, KeyK, NextButton, PrevButton, ScrollToSegment,
         ScrollTo, ClickPassage, AnswerSource, Escape, CloseButton, CloseSourcePanel, SwapStatus,
         OnComparison, recoveryVars
  <2>3. highlighted' \in 0..Passages /\ position' \in 0..Passages /\ wired' \in BOOLEAN
    <3>1. ASSUME NEW n \in Int, ScrollTo(n) PROVE n \in 1..Passages /\ Select(n) /\ wired' = wired
      BY <1>2, <3>1 DEF ScrollTo, PassageInv
    <3>2. currentIndex \in 0..Passages
      BY <1>2 DEF PassageInv
    <3>3. CASE KeyJ \/ KeyK \/ NextButton \/ PrevButton \/ \E n \in 1..Passages : ScrollToSegment(n)
      <4>1. PICK n \in Int : ScrollTo(n)
        BY <3>2, <3>3 DEF KeyJ, KeyK, NextButton, PrevButton, ScrollToSegment
      <4>. QED
        BY <1>2, <3>1, <4>1 DEF Select, RestInv
    <3>4. ASSUME NEW n \in 1..Passages, ClickPassage(n)
          PROVE  highlighted' \in 0..Passages /\ position' \in 0..Passages /\ wired' \in BOOLEAN
      BY <1>2, <3>4 DEF ClickPassage, Select, RestInv
    <3>5. ASSUME NEW t \in Tabs, SwapTab(t)
          PROVE  highlighted' \in 0..Passages /\ position' \in 0..Passages /\ wired' \in BOOLEAN
      <4>1. highlighted' = 0 /\ wired' = FALSE /\ position' \in {currentIndex, 0}
        BY <3>5 DEF SwapTab, AfterSwap, UpdateToolbar
      <4>2. highlighted' \in 0..Passages /\ position' \in 0..Passages
        BY <3>2, <4>1
      <4>. QED
        BY <4>1, <4>2
    <3>6. CASE SwapStatus
      BY <1>2, <3>2, <3>6 DEF SwapStatus, AfterSwap, UpdateToolbar, RestInv
    <3>7. CASE UNCHANGED passageVars
      BY <1>2, <3>7 DEF passageVars, RestInv
    <3>. QED
      BY <1>2, <3>3, <3>4, <3>5, <3>6, <3>7 DEF RecoveryNext, AnswerSource, Escape, CloseButton,
         CloseSourcePanel, ClickTab, TabFails, OnComparison, recoveryVars
  <2>4. /\ panel' \in 1..Passages \union {Nothing, Failed} /\ panelOpen' \in BOOLEAN /\ shifted' \in BOOLEAN
        /\ asked' \in 1..Passages \union {Nothing} /\ overlapped' \in BOOLEAN
    <3> DEFINE Goal == /\ panel' \in 1..Passages \union {Nothing, Failed} /\ panelOpen' \in BOOLEAN
                       /\ shifted' \in BOOLEAN
                       /\ asked' \in 1..Passages \union {Nothing} /\ overlapped' \in BOOLEAN
    <3>1. CASE UNCHANGED panelVars
      BY <1>2, <3>1 DEF panelVars, RestInv
    <3>2. Pending(sourceReqs) \in BOOLEAN
      BY DEF Pending
    <3>3. ASSUME NEW n \in 1..Passages, ClickPassage(n) PROVE Goal
      BY <1>2, <3>2, <3>3 DEF ClickPassage, RestInv
    <3>4. ASSUME NEW n \in 1..Passages, AnswerSource(n) PROVE Goal
      <4>1. /\ panel' \in {n, Failed} /\ panelOpen' /\ UNCHANGED <<asked, overlapped>>
        BY <3>4 DEF AnswerSource
      <4>2. shifted' \in BOOLEAN
        BY <1>2, <3>4 DEF AnswerSource, RestInv
      <4>3. panelOpen' = TRUE
        BY <3>4 DEF AnswerSource
      <4>. QED
        BY <1>2, <4>1, <4>2, <4>3 DEF RestInv
    <3>5. CASE Escape \/ CloseButton
      BY <3>2, <3>5 DEF Escape, CloseButton, CloseSourcePanel
    <3>6. ASSUME NEW t \in Tabs, SwapTab(t) PROVE Goal
      BY <1>2, <3>6 DEF SwapTab, RestInv
    <3>. QED
      BY <1>2, <3>1, <3>3, <3>4, <3>5, <3>6 DEF RecoveryNext, KeyJ, KeyK, NextButton, PrevButton,
         ScrollToSegment, ScrollTo, ClickTab, TabFails, SwapStatus, OnComparison, recoveryVars
  <2>. QED
    BY <2>1, <2>2, <2>3, <2>4 DEF RestInv
<1>. QED
  BY <1>1, <1>2

-----------------------------------------------------------------------------
\* All of it.
RecoveryInv == PassageInv /\ PanelInv /\ ComparisonInv /\ ViewInv /\ RunsInv /\ SyncTypes /\ SyncInv /\ RestInv

LEMMA RecoveryInductive ==
    /\ RecoveryInit => RecoveryInv
    /\ RecoveryInv /\ [RecoveryNext]_recoveryVars => RecoveryInv'
BY PassagesInductive, PanelInductive, ComparisonInductive, ViewInductive, RunsInductive, SyncTypesInductive,
   SyncInductive, RestInductive DEF RecoveryInv

\* The page of a recovery keeps its types: the tabs, the passages, the source
\* panel, the two panes and the listeners of every run of comparison.js.
THEOREM RecoveryTypes == RecoverySpec => []RecoveryTypeOK
<1>1. ASSUME RecoveryInv PROVE ComparisonTypeOK
  <2>1. textReqs \subseteq TextRequests
    <3>1. ASSUME NEW r \in textReqs PROVE r \in TextRequests
      <4>1. r \in Requests /\ r.doc \in Docs
        BY <1>1 DEF RecoveryInv, ComparisonInv, RequestsInv, ViewInv
      <4>. QED
        BY <4>1 DEF Requests, TextRequests
    <3>. QED
      BY <3>1
  <2>2. scripts \in Seq([name : {"original-pdfs", "comparison", "original-pdfs-single"}, by : 1..MaxLoads])
    <3> DEFINE all == [name : {"original-pdfs", "comparison", "original-pdfs-single"}, by : 1..MaxLoads]
    <3>1. Scripts \subseteq all
      BY DEF Scripts, Asks
    <3>2. scripts \in Seq(Scripts)
      BY <1>1, ScriptTypes DEF RecoveryInv
    <3> HIDE DEF all
    <3>3. scripts \in Seq(all)
      BY <3>1, <3>2
    <3>. QED
      BY <3>3 DEF all
  <2>3. instances \in 0..MaxLoads /\ loads \in 0..MaxLoads
    BY <1>1, ScriptTypes DEF RecoveryInv, RunsInv
  <2>4. pane \in [Panes -> PaneStates] /\ timers \in [1..MaxLoads -> Nat]
    BY <1>1 DEF RecoveryInv, ComparisonInv, PanesInv, RunsInv
  <2>. QED
    BY <1>1, <2>1, <2>2, <2>3, <2>4 DEF RecoveryInv, ViewInv, SyncTypes, Attached, ComparisonTypeOK
<1>2. RecoveryInv => RecoveryTypeOK
  <2>1. ASSUME RecoveryInv PROVE segments \in {0, Passages}
    BY <2>1 DEF RecoveryInv, PassageInv
  <2>2. ASSUME RecoveryInv
        PROVE  currentIndex \in 0..Passages /\ sourceReqs \in [1..Passages -> Nat]
    BY <2>2 DEF RecoveryInv, PassageInv, PanelInv
  <2>. QED
    BY <1>1, <2>1, <2>2 DEF RecoveryInv, RestInv, RecoveryTypeOK
<1>. QED
  BY <1>2, RecoveryInductive, PTL DEF RecoverySpec

\* For any number of loads of the tab, and any order of its scripts, of swaps,
\* timers, load events and changes of the donor: a setup since the tab was loaded
\* leaves two text panes that scroll each other, and two PDFs too unless some
\* setup met an iframe loaded before it.  Of a tab without a setup, as after its
\* first load, it says nothing: ViewersInLockstep is violated there.
THEOREM SetupsSynchronise == RecoverySpec => []SetupSynchronises
<1>1. ASSUME RecoveryInv, shown, pane["donor"] # NoPane, wanted, \A i \in DOMAIN timers : timers[i] = 0,
             Both(pane, "text") \/ ~late,
             NEW p \in Panes, pane[p].mode = "text" \/ p \in loaded
      PROVE  Drives(p)
  <2>1. ComparisonInv /\ SyncInv /\ DOMAIN timers = 1..MaxLoads /\ DOMAIN sync = 1..MaxLoads
    BY <1>1 DEF RecoveryInv, RunsInv, SyncTypes
  <2>2. \A q \in Panes : pane[q].mode = IF PdfMode(pane["donor"].doc) THEN "pdf" ELSE "text"
    BY <1>1, <2>1 DEF ComparisonInv, PanesInv
  <2>3. pane["donor"].mode # "none"
    BY <2>2 DEF Panes
  <2>4. PICK i \in 1..MaxLoads : InPlace(i)
    BY <1>1, <2>1, <2>3 DEF SyncInv
  <2>5. /\ [pane |-> p, live |-> TRUE] \in Live /\ [pane |-> p, live |-> FALSE] \notin Live
        /\ [pane |-> p, live |-> TRUE].pane = p
    BY DEF Live
  <2>6. CASE Both(pane, "text")
    <3>1. sync[i].drive = Live
      BY <2>4, <2>6 DEF InPlace
    <3>. QED
      BY <2>1, <2>5, <3>1 DEF Drives
  <2>7. CASE ~Both(pane, "text")
    <3>1. p \in loaded
      BY <1>1, <2>2, <2>7 DEF Both
    <3>2. sync[i].drive = {l \in Live : l.pane \in loaded}
      BY <2>4, <2>7 DEF InPlace
    <3>. QED
      BY <2>1, <2>5, <3>1, <3>2 DEF Drives
  <2>. QED
    BY <2>6, <2>7
<1>2. RecoveryInv => SetupSynchronises
  BY <1>1 DEF SetupSynchronises
<1>. QED
  BY <1>2, RecoveryInductive, PTL DEF RecoverySpec
=============================================================================
