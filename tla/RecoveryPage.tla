---------------------------- MODULE RecoveryPage ----------------------------
(***************************************************************************)
(* The page of one recovery: its tabs, which htmx loads into #tab-content, *)
(* and src/teredacta/static/js/source-panel.js, which walks the recovered  *)
(* passages of the merged text and shows the source of one.  The Original  *)
(* Documents tab is Comparison.                                            *)
(*                                                                         *)
(* Passages are numbered from 1 in the order of the page; 0 stands for the *)
(* code's index -1.  The tabs Metadata and Output PDF have no script.      *)
(***************************************************************************)
EXTENDS Comparison

CONSTANTS Passages,    \* the number of passages in the merged text
          OtherTabs,   \* the tabs without a script
          Nothing,     \* the source panel is empty
          MaxRecovery  \* bound: events of the user

ASSUME RecoveryAssumption ==
    /\ Passages \in Nat \ {0}
    /\ {Nothing, Failed} \intersect 1..Passages = {}
    /\ {"merged", "originals"} \intersect OtherTabs = {}

VARIABLES tab,          \* the tab whose content is on the page
          tabReqs,      \* tab buttons with a request in flight
          tabQueued,    \* those that will send another one after it
          currentIndex, segments,
          highlighted,  \* the passage with the class recovery-active
          position,     \* the passage number that the toolbar shows
          wired,        \* the toolbar's buttons have their handlers
          panel,        \* the passage whose source the panel shows
          panelOpen,
          shifted,      \* the merged text makes room for the panel
          sourceReqs,   \* requests for a source in flight
          asked,        \* the passage whose source was asked for last
          overlapped,   \* that request overlapped another or a close
          recoveryEvents

tabVars == <<tab, tabReqs, tabQueued>>
passageVars == <<currentIndex, segments, highlighted, position, wired>>
panelVars == <<panel, panelOpen, shifted, sourceReqs, asked, overlapped>>
recoveryVars == <<tabVars, passageVars, panelVars, comparisonVars, recoveryEvents>>

Tabs == {"merged", "originals"} \union OtherTabs

UserActs == recoveryEvents < MaxRecovery /\ recoveryEvents' = recoveryEvents + 1

\* attach(): the page is served with the merged text.
RecoveryInit ==
    /\ tab = "merged" /\ tabReqs = {} /\ tabQueued = {}
    /\ currentIndex = 0 /\ segments = Passages
    /\ highlighted = 0 /\ position = 0 /\ wired = TRUE
    /\ panel = Nothing /\ panelOpen = FALSE /\ shifted = FALSE
    /\ sourceReqs = Unsent(1..Passages)
    /\ asked = Nothing /\ overlapped = FALSE
    /\ recoveryEvents = 0
    /\ ComparisonInit

-----------------------------------------------------------------------------
(* Passages. *)

Select(n) ==
    /\ currentIndex' = n
    /\ highlighted' = n
    /\ position' = n

\* Mutant: without the check of the range.
ScrollToUnchecked(n) ==
    /\ Select(n)
    /\ UNCHANGED <<tabVars, segments, wired, panelVars, comparisonVars>>

ScrollTo(n) ==
    /\ n \in 1..segments
    /\ Select(n)
    /\ UNCHANGED <<tabVars, segments, wired, panelVars, comparisonVars>>

\* The keys j and k, the toolbar's buttons, an entry of Recovered Passages.
KeyJ == UserActs /\ ScrollTo(currentIndex + 1)
KeyK == UserActs /\ ScrollTo(IF currentIndex > 1 THEN currentIndex - 1 ELSE 1)
NextButton == UserActs /\ tab = "merged" /\ wired /\ ScrollTo(currentIndex + 1)
PrevButton == UserActs /\ tab = "merged" /\ wired /\ ScrollTo(currentIndex - 1)
ScrollToSegment(n) == UserActs /\ tab = "merged" /\ ScrollTo(n)

-----------------------------------------------------------------------------
(* The source panel. *)

\* A click on a passage selects it and asks for its source.
ClickPassage(n) ==
    /\ UserActs
    /\ tab = "merged"
    /\ Select(n)
    /\ sourceReqs' = Sent(sourceReqs, n)
    /\ asked' = n
    /\ overlapped' = Pending(sourceReqs)
    /\ UNCHANGED <<tabVars, segments, wired, panel, panelOpen, shifted, comparisonVars>>

AnswerSource(n) ==
    /\ sourceReqs[n] > 0
    /\ sourceReqs' = Answered(sourceReqs, n)
    /\ panelOpen' = TRUE
    /\ \/ panel' = n /\ shifted' = (tab = "merged")
       \/ panel' = Failed /\ UNCHANGED shifted
    /\ UNCHANGED <<tabVars, passageVars, asked, overlapped, comparisonVars, recoveryEvents>>

\* Mutant: the merged text keeps its class.
CloseSourcePanelShifted ==
    /\ panel' = Nothing /\ panelOpen' = FALSE
    /\ asked' = Nothing
    /\ overlapped' = Pending(sourceReqs)
    /\ UNCHANGED <<tabVars, passageVars, shifted, sourceReqs, comparisonVars>>

CloseSourcePanel ==
    /\ panel' = Nothing /\ panelOpen' = FALSE /\ shifted' = FALSE
    /\ asked' = Nothing
    /\ overlapped' = Pending(sourceReqs)
    /\ UNCHANGED <<tabVars, passageVars, sourceReqs, comparisonVars>>

\* Escape needs a passage on the page, the button comes with a source.
Escape == UserActs /\ segments > 0 /\ CloseSourcePanel
CloseButton == UserActs /\ panel \in 1..Passages /\ CloseSourcePanel

-----------------------------------------------------------------------------
(* Tabs. *)

\* htmx sends a button's request, or after the one in flight once more.
ClickTab(t) ==
    /\ UserActs
    /\ tabReqs' = tabReqs \union {t}
    /\ tabQueued' = tabQueued \union (tabReqs \intersect {t})
    /\ UNCHANGED <<tab, passageVars, panelVars, comparisonVars>>

TabAnswered(t) ==
    /\ t \in tabReqs
    /\ tabReqs' = (tabReqs \ {t}) \union (tabQueued \intersect {t})
    /\ tabQueued' = tabQueued \ {t}

CollectSegments(on) == segments' = IF on = "merged" THEN Passages ELSE 0

UpdateToolbar(on) == position' = IF on = "merged" THEN currentIndex ELSE 0

\* Mutant: the index is not reset.
AfterSwapKeepingIndex(on) ==
    /\ CollectSegments(on)
    /\ UpdateToolbar(on)
    /\ UNCHANGED currentIndex

\* The listener of afterSwap.  The toolbar is updated before the index is
\* reset: it goes on showing the old position.
AfterSwap(on) ==
    /\ CollectSegments(on)
    /\ UpdateToolbar(on)
    /\ currentIndex' = 0

SwapTab(t) ==
    /\ TabAnswered(t)
    /\ tab' = t
    /\ AfterSwap(t)
    /\ highlighted' = 0 /\ wired' = FALSE /\ shifted' = FALSE
    /\ IF t = "originals" THEN LoadTab ELSE LeaveTab
    /\ UNCHANGED <<panel, panelOpen, sourceReqs, asked, overlapped, recoveryEvents>>

TabFails(t) ==
    /\ TabAnswered(t)
    /\ UNCHANGED <<tab, passageVars, panelVars, comparisonVars, recoveryEvents>>

\* For an administrator the daemon's status in the page's head is swapped every
\* 5 s, and its afterSwap reaches the same listeners.
SwapStatus ==
    /\ AfterSwap(tab)
    /\ SwapElsewhere
    /\ UNCHANGED <<tabVars, highlighted, wired, panelVars, recoveryEvents>>

OnComparison(step) == step /\ UNCHANGED <<tabVars, passageVars, panelVars>>

RecoveryNext ==
    \/ KeyJ \/ KeyK \/ NextButton \/ PrevButton \/ Escape \/ CloseButton
    \/ \E n \in 1..Passages : ScrollToSegment(n) \/ ClickPassage(n) \/ AnswerSource(n)
    \/ \E t \in Tabs : ClickTab(t) \/ SwapTab(t) \/ TabFails(t)
    \/ SwapStatus
    \/ OnComparison(ComparisonStep /\ UNCHANGED recoveryEvents)
    \/ \E d \in Docs : OnComparison(UserActs /\ ChooseDonor(d))
    \/ OnComparison(UserActs /\ ToggleComparison)

RecoverySpec == RecoveryInit /\ [][RecoveryNext]_recoveryVars
-----------------------------------------------------------------------------
(* Properties. *)

RecoveryTypeOK ==
    /\ ComparisonTypeOK
    /\ tab \in Tabs /\ tabReqs \subseteq Tabs /\ tabQueued \subseteq tabReqs
    /\ currentIndex \in 0..Passages /\ segments \in {0, Passages}
    /\ highlighted \in 0..Passages /\ position \in 0..Passages /\ wired \in BOOLEAN
    /\ panel \in 1..Passages \union {Nothing, Failed}
    /\ panelOpen \in BOOLEAN /\ shifted \in BOOLEAN
    /\ sourceReqs \in [1..Passages -> Nat]
    /\ asked \in 1..Passages \union {Nothing} /\ overlapped \in BOOLEAN
    /\ recoveryEvents \in Nat

\* While there is a selection, the index that j and k count from, the highlighted
\* passage and the position in the toolbar agree, and the passage is on the page.
\* A swap drops the index: one elsewhere, as of the status every 5 s, leaves the
\* highlight and at first the toolbar's number, never that of another passage;
\* one of the tab drops the highlight, and may leave the old number.
SelectionAgrees ==
    /\ currentIndex > 0 =>
          /\ tab = "merged" /\ currentIndex <= segments
          /\ highlighted = currentIndex /\ position = currentIndex
    /\ highlighted > 0 => tab = "merged" /\ position \in {0, highlighted}

\* The source panel, at rest, is closed or shows the source asked for last, or
\* its error, unless that request overlapped another one or a close; the merged
\* text makes room for a panel only while it is open.
SourcePanelAgrees ==
    /\ shifted => panelOpen /\ tab = "merged"
    /\ \/ Pending(sourceReqs) \/ overlapped
       \/ panelOpen /\ panel \in {asked, Failed}
       \/ ~panelOpen /\ panel = Nothing /\ asked = Nothing
=============================================================================
