----------------------------- MODULE Comparison -----------------------------
(***************************************************************************)
(* The Original Documents tab of a recovery: its template,                 *)
(* src/teredacta/static/js/original-pdfs.js (two panes, primary and donor, *)
(* both as PDF or both as text), original-pdfs-single.js (one member) and  *)
(* comparison.js (scroll synchronisation).                                 *)
(*                                                                         *)
(* Each time htmx loads the tab it inserts the scripts again: they run     *)
(* later, in order, whatever the page shows by then, and every run of      *)
(* comparison.js is one more instance with its own listeners.  An element  *)
(* that left the page is dead: what still refers to it has no effect.      *)
(*                                                                         *)
(* Abstractions.  Scroll positions and the syncing flag that drops the     *)
(* events of the same animation frame are what Drives says they add up to. *)
(***************************************************************************)
EXTENDS Page, Sequences

CONSTANTS Groups,    \* the members of each recovery group that may be shown
          Docs,
          NoDoc,     \* no document
          Loading,   \* "Loading..."
          MaxLoads   \* bound: loads of this tab

ASSUME ComparisonAssumption ==
    /\ MaxLoads \in Nat
    /\ {NoDoc, Loading, Failed} \intersect Docs = {} /\ Failed # Loading
    /\ Groups \subseteq Seq(Docs) \ {<<>>}

VARIABLES members,     \* recovery.members, the best first
          cached,      \* the members with a pdf_cache_path
          shown,       \* the tab's content is on the page
          pane,        \* what each pane shows
          selected,    \* the option selected in the list of donors
          singleView,  \* the class single-view is set
          textReqs,    \* requests for a member's text in flight
          loaded,      \* panes whose iframe has fired its load event
          scripts,     \* scripts inserted and not run yet
          loads,       \* loads of the tab so far
          updateReady, \* window.updateDonor is defined
          instances,   \* runs of comparison.js so far
          sync,        \* each instance's listeners
          timers,      \* 100 ms timers running for each instance
          wanted,      \* synchronisation was asked for since the tab was loaded
          late         \* a PDF setup came after a load event or a donor change

groupVars == <<members, cached>>
viewVars == <<shown, selected, singleView>>
paneVars == <<pane, textReqs, loaded>>
scriptVars == <<scripts, loads, updateReady>>
syncVars == <<instances, sync, timers, wanted, late>>
comparisonVars == <<groupVars, viewVars, paneVars, scriptVars, syncVars>>

Panes == {"primary", "donor"}
NoPane == [doc |-> NoDoc, mode |-> "none", text |-> NoDoc]
\* text: what a text pane shows, a member's text or a message
PaneStates == [doc : Docs \union {NoDoc}, mode : {"none", "pdf", "text"},
               text : Docs \union {NoDoc, Loading, Failed}]
\* by: which run of a script asked, 0 for updateDonor
TextRequests == [pane : Panes, doc : Docs, live : BOOLEAN, by : 0..MaxLoads]
\* live: the element that the listener scrolls, in the other pane, is on the page
Listeners == [pane : Panes, live : BOOLEAN]
Live == [pane : Panes, live : {TRUE}]
NoSync == [listen |-> {}, drive |-> {}]

Both(content, mode) == \A p \in Panes : content[p].mode = mode
PdfMode(donor) == {members[1], donor} \subseteq cached
NewPane(doc, pdf) == [doc |-> doc, mode |-> IF pdf THEN "pdf" ELSE "text",
                      text |-> IF pdf THEN NoDoc ELSE Loading]

ComparisonInit ==
    /\ members \in Groups
    /\ cached \in SUBSET {members[i] : i \in DOMAIN members}
    /\ shown = FALSE /\ selected = NoDoc /\ singleView = FALSE
    /\ pane = [p \in Panes |-> NoPane]
    /\ textReqs = {} /\ loaded = {}
    /\ scripts = <<>> /\ loads = 0 /\ updateReady = FALSE
    /\ instances = 0 /\ sync = [i \in 1..MaxLoads |-> NoSync]
    /\ timers = [i \in 1..MaxLoads |-> 0] /\ wanted = FALSE /\ late = FALSE

-----------------------------------------------------------------------------
(* What is left of requests and listeners when the elements of some panes  *)
(* leave the page: answers go nowhere, listeners scroll nothing.           *)

Orphaned(reqs, gone) == {[r EXCEPT !.live = @ /\ r.pane \notin gone] : r \in reqs}

Detached(listeners, gone) ==
    {[l EXCEPT !.live = @ /\ (Panes \ {l.pane}) \intersect gone = {}] :
        l \in {x \in listeners : x.pane \notin gone}}

DetachedSync(s, gone) == [listen |-> Detached(s.listen, gone), drive |-> Detached(s.drive, gone)]

-----------------------------------------------------------------------------
(* comparison.js. *)

\* Mutant: only the primary pane gets listeners.
SetUpOneWay(s, content, ready) ==
    [listen |-> s.listen \union
                    (IF Both(content, "pdf") THEN [pane : {"primary"} \ ready, live : {TRUE}] ELSE {}),
     drive |-> IF Both(content, "text") THEN [pane : {"primary"}, live : {TRUE}] ELSE {}]

\* setupComparison: cleanup removes the scroll listeners only.  A load listener
\* on an iframe that is already loaded is never called.
SetUp(s, content, ready) ==
    [listen |-> s.listen \union
                    (IF Both(content, "pdf") THEN [pane : Panes \ ready, live : {TRUE}] ELSE {}),
     drive |-> IF Both(content, "text") THEN Live ELSE {}]

\* The iframe's load event adds the scroll listeners.
Heard(s, p) ==
    [listen |-> {l \in s.listen : l.pane # p},
     drive |-> s.drive \union {l \in s.listen : l.pane = p}]

SetUpBy(who) ==
    /\ sync' = [i \in DOMAIN sync |-> IF i \in who THEN SetUp(sync[i], pane, loaded) ELSE sync[i]]
    /\ late' = (late \/ /\ Both(pane, "pdf") /\ who # {}
                        /\ loaded # {} \/ \E i \in who : \E l \in sync[i].listen : ~l.live)
    /\ wanted' = (wanted \/ (shown /\ who # {}))

\* setTimeout(setupComparison, 100) of the last instance.
TimerFires(i) ==
    /\ timers[i] > 0
    /\ timers' = [timers EXCEPT ![i] = @ - 1]
    /\ SetUpBy({i})
    /\ UNCHANGED <<groupVars, viewVars, paneVars, scriptVars, instances>>

\* htmx:afterSwap of a swap elsewhere on the page: every instance listens.
SwapElsewhere ==
    /\ SetUpBy(1..instances)
    /\ UNCHANGED <<groupVars, viewVars, paneVars, scriptVars, instances, timers>>

ToggleComparison ==
    /\ shown /\ Len(members) > 1 /\ instances > 0
    /\ singleView' = ~singleView
    /\ UNCHANGED <<groupVars, shown, selected, paneVars, scriptVars, syncVars>>

FrameLoads(p) ==
    /\ pane[p].mode = "pdf" /\ p \notin loaded
    /\ loaded' = loaded \union {p}
    /\ sync' = [i \in DOMAIN sync |-> Heard(sync[i], p)]
    /\ UNCHANGED <<groupVars, viewVars, pane, textReqs, scriptVars, instances, timers, wanted, late>>

-----------------------------------------------------------------------------
(* The tab: htmx replaces the content, the listeners of afterSwap run, and *)
(* the scripts of the new content some time later.                         *)

Template ==
    LET donor == IF Len(members) > 1 THEN members[2] ELSE members[1]
        pdf == PdfMode(donor)
    IN [p \in Panes |-> IF p = "primary" THEN NewPane(members[1], pdf)
                        ELSE IF Len(members) > 1 THEN NewPane(donor, pdf) ELSE NoPane]

Script(name) == [name |-> name, by |-> loads + 1]

LoadTab ==
    /\ loads < MaxLoads
    /\ loads' = loads + 1
    /\ shown' = TRUE /\ selected' = members[1] /\ singleView' = FALSE
    /\ pane' = Template /\ loaded' = {}
    /\ textReqs' = Orphaned(textReqs, Panes)
    /\ scripts' = scripts \o IF Len(members) > 1 THEN <<Script("original-pdfs"), Script("comparison")>>
                                                ELSE <<Script("original-pdfs-single")>>
    /\ sync' = [i \in DOMAIN sync |-> IF i <= instances THEN SetUp(NoSync, Template, {}) ELSE NoSync]
    /\ wanted' = (instances > 0) /\ late' = FALSE
    /\ UNCHANGED <<groupVars, updateReady, instances, timers>>

LeaveTab ==
    /\ shown' = FALSE /\ selected' = NoDoc /\ singleView' = FALSE
    /\ pane' = [p \in Panes |-> NoPane] /\ loaded' = {}
    /\ textReqs' = Orphaned(textReqs, Panes)
    /\ sync' = [i \in DOMAIN sync |-> NoSync]
    /\ wanted' = FALSE /\ late' = FALSE
    /\ UNCHANGED <<groupVars, scripts, loads, updateReady, instances, timers>>

\* loadText of the panes ps that are text panes.
TextFor(content, ps, by) ==
    {[pane |-> p, doc |-> content[p].doc, live |-> TRUE, by |-> by] :
        p \in {x \in ps : content[x].mode = "text"}}

Runs(name) == scripts # <<>> /\ Head(scripts).name = name /\ scripts' = Tail(scripts)

\* Both scripts throw at their first lines when the tab was left meanwhile.
RunOriginalPdfs ==
    /\ Runs("original-pdfs")
    /\ textReqs' = textReqs \union TextFor(pane, {p \in Panes : shown}, Head(scripts).by)
    /\ updateReady' = (updateReady \/ shown)
    /\ UNCHANGED <<groupVars, viewVars, pane, loaded, loads, syncVars>>

RunOriginalPdfsSingle ==
    /\ Runs("original-pdfs-single")
    /\ textReqs' = textReqs \union TextFor(pane, {p \in {"primary"} : shown}, Head(scripts).by)
    /\ UNCHANGED <<groupVars, viewVars, pane, loaded, loads, updateReady, syncVars>>

\* DOMContentLoaded is long past: a new instance sets nothing up by itself.
RunComparison ==
    /\ Runs("comparison")
    /\ instances' = instances + 1
    /\ UNCHANGED <<groupVars, viewVars, paneVars, loads, updateReady, sync, timers, wanted, late>>

AnswerText(r) ==
    /\ r \in textReqs
    /\ textReqs' = textReqs \ {r}
    /\ IF r.live THEN \E text \in {r.doc, Failed} : pane' = [pane EXCEPT ![r.pane].text = text]
                 ELSE UNCHANGED pane
    /\ UNCHANGED <<groupVars, viewVars, loaded, scriptVars, syncVars>>

-----------------------------------------------------------------------------
(* updateDonor: a new donor pane, and a new primary pane when the mode     *)
(* changes.                                                                *)

\* Mutant: the primary pane is left alone.
ReplacedDonorOnly(d) == {"donor"}

Replaced(d) == {"donor"} \union
               (IF pane["primary"].mode = (IF PdfMode(d) THEN "pdf" ELSE "text")
                THEN {} ELSE {"primary"})

UpdateDonor(d) ==
    LET gone == Replaced(d)
        new == [p \in Panes |-> IF p = "donor" THEN NewPane(d, PdfMode(d))
                                ELSE IF p \in gone THEN NewPane(members[1], PdfMode(d)) ELSE pane[p]]
    IN /\ pane' = new
       /\ loaded' = loaded \ gone
       /\ textReqs' = Orphaned(textReqs, gone) \union TextFor(new, gone, 0)
       /\ sync' = [i \in DOMAIN sync |-> DetachedSync(sync[i], gone)]
       /\ timers' = IF instances > 0 THEN [timers EXCEPT ![instances] = @ + 1] ELSE timers
       /\ wanted' = (wanted \/ instances > 0)
       /\ late' = (late /\ "primary" \notin gone)

\* The select's onchange.  Before original-pdfs.js has run there is no handler
\* to call and the selection changes alone.
ChooseDonor(d) ==
    /\ shown /\ Len(members) > 1
    /\ \E i \in DOMAIN members : members[i] = d
    /\ d # selected
    /\ selected' = d
    /\ IF updateReady THEN UpdateDonor(d) ELSE UNCHANGED <<paneVars, sync, timers, wanted, late>>
    /\ UNCHANGED <<groupVars, shown, singleView, scriptVars, instances>>

\* What happens without the user.
ComparisonStep ==
    \/ RunOriginalPdfs \/ RunOriginalPdfsSingle \/ RunComparison
    \/ \E r \in textReqs : AnswerText(r)
    \/ \E p \in Panes : FrameLoads(p)
    \/ \E i \in 1..MaxLoads : TimerFires(i)

-----------------------------------------------------------------------------
(* Properties. *)

ComparisonTypeOK ==
    /\ members \in Groups /\ cached \subseteq Docs
    /\ shown \in BOOLEAN /\ singleView \in BOOLEAN /\ selected \in Docs \union {NoDoc}
    /\ pane \in [Panes -> PaneStates]
    /\ textReqs \subseteq TextRequests /\ loaded \subseteq Panes
    /\ scripts \in Seq([name : {"original-pdfs", "comparison", "original-pdfs-single"},
                          by : 1..MaxLoads])
    /\ loads \in 0..MaxLoads /\ instances \in 0..MaxLoads /\ updateReady \in BOOLEAN
    /\ sync \in [1..MaxLoads -> [listen : SUBSET Listeners, drive : SUBSET Listeners]]
    /\ timers \in [1..MaxLoads -> Nat]
    /\ wanted \in BOOLEAN /\ late \in BOOLEAN

\* "Mixed mode breaks scroll sync and provides an incoherent comparison
\* experience": two panes are both PDF or both text, PDF only when both members
\* are cached; a text pane shows its own member whatever answers come late, and
\* once the scripts have run it does not stay at "Loading...".
PanesAgree ==
    shown =>
        /\ pane["donor"] # NoPane =>
              \A p \in Panes : pane[p].mode = IF PdfMode(pane["donor"].doc) THEN "pdf" ELSE "text"
        /\ \A p \in Panes : pane[p].mode = "text" =>
              /\ pane[p].text \in {pane[p].doc, Loading, Failed}
              /\ pane[p].text = Loading /\ scripts = <<>> =>
                    \E r \in textReqs : r.pane = p /\ r.live

\* Scrolling pane p moves the other: some instance has a listener for it, and
\* none for an element that is gone, which would come first and set syncing.
Drives(p) ==
    \E i \in DOMAIN sync : /\ [pane |-> p, live |-> TRUE] \in sync[i].drive
                           /\ [pane |-> p, live |-> FALSE] \notin sync[i].drive

\* A setup of the scroll synchronisation does what it can, whatever instances
\* of the script and listeners are left from before: after any since the tab was
\* loaded, by a swap or by the timer of a change of donor, two text panes scroll
\* each other; two PDFs do so, as they load, if no setup met an iframe loaded
\* before it or a listener for a donor that is gone.
SetupSynchronises ==
    /\ shown /\ pane["donor"] # NoPane
    /\ wanted /\ \A i \in DOMAIN timers : timers[i] = 0
    /\ Both(pane, "text") \/ ~late
    => \A p \in Panes : pane[p].mode = "text" \/ p \in loaded => Drives(p)

\* "Both PDF.js viewers scroll in lockstep": two PDFs that have loaded scroll
\* each other when no script and no timer is left to run.  The code violates
\* this: nothing sets up the first load of the tab, for DOMContentLoaded and
\* the afterSwap of that load come before comparison.js; and nothing attaches
\* to an iframe whose load is past, as after most changes of donor.
ViewersInLockstep ==
    /\ shown /\ pane["donor"] # NoPane
    /\ Both(pane, "pdf") /\ loaded = Panes
    /\ scripts = <<>> /\ \A i \in DOMAIN timers : timers[i] = 0
    => \A p \in Panes : Drives(p)
=============================================================================
