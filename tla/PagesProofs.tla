----------------------------- MODULE PagesProofs -----------------------------
(* Proofs about Pages: what is proved of the Explore page and of the page  *)
(* of a recovery alone holds of a tab that shows one of them.  The same of *)
(* PdfEmbed, whose own proofs come first: for any numbers of pages, of     *)
(* renderings and of resizes, what a rendering that nothing disturbed      *)
(* leaves in the container is complete.                                    *)
EXTENDS Pages, ExploreProofs, RecoveryPageProofs

-----------------------------------------------------------------------------
(* The embedded viewer. *)

\* The pages that call c has appended.
PagesSoFar(c) ==
    CASE at[c] = "render" -> page[c]
      [] at[c] = "done" -> NumPages
      [] at[c] = "getPage" -> page[c] - 1
      [] OTHER -> 0

\* The last call is under way or over, and whatever is in the container is its
\* or an earlier call's.
CallsInv ==
    /\ \A c \in Calls : c > calls => at[c] = "idle"
    /\ at[calls] # "idle"
    /\ \A c \in Calls : at[c] \in {"getPage", "render"} => page[c] \in 1..NumPages
    /\ \A i \in DOMAIN container : container[i].call <= calls

\* What the last call has appended so far, in its own width.
PagesInv ==
    at[calls] # "failed" =>
        /\ {container[i].page : i \in PlacesOf(calls)} = 1..PagesSoFar(calls)
        /\ \A i, j \in PlacesOf(calls) : i < j => container[i].page < container[j].page
        /\ \A i \in PlacesOf(calls) : container[i].width = width[calls]

\* Its width is the window's unless a resize will start another call.
WidthInv ==
    ~resizeTimer /\ at[calls] \in {"getPage", "render", "done"} =>
        width[calls] = windowWidth

AloneInv ==
    alone => /\ \A c \in Calls : c < calls => ~Running(c)
             /\ \A i \in DOMAIN container : container[i].call = calls

PdfInv == PdfTypeOK /\ CallsInv /\ PagesInv /\ WidthInv /\ AloneInv

\* A page is put after all that is there.
LEMMA AppendedPage ==
    ASSUME PdfTypeOK, NEW x \in Canvases, container' = Append(container, x)
    PROVE  /\ container' \in Seq(Canvases)
           /\ Len(container) \in Nat /\ DOMAIN container = 1..Len(container)
           /\ DOMAIN container' = 1..(Len(container) + 1)
           /\ \A i \in DOMAIN container : container'[i] = container[i]
           /\ container'[Len(container) + 1] = x
<1>1. container \in Seq(Canvases)
  BY DEF PdfTypeOK
<1>2. /\ Append(container, x) \in Seq(Canvases)
      /\ Len(container) \in Nat /\ Len(Append(container, x)) = Len(container) + 1
      /\ \A i \in 1..Len(container) : Append(container, x)[i] = container[i]
      /\ Append(container, x)[Len(container) + 1] = x
  BY <1>1, AppendProperties
<1>. QED
  BY <1>1, <1>2, LenProperties

LEMMA LoadedKeepsPdf ==
    ASSUME PdfInv, NEW c \in Calls, DocumentLoaded(c)
    PROVE  PdfInv'
<1>. USE PdfAssumption DEF Calls
<1>1. /\ at[c] = "getDocument" /\ pdfDoc' = TRUE
      /\ at' = [at EXCEPT ![c] = "getPage"] /\ page' = [page EXCEPT ![c] = 1]
      /\ width' = [width EXCEPT ![c] = windowWidth]
      /\ UNCHANGED <<container, errorShown, windowWidth, resizeTimer, calls, alone, resizes>>
  BY DEF DocumentLoaded, BeginLoop
<1>2. PdfTypeOK'
  BY <1>1 DEF PdfInv, PdfTypeOK, Canvases
<1>3. CallsInv'
  BY <1>1 DEF PdfInv, PdfTypeOK, CallsInv
<1>4. PagesInv'
  <2>1. CASE c = calls
    <3>1. {container[i].page : i \in PlacesOf(calls)} = 1..0
      BY <1>1, <2>1, Zenon DEF PdfInv, PagesInv, PagesSoFar
    <3>2. PlacesOf(calls) = {}
      BY <3>1
    <3>3. PagesSoFar(calls)' = 0 /\ PlacesOf(calls)' = {}
      BY <1>1, <2>1, <3>2 DEF PdfInv, PdfTypeOK, PagesSoFar, PlacesOf
    <3>. QED
      BY <3>3 DEF PagesInv
  <2>2. CASE c # calls
    <3>1. /\ PagesSoFar(calls)' = PagesSoFar(calls) /\ PlacesOf(calls)' = PlacesOf(calls)
          /\ width'[calls] = width[calls] /\ at'[calls] = at[calls]
      BY <1>1, <2>2 DEF PdfInv, PdfTypeOK, PagesSoFar, PlacesOf
    <3>. QED
      BY <1>1, <3>1 DEF PdfInv, PagesInv
  <2>. QED
    BY <2>1, <2>2
<1>5. WidthInv' /\ AloneInv'
  BY <1>1 DEF PdfInv, PdfTypeOK, WidthInv, AloneInv, Running
<1>. QED
  BY <1>2, <1>3, <1>4, <1>5 DEF PdfInv

LEMMA ArrivalKeepsPdf ==
    ASSUME PdfInv, NEW c \in Calls, PageArrives(c)
    PROVE  PdfInv'
<1>. USE PdfAssumption DEF Calls
<1>. DEFINE x == [call |-> c, page |-> page[c], width |-> width[c]]
            n == Len(container)
<1>1. /\ at[c] = "getPage" /\ at' = [at EXCEPT ![c] = "render"]
      /\ container' = Append(container, x)
      /\ UNCHANGED <<pdfDoc, errorShown, windowWidth, resizeTimer, calls, page, width, alone,
                     resizes>>
  BY DEF PageArrives
<1>2. /\ page[c] \in 1..NumPages /\ x \in Canvases /\ c <= calls /\ calls \in Calls
      /\ x.call = c /\ x.page = page[c] /\ x.width = width[c]
  BY <1>1 DEF PdfInv, PdfTypeOK, CallsInv, Canvases
<1>. HIDE DEF x
<1>3. /\ container' \in Seq(Canvases)
      /\ n \in Nat /\ DOMAIN container = 1..n /\ DOMAIN container' = 1..(n + 1)
      /\ \A i \in 1..n : container'[i] = container[i]
      /\ container'[n + 1] = x
  BY <1>1, <1>2, AppendedPage DEF PdfInv
<1>. HIDE DEF n
<1>4. PdfTypeOK'
  BY <1>1, <1>3 DEF PdfInv, PdfTypeOK
<1>5. CallsInv'
  BY <1>1, <1>2, <1>3 DEF PdfInv, PdfTypeOK, CallsInv
<1>6. PagesInv'
  <2>1. CASE c = calls
    <3>1. PlacesOf(calls)' = PlacesOf(calls) \union {n + 1} /\ PlacesOf(calls) \subseteq 1..n
      BY <1>1, <1>2, <1>3, <2>1 DEF PlacesOf
    <3>2. /\ {container[i].page : i \in PlacesOf(calls)} = 1..(page[c] - 1)
          /\ \A i, j \in PlacesOf(calls) : i < j => container[i].page < container[j].page
          /\ \A i \in PlacesOf(calls) : container[i].width = width[calls]
      BY <1>1, <2>1 DEF PdfInv, PagesInv, PagesSoFar
    <3>3. {container'[i].page : i \in PlacesOf(calls)'} = 1..page[c]
      <4>1. {container'[i].page : i \in PlacesOf(calls)'}
               = {container[i].page : i \in PlacesOf(calls)} \union {page[c]}
        BY <1>2, <1>3, <3>1
      <4>. QED
        BY <1>2, <3>2, <4>1
    <3>4. ASSUME NEW i \in PlacesOf(calls)', NEW j \in PlacesOf(calls)', i < j
          PROVE  container'[i].page < container'[j].page
      <4>1. i \in PlacesOf(calls)
        BY <1>3, <3>1, <3>4
      <4>2. container'[i].page = container[i].page /\ container[i].page \in 1..(page[c] - 1)
        BY <1>3, <3>1, <3>2, <4>1
      <4>3. CASE j = n + 1
        BY <1>2, <1>3, <4>2, <4>3
      <4>4. CASE j \in PlacesOf(calls)
        BY <1>3, <3>1, <3>2, <3>4, <4>1, <4>4
      <4>. QED
        BY <3>1, <4>3, <4>4
    <3>5. \A i \in PlacesOf(calls)' : container'[i].width = width[calls]
      BY <1>2, <1>3, <2>1, <3>1, <3>2
    <3>6. PagesSoFar(calls)' = page[c]
      BY <1>1, <2>1 DEF PdfInv, PdfTypeOK, PagesSoFar
    <3>. QED
      BY <1>1, <3>3, <3>4, <3>5, <3>6 DEF PagesInv
  <2>2. CASE c # calls
    <3>1. PlacesOf(calls)' = PlacesOf(calls) /\ PlacesOf(calls) \subseteq 1..n
      BY <1>1, <1>2, <1>3, <2>2 DEF PlacesOf
    <3>2. PagesSoFar(calls)' = PagesSoFar(calls) /\ at'[calls] = at[calls]
      BY <1>1, <2>2 DEF PdfInv, PdfTypeOK, PagesSoFar
    <3>3. {container'[i].page : i \in PlacesOf(calls)'} = {container[i].page : i \in PlacesOf(calls)}
      BY <1>3, <3>1
    <3>. QED
      BY <1>1, <1>3, <3>1, <3>2, <3>3 DEF PdfInv, PagesInv
  <2>. QED
    BY <2>1, <2>2
<1>7. WidthInv'
  BY <1>1 DEF PdfInv, PdfTypeOK, WidthInv
<1>8. AloneInv'
  <2>1. alone => c = calls
    BY <1>1, <1>2 DEF PdfInv, AloneInv, Running
  <2>. QED
    BY <1>1, <1>2, <1>3, <2>1 DEF PdfInv, PdfTypeOK, AloneInv, Running
<1>. QED
  BY <1>4, <1>5, <1>6, <1>7, <1>8 DEF PdfInv

LEMMA RenderedKeepsPdf ==
    ASSUME PdfInv, NEW c \in Calls, PageRendered(c)
    PROVE  PdfInv'
<1>. USE PdfAssumption DEF Calls
<1>1. /\ at[c] = "render" /\ page' = [page EXCEPT ![c] = @ + 1]
      /\ at' = [at EXCEPT ![c] = IF page[c] < NumPages THEN "getPage" ELSE "done"]
      /\ UNCHANGED <<pdfDoc, container, errorShown, windowWidth, resizeTimer, calls, width, alone,
                     resizes>>
  BY DEF PageRendered
<1>2. page[c] \in 1..NumPages /\ calls \in Calls
  BY <1>1 DEF PdfInv, PdfTypeOK, CallsInv
<1>3. PdfTypeOK'
  BY <1>1, <1>2 DEF PdfInv, PdfTypeOK, Canvases
<1>4. CallsInv'
  BY <1>1, <1>2 DEF PdfInv, PdfTypeOK, CallsInv
<1>5. PagesSoFar(calls)' = PagesSoFar(calls) /\ (at'[calls] = "failed" <=> at[calls] = "failed")
  BY <1>1, <1>2 DEF PdfInv, PdfTypeOK, PagesSoFar
<1>6. PagesInv'
  BY <1>1, <1>5 DEF PdfInv, PagesInv, PlacesOf
<1>7. WidthInv' /\ AloneInv'
  BY <1>1 DEF PdfInv, PdfTypeOK, WidthInv, AloneInv, Running
<1>. QED
  BY <1>3, <1>4, <1>6, <1>7 DEF PdfInv

LEMMA FailureKeepsPdf ==
    ASSUME PdfInv, NEW c \in Calls, RenderFails(c)
    PROVE  PdfInv'
<1>. USE PdfAssumption DEF Calls
<1>1. /\ Running(c) /\ at' = [at EXCEPT ![c] = "failed"] /\ errorShown' = TRUE
      /\ UNCHANGED <<pdfDoc, container, windowWidth, resizeTimer, calls, page, width, alone, resizes>>
  BY DEF RenderFails
<1>2. PdfTypeOK'
  BY <1>1 DEF PdfInv, PdfTypeOK, Canvases
<1>3. CallsInv'
  BY <1>1 DEF PdfInv, PdfTypeOK, CallsInv, Running
<1>4. PagesInv'
  BY <1>1 DEF PdfInv, PdfTypeOK, PagesInv, PlacesOf, PagesSoFar
<1>5. WidthInv' /\ AloneInv'
  BY <1>1 DEF PdfInv, PdfTypeOK, WidthInv, AloneInv, Running
<1>. QED
  BY <1>2, <1>3, <1>4, <1>5 DEF PdfInv

LEMMA ResizeKeepsPdf ==
    ASSUME PdfInv, NEW w \in Widths, Resize(w)
    PROVE  PdfInv'
BY DEF Resize, PdfInv, PdfTypeOK, CallsInv, PagesInv, PagesSoFar, PlacesOf, WidthInv, AloneInv, Running

\* A new call starts with an empty container, whatever the others go on doing.
LEMMA RenderKeepsPdf ==
    ASSUME PdfInv, ResizeTimer
    PROVE  PdfInv'
<1>. USE PdfAssumption DEF Calls
<1>1. /\ resizeTimer' = FALSE /\ calls < MaxRenders /\ calls' = calls + 1
      /\ alone' = (~\E c \in Calls : Running(c)) /\ container' = <<>>
      /\ UNCHANGED <<pdfDoc, errorShown, windowWidth, resizes>>
  BY DEF ResizeTimer, RenderPDF
<1>2. \/ BeginLoop(calls + 1)
      \/ at' = [at EXCEPT ![calls + 1] = "getDocument"] /\ UNCHANGED <<page, width>>
  BY DEF ResizeTimer, RenderPDF
<1>3. calls' \in Calls /\ calls \in Calls
  BY <1>1 DEF PdfInv, PdfTypeOK
<1>4. /\ \A c \in Calls : c # calls' => at'[c] = at[c] /\ page'[c] = page[c]
      /\ \/ at'[calls'] = "getDocument"
         \/ at'[calls'] = "getPage" /\ page'[calls'] = 1 /\ width'[calls'] = windowWidth
  BY <1>1, <1>2, <1>3 DEF BeginLoop, PdfInv, PdfTypeOK
<1>5. PdfTypeOK'
  <2>1. container' \in Seq(Canvases)
    BY <1>1
  <2>2. alone' \in BOOLEAN /\ resizeTimer' \in BOOLEAN
    BY <1>1
  <2>3. /\ at' \in [Calls -> {"idle", "getDocument", "getPage", "render", "done", "failed"}]
        /\ page' \in [Calls -> 0..(NumPages + 1)] /\ width' \in [Calls -> Widths]
    <3>1. windowWidth \in Widths /\ 1 \in 0..(NumPages + 1)
      BY DEF PdfInv, PdfTypeOK
    <3>2. CASE BeginLoop(calls + 1)
      BY <1>1, <1>3, <3>1, <3>2 DEF BeginLoop, PdfInv, PdfTypeOK
    <3>3. CASE at' = [at EXCEPT ![calls + 1] = "getDocument"] /\ UNCHANGED <<page, width>>
      BY <1>1, <1>3, <3>3 DEF PdfInv, PdfTypeOK
    <3>. QED
      BY <1>2, <3>2, <3>3
  <2>. QED
    BY <1>1, <1>3, <2>1, <2>2, <2>3 DEF PdfInv, PdfTypeOK
<1>6. DOMAIN container' = {} /\ PlacesOf(calls)' = {}
  BY <1>1 DEF PlacesOf
<1>7. CallsInv'
  <2>1. \A c \in Calls : c > calls' => at'[c] = "idle"
    BY <1>1, <1>3, <1>4 DEF PdfInv, CallsInv
  <2>2. \A c \in Calls : at'[c] \in {"getPage", "render"} => page'[c] \in 1..NumPages
    <3>1. ASSUME NEW c \in Calls, at'[c] \in {"getPage", "render"}
          PROVE  page'[c] \in 1..NumPages
      <4>1. CASE c = calls'
        BY <1>4, <3>1, <4>1
      <4>2. CASE c # calls'
        BY <1>4, <3>1, <4>2 DEF PdfInv, CallsInv
      <4>. QED
        BY <4>1, <4>2
    <3>. QED
      BY <3>1
  <2>3. at'[calls'] # "idle"
    BY <1>4
  <2>. QED
    BY <1>6, <2>1, <2>2, <2>3 DEF CallsInv
<1>8. PagesInv'
  <2>1. PagesSoFar(calls)' = 0
    BY <1>4 DEF PagesSoFar
  <2>. QED
    BY <1>6, <2>1 DEF PagesInv
<1>9. WidthInv'
  BY <1>1, <1>4 DEF WidthInv
<1>10. AloneInv'
  <2>1. ASSUME alone', NEW c \in Calls, c < calls'
        PROVE  ~Running(c)'
    <3>1. c # calls'
      BY <1>3, <2>1
    <3>2. ~Running(c)
      BY <1>1, <2>1, Zenon
    <3>. QED
      BY <1>4, <3>1, <3>2 DEF Running
  <2>. QED
    BY <1>6, <2>1 DEF AloneInv
<1>. QED
  BY <1>5, <1>7, <1>8, <1>9, <1>10 DEF PdfInv

LEMMA PdfInductive ==
    /\ PdfInit => PdfInv
    /\ PdfInv /\ [PdfNext]_pdfVars => PdfInv'
<1>. USE PdfAssumption
<1>1. ASSUME PdfInit PROVE PdfInv
  <2>1. container = <<>> /\ DOMAIN container = {} /\ calls = 1 /\ 1 \in Calls
    BY <1>1 DEF PdfInit, Calls
  <2>2. PdfTypeOK
    <3>1. container \in Seq(Canvases)
      BY <2>1
    <3>2. /\ pdfDoc = FALSE /\ errorShown = FALSE /\ resizeTimer = FALSE /\ alone = TRUE
          /\ windowWidth \in Widths /\ resizes \in Nat
      BY <1>1 DEF PdfInit
    <3>3. /\ at \in [Calls -> {"idle", "getDocument", "getPage", "render", "done", "failed"}]
          /\ page \in [Calls -> 0..(NumPages + 1)]
      BY <1>1 DEF PdfInit
    <3>4. width \in [Calls -> Widths]
      BY <1>1, <3>2 DEF PdfInit
    <3>. QED
      BY <2>1, <3>1, <3>2, <3>3, <3>4 DEF PdfTypeOK
  <2>3. CallsInv
    BY <1>1, <2>1 DEF PdfInit, CallsInv, Calls
  <2>4. PagesInv
    <3>1. PagesSoFar(calls) = 0 /\ PlacesOf(calls) = {}
      BY <1>1, <2>1 DEF PdfInit, PagesSoFar, PlacesOf
    <3>. QED
      BY <3>1 DEF PagesInv
  <2>5. WidthInv /\ AloneInv
    BY <1>1, <2>1 DEF PdfInit, WidthInv, AloneInv, Running, Calls
  <2>. QED
    BY <2>2, <2>3, <2>4, <2>5 DEF PdfInv
<1>2. ASSUME PdfInv, [PdfNext]_pdfVars PROVE PdfInv'
  <2>1. CASE UNCHANGED pdfVars
    BY <1>2, <2>1 DEF pdfVars, PdfInv, PdfTypeOK, CallsInv, PagesInv, PagesSoFar, PlacesOf,
                      WidthInv, AloneInv, Running
  <2>. QED
    BY <1>2, <2>1, LoadedKeepsPdf, ArrivalKeepsPdf, RenderedKeepsPdf, FailureKeepsPdf,
       ResizeKeepsPdf, RenderKeepsPdf DEF PdfNext
<1>. QED
  BY <1>1, <1>2

\* The viewer keeps its types: no call is at a page that the document does not
\* have, no canvas shows one.
THEOREM PdfTypes == PdfSpec => []PdfTypeOK
<1>1. PdfInv => PdfTypeOK
  BY DEF PdfInv
<1>. QED
  BY <1>1, PdfInductive, PTL DEF PdfSpec

\* The last rendering is complete, in order and of the window's width, whatever
\* earlier calls go on appending, for documents of any length and any widths.
THEOREM RenderingIsComplete == PdfSpec => []PagesComplete
<1>1. PdfInv => PagesComplete
  BY DEF PdfInv, PagesInv, WidthInv, AloneInv, PagesComplete, PlacesOf, PagesSoFar
<1>. QED
  BY <1>1, PdfInductive, PTL DEF PdfSpec

-----------------------------------------------------------------------------
(* The tab. *)

LEMMA OnePageSteps ==
    /\ PagesInit => ExploreInit /\ RecoveryInit /\ PdfInit
    /\ [PagesNext]_pagesVars =>
          [ExploreNext]_exploreVars /\ [RecoveryNext]_recoveryVars /\ [PdfNext]_pdfVars
<1>1. PagesInit => ExploreInit /\ RecoveryInit /\ PdfInit
  BY DEF PagesInit
<1>2. UNCHANGED pagesVars => UNCHANGED <<exploreVars, recoveryVars, pdfVars>>
  BY DEF pagesVars
<1>3. PagesNext => \/ ExploreNext /\ UNCHANGED <<recoveryVars, pdfVars>>
                   \/ RecoveryNext /\ UNCHANGED <<exploreVars, pdfVars>>
                   \/ PdfNext /\ UNCHANGED <<exploreVars, recoveryVars>>
  BY DEF PagesNext
<1>. QED
  BY <1>1, <1>2, <1>3

\* Each page behaves in the tab as it does alone.
LEMMA PagesAreAlone == PagesSpec => ExploreSpec /\ RecoverySpec /\ PdfSpec
BY OnePageSteps, PTL DEF PagesSpec, ExploreSpec, RecoverySpec, PdfSpec

\* Whatever page the tab shows, every variable of the three pages keeps its type.
THEOREM PageTypes == PagesSpec => []PagesTypeOK
BY PagesAreAlone, TypeCorrect, RecoveryTypes, PdfTypes, PTL DEF PagesTypeOK

\* And every property of a page holds of the tab.
THEOREM PagesKeepPromises ==
    PagesSpec => [](/\ ListFollowsControls /\ UrlNamesEntity /\ PreviewBelongs
                    /\ SelectionAgrees /\ SourcePanelAgrees
                    /\ PanesAgree /\ SetupSynchronises
                    /\ PagesComplete)
BY PagesAreAlone, ListIsAskedFor, AddressIsShown, PreviewFits, SelectionsAgree, SourceIsAskedFor,
   PanesStayAlike, SetupsSynchronise, RenderingIsComplete, PTL
==============================================================================
