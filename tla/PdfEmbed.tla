------------------------------ MODULE PdfEmbed ------------------------------
(***************************************************************************)
(* The embedded PDF viewer, src/teredacta/static/js/pdf-embed.js.          *)
(* renderPDF is asynchronous and nothing stops one call before the next: a *)
(* resize starts another 300 ms later, which empties the container while   *)
(* the calls before it go on appending their pages.  An action is what     *)
(* runs between two awaits.                                                *)
(*                                                                         *)
(* Abstractions.  A canvas is the call that appended it, its page number   *)
(* and the width it is scaled to; drawing on it is not modelled.           *)
(***************************************************************************)
EXTENDS Integers, Sequences

CONSTANTS NumPages,   \* pdfDoc.numPages
          Widths,     \* widths of the window
          MaxRenders, \* bound: calls of renderPDF
          MaxResizes  \* bound: resize events

ASSUME PdfAssumption ==
    /\ NumPages \in Nat \ {0}
    /\ MaxRenders \in Nat \ {0}

VARIABLES pdfDoc,      \* the document is loaded
          container,   \* the canvases in the container, in order
          errorShown,  \* errorEl is displayed
          windowWidth,
          resizeTimer, \* the timer of the last resize runs
          calls,       \* calls of renderPDF so far
          at,          \* where each call is suspended
          page,        \* the page each call is at
          width,       \* containerWidth of each call
          alone,       \* no call was under way when the last one began
          resizes      \* resize events so far

pdfVars == <<pdfDoc, container, errorShown, windowWidth, resizeTimer, calls, at, page,
             width, alone, resizes>>

Calls == 1..MaxRenders
Canvases == [call : Calls, page : 1..NumPages, width : Widths]
Running(c) == at[c] \in {"getDocument", "getPage", "render"}

\* After the document is there: the width is read, the loop begins.
BeginLoop(c) ==
    /\ at' = [at EXCEPT ![c] = "getPage"]
    /\ page' = [page EXCEPT ![c] = 1]
    /\ width' = [width EXCEPT ![c] = windowWidth]

\* Mutant: the container is not emptied.
RenderPDFAppending ==
    /\ calls < MaxRenders
    /\ calls' = calls + 1
    /\ alone' = ~\E c \in Calls : Running(c)
    /\ IF pdfDoc
       THEN BeginLoop(calls + 1)
       ELSE /\ at' = [at EXCEPT ![calls + 1] = "getDocument"]
            /\ UNCHANGED <<page, width>>
    /\ UNCHANGED container

\* renderPDF up to its first await.
RenderPDF ==
    /\ calls < MaxRenders
    /\ calls' = calls + 1
    /\ alone' = ~\E c \in Calls : Running(c)
    /\ container' = <<>>
    /\ IF pdfDoc
       THEN BeginLoop(calls + 1)
       ELSE /\ at' = [at EXCEPT ![calls + 1] = "getDocument"]
            /\ UNCHANGED <<page, width>>

\* The module's last line has called renderPDF once.
PdfInit ==
    /\ pdfDoc = FALSE /\ container = <<>> /\ errorShown = FALSE
    /\ windowWidth \in Widths
    /\ resizeTimer = FALSE
    /\ calls = 1 /\ alone = TRUE
    /\ at = [c \in Calls |-> IF c = 1 THEN "getDocument" ELSE "idle"]
    /\ page = [c \in Calls |-> 0]
    /\ width \in [Calls -> {windowWidth}]
    /\ resizes = 0

DocumentLoaded(c) ==
    /\ at[c] = "getDocument"
    /\ pdfDoc' = TRUE
    /\ BeginLoop(c)
    /\ UNCHANGED <<container, errorShown, windowWidth, resizeTimer, calls, alone, resizes>>

\* page.getViewport, and a canvas of that size at the end of the container.
PageArrives(c) ==
    /\ at[c] = "getPage"
    /\ container' = Append(container, [call |-> c, page |-> page[c], width |-> width[c]])
    /\ at' = [at EXCEPT ![c] = "render"]
    /\ UNCHANGED <<pdfDoc, errorShown, windowWidth, resizeTimer, calls, page, width, alone, resizes>>

PageRendered(c) ==
    /\ at[c] = "render"
    /\ page' = [page EXCEPT ![c] = @ + 1]
    /\ at' = [at EXCEPT ![c] = IF page[c] < NumPages THEN "getPage" ELSE "done"]
    /\ UNCHANGED <<pdfDoc, container, errorShown, windowWidth, resizeTimer, calls, width, alone,
                   resizes>>

\* Any of the three promises may reject.
RenderFails(c) ==
    /\ Running(c)
    /\ at' = [at EXCEPT ![c] = "failed"]
    /\ errorShown' = TRUE
    /\ UNCHANGED <<pdfDoc, container, windowWidth, resizeTimer, calls, page, width, alone, resizes>>

Resize(w) ==
    /\ resizes < MaxResizes
    /\ resizes' = resizes + 1
    /\ windowWidth' = w
    /\ resizeTimer' = TRUE
    /\ UNCHANGED <<pdfDoc, container, errorShown, calls, at, page, width, alone>>

ResizeTimer ==
    /\ resizeTimer
    /\ resizeTimer' = FALSE
    /\ RenderPDF
    /\ UNCHANGED <<pdfDoc, errorShown, windowWidth, resizes>>

PdfNext ==
    \/ \E c \in Calls : DocumentLoaded(c) \/ PageArrives(c) \/ PageRendered(c) \/ RenderFails(c)
    \/ \E w \in Widths : Resize(w)
    \/ ResizeTimer

PdfSpec == PdfInit /\ [][PdfNext]_pdfVars
-----------------------------------------------------------------------------
(* Properties. *)

PdfTypeOK ==
    /\ pdfDoc \in BOOLEAN /\ errorShown \in BOOLEAN /\ resizeTimer \in BOOLEAN /\ alone \in BOOLEAN
    /\ container \in Seq(Canvases)
    /\ windowWidth \in Widths
    /\ calls \in Calls
    /\ at \in [Calls -> {"idle", "getDocument", "getPage", "render", "done", "failed"}]
    /\ page \in [Calls -> 0..(NumPages + 1)]
    /\ width \in [Calls -> Widths]
    /\ resizes \in Nat

\* Where the canvases of call c are in the container.
PlacesOf(c) == {i \in DOMAIN container : container[i].call = c}

\* When no resize is pending and the last call is done, its pages are all
\* there, once, in order and as wide as the window is now, whatever earlier
\* calls are still appending; and if none was under way when it began, nothing
\* else is in the container.
PagesComplete ==
    ~resizeTimer /\ at[calls] = "done" =>
        /\ {container[i].page : i \in PlacesOf(calls)} = 1..NumPages
        /\ \A i, j \in PlacesOf(calls) : i < j => container[i].page < container[j].page
        /\ \A i \in PlacesOf(calls) : container[i].width = windowWidth
        /\ alone => PlacesOf(calls) = DOMAIN container

=============================================================================
