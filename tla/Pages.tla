------------------------------- MODULE Pages --------------------------------
(* The pages of the web interface that have a script of their own, as a    *)
(* tab of a browser shows them: one at a time.  They share the tab and     *)
(* nothing else; another page is another document, with its own scripts.   *)
EXTENDS Explore, RecoveryPage, PdfEmbed

VARIABLE url   \* the page that the tab shows

pagesVars == <<url, exploreVars, recoveryVars, pdfVars>>

PagesInit ==
    /\ ExploreInit /\ RecoveryInit /\ PdfInit
    /\ url \in {"/", "/recoveries/1", "/pdf/embed"}

PagesNext ==
    /\ UNCHANGED url
    /\ \/ url = "/" /\ ExploreNext /\ UNCHANGED <<recoveryVars, pdfVars>>
       \/ url = "/recoveries/1" /\ RecoveryNext /\ UNCHANGED <<exploreVars, pdfVars>>
       \/ url = "/pdf/embed" /\ PdfNext /\ UNCHANGED <<exploreVars, recoveryVars>>

PagesSpec == PagesInit /\ [][PagesNext]_pagesVars

\* Every variable of the three pages keeps its type.
PagesTypeOK == ExploreTypeOK /\ RecoveryTypeOK /\ PdfTypeOK
=============================================================================
