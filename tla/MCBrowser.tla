----------------------------- MODULE MCBrowser -----------------------------
(* What runs in a browser: the tabs that wait in the queue, and the pages  *)
(* with scripts.  They share nothing: a behaviour is one of either, beside *)
(* the other at rest.                                                      *)
EXTENDS MCQueueClients, MCPages

VARIABLE part   \* which of the two

MCBrowserInit ==
    /\ part \in {"queue", "pages"}
    /\ ClientInit /\ MCPagesInit
    /\ part = "queue" => url = "/" /\ history[1].url = None

MCBrowserNext ==
    /\ UNCHANGED part
    /\ \/ part = "queue" /\ ClientNext /\ UNCHANGED pagesVars
       \/ part = "pages" /\ PagesNext /\ UNCHANGED allVars

MCBrowserSpec ==
    /\ MCBrowserInit /\ [][MCBrowserNext]_<<part, allVars, pagesVars>>
    /\ ClientFairness   \* asks nothing of tabs at rest
=============================================================================
