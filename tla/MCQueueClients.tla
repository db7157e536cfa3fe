--------------------------- MODULE MCQueueClients ---------------------------
(* Three tabs on one worker; two of them share a browser.                  *)
EXTENDS QueueClients

CONSTANTS r1, r2, r3, b1, b2

MCRequests == {r1, r2, r3}
MCBrowsers == {b1, b2}
MCBrowserOf == [r \in Requests |-> IF r = r3 THEN b2 ELSE b1]
=============================================================================
