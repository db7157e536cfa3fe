------------------------------- MODULE MCSSE -------------------------------
(* Three clients for two places, queues that fill at two events.           *)
EXTENDS SSE

\* The limit and the eviction of slow readers must both be reachable.
ASSUME MCSSEAssumption ==
    /\ Cardinality(Clients) > MaxSubscribers
    /\ MaxVersion > QueueSize
=============================================================================
