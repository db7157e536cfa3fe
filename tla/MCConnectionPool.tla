-------------------------- MODULE MCConnectionPool --------------------------
(* More threads than connections: one for the statistics, one for the only *)
(* slot and one that a request before may have left behind.                *)
EXTENDS RequestTimeout

\* One more connection than the pool may open, to see it open one too many; as
\* many as there are slots and polling threads, so that nobody should wait.
ASSUME MCAssumption ==
    /\ Cardinality(Threads) > MaxSize
    /\ Cardinality(Conns) > MaxSize
    /\ Capacity + Cardinality(Pollers) = MaxSize
=============================================================================
