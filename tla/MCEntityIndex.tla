--------------------------- MODULE MCEntityIndex ---------------------------
(* Two threads of one worker.                                              *)
EXTENDS EntityIndex, TLC

CONSTANTS g1, g2, w1

MCThreads == {g1, g2}
MCWorkers == {w1}
MCWorkerOf == [g \in MCThreads |-> w1]
MCSymmetry == Permutations(MCThreads)

\* Behind UTC, and put forward; ahead of it, and put back.
West == [t \in 0..MaxTime |-> IF t < 2 THEN -2 ELSE -1]
East == [t \in 0..MaxTime |-> IF t < 3 THEN 1 ELSE 0]
MCZones == {West, East}

\* A status can expire, and a build can be followed by another.
ASSUME MCEntityIndexAssumption == TTL < MaxTime /\ MaxBuilds > 1
=============================================================================
