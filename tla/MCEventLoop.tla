---------------------------- MODULE MCEventLoop ----------------------------
(* The two things a worker's event loop keeps for its clients, its slots   *)
(* and its subscribers.  They share nothing: a behaviour is one of either, *)
(* beside the other at rest.                                               *)
EXTENDS MCAdmission, MCSSE

VARIABLE part   \* which of the two

MCEventLoopInit ==
    /\ AdmissionInit /\ SSEInit
    /\ part \in {"slots", "statistics"}

MCEventLoopNext ==
    /\ UNCHANGED part
    /\ \/ part = "slots" /\ AdmissionNext /\ UNCHANGED sseVars
       \/ part = "statistics" /\ SSENext /\ UNCHANGED admissionVars

MCEventLoopSpec ==
    /\ MCEventLoopInit /\ [][MCEventLoopNext]_<<part, admissionVars, sseVars>>
    /\ AdmissionFairness /\ SSEFairness   \* asks nothing of what rests
=============================================================================
