---------------------------- MODULE MCAdmission ----------------------------
(* A small worker for TLC: three requests compete for two slots, the queue *)
(* holds three tickets, and one id is left for a cookie of a ticket that   *)
(* is gone.                                                                *)
EXTENDS Admission

\* Whatever the cfg chooses, the interesting cases must be able to happen.
ASSUME MCAdmissionAssumption ==
    /\ Cardinality(Requests) > MaxConcurrent
    /\ Cardinality(Tickets) > MaxQueue
=============================================================================
