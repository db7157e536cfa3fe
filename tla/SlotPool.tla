------------------------------ MODULE SlotPool ------------------------------
(***************************************************************************)
(* What admission control promises, without saying how: a worker has       *)
(* Capacity slots; a slot is held by a running request, or reserved for a  *)
(* ticket whose browser has not come back yet, or free.  The slot of a     *)
(* finished request goes to a ticket or becomes free, and a reservation    *)
(* nobody redeems lapses.  There is no counter here: Admission is shown to *)
(* implement this with a semaphore that is not touched when a slot changes *)
(* hands.  The connection pool implements it too, with max_size slots and  *)
(* no reservations.                                                        *)
(***************************************************************************)
EXTENDS Naturals, FiniteSets

CONSTANTS Requests, Tickets, Capacity

VARIABLES held,     \* the requests that hold a slot
          reserved  \* the tickets a slot is reserved for

poolVars == <<held, reserved>>

Used == Cardinality(held) + Cardinality(reserved)

Init == held = {} /\ reserved = {}

\* A free slot is taken.
Take(r) ==
    /\ r \notin held
    /\ Used < Capacity
    /\ held' = held \union {r}
    /\ UNCHANGED reserved

\* The slot reserved for t becomes the slot of request r.
Redeem(r, t) ==
    /\ r \notin held
    /\ t \in reserved
    /\ held' = held \union {r}
    /\ reserved' = reserved \ {t}

\* A request ends and its slot is reserved for t.
HandOver(r, t) ==
    /\ r \in held
    /\ t \notin reserved
    /\ held' = held \ {r}
    /\ reserved' = reserved \union {t}

\* A request ends and its slot is free.
Free(r) ==
    /\ r \in held
    /\ held' = held \ {r}
    /\ UNCHANGED reserved

\* The reservations in S were not redeemed in time.
Lapse(S) ==
    /\ S \subseteq reserved
    /\ S # {}
    /\ reserved' = reserved \ S
    /\ UNCHANGED held

Finish(r) == Free(r) \/ \E t \in Tickets : HandOver(r, t)
Settle(t) == \/ \E r \in Requests : Redeem(r, t)
             \/ \E S \in SUBSET reserved : t \in S /\ Lapse(S)

Next ==
    \/ \E r \in Requests : Take(r) \/ Finish(r)
    \/ \E t \in Tickets : Settle(t)

\* No request runs for ever and no reservation stays for ever.
Fairness ==
    /\ \A r \in Requests : WF_poolVars(Finish(r))
    /\ \A t \in Tickets : WF_poolVars(Settle(t))

Safety == Init /\ [][Next]_poolVars
Spec == Safety /\ Fairness
=============================================================================
