-------------------------------- MODULE Page --------------------------------
(***************************************************************************)
(* What the scripts of the pages share: requests in flight, which may be   *)
(* answered in any order or fail, and the message a panel shows then.      *)
(* Equal requests have equal answers, so they are counted.                 *)
(***************************************************************************)
EXTENDS Naturals

CONSTANT Failed   \* "Failed to load."

Unsent(requests) == [r \in requests |-> 0]

Sent(reqs, r) == [reqs EXCEPT ![r] = @ + 1]

Answered(reqs, r) == [reqs EXCEPT ![r] = @ - 1]

\* Is any of these in flight?
Pending(reqs) == \E r \in DOMAIN reqs : reqs[r] > 0
=============================================================================
