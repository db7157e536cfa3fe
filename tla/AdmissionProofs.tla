-------------------------- MODULE AdmissionProofs --------------------------
(***************************************************************************)
(* Proofs about Admission for every number of requests, tickets, slots and *)
(* queue places, and about the tabs of QueueClients for every number of    *)
(* tabs and browsers.  The type invariant is not inductive alone: that a   *)
(* completing request cannot push the semaphore above MaxConcurrent needs  *)
(* SlotConservation, which needs the two ticket structures to agree.       *)
(***************************************************************************)
EXTENDS QueueClients, FiniteSetTheorems, WellFoundedInduction, TLAPS

\* The sets that are counted are finite.
Finite == IsFiniteSet(running) /\ IsFiniteSet(DOMAIN tickets)

\* The inductive invariant.
IndInv ==
    /\ AdmissionTypeOK
    /\ Finite
    /\ SlotConservation
    /\ QueueWellFormed
    /\ FirstInFirstReady

-----------------------------------------------------------------------------
\* Under Finite, everything that is counted is finite and counts are naturals.
LEMMA Counts ==
    ASSUME Finite
    PROVE  /\ Cardinality(running) \in Nat
           /\ IsFiniteSet(Ready) /\ Cardinality(Ready) \in Nat
           /\ Cardinality(DOMAIN tickets) \in Nat
           /\ \A S : S \subseteq DOMAIN tickets =>
                 /\ IsFiniteSet(S)
                 /\ Cardinality(S) \in Nat
                 /\ Cardinality(S) <= Cardinality(DOMAIN tickets)
<1>1. IsFiniteSet(running) /\ IsFiniteSet(DOMAIN tickets)
  BY DEF Finite
<1>2. \A S : S \subseteq DOMAIN tickets =>
         IsFiniteSet(S) /\ Cardinality(S) <= Cardinality(DOMAIN tickets)
  BY <1>1, FS_Subset
<1>3. Ready \subseteq DOMAIN tickets
  BY DEF Ready
<1>. QED
  BY <1>1, <1>2, <1>3, FS_CardinalityType

\* A part of a finite set and the rest of it add up to the whole.
LEMMA CardinalityOfRest ==
    ASSUME NEW S, IsFiniteSet(S), NEW T, T \subseteq S
    PROVE  /\ IsFiniteSet(T) /\ IsFiniteSet(S \ T)
           /\ Cardinality(S \ T) + Cardinality(T) = Cardinality(S)
<1>1. IsFiniteSet(T) /\ IsFiniteSet(S \ T)
  BY FS_Subset
<1>2. (S \ T) \union T = S /\ (S \ T) \cap T = {}
  OBVIOUS
<1>3. Cardinality((S \ T) \union T) =
         Cardinality(S \ T) + Cardinality(T) - Cardinality((S \ T) \cap T)
  BY <1>1, FS_Union
<1>4. Cardinality(S) = Cardinality(S \ T) + Cardinality(T) - 0
  BY <1>2, <1>3, FS_EmptySet
<1>5. Cardinality(S) \in Nat /\ Cardinality(T) \in Nat /\ Cardinality(S \ T) \in Nat
  BY <1>1, FS_CardinalityType
<1>. QED
  BY <1>1, <1>4, <1>5

\* Taking any tickets out of both structures, as claims and expiries do, keeps
\* the two equal, the order strict and total, and the slots first come, first
\* served.
LEMMA RemovalKeepsQueue ==
    ASSUME Finite, QueueWellFormed, FirstInFirstReady, NEW S,
           MaxQueue \in Nat,
           tickets' = TicketsWithout(S), ahead' = QueueWithout(S)
    PROVE  /\ DOMAIN tickets' = DOMAIN tickets \ S
           /\ Ready' = Ready \ S
           /\ QueueWellFormed'
           /\ FirstInFirstReady'
<1>1. /\ DOMAIN tickets' = DOMAIN tickets \ S
      /\ DOMAIN ahead' = DOMAIN ahead \ S
      /\ \A t \in DOMAIN tickets' : tickets'[t] = tickets[t]
      /\ \A t \in DOMAIN ahead' : ahead'[t] = ahead[t] \ S
  BY DEF TicketsWithout, QueueWithout
<1>2. Ready' = Ready \ S
  BY <1>1 DEF Ready
<1>3. QueueWellFormed'
  <2>1. Cardinality(DOMAIN ahead') <= MaxQueue
    <3>1. DOMAIN ahead' \subseteq DOMAIN tickets
      BY <1>1 DEF QueueWellFormed
    <3>2. /\ Cardinality(DOMAIN ahead') <= Cardinality(DOMAIN ahead)
          /\ Cardinality(DOMAIN ahead') \in Nat
          /\ Cardinality(DOMAIN ahead) \in Nat
      BY <3>1, Counts DEF QueueWellFormed
    <3>. QED
      BY <3>2 DEF QueueWellFormed
  <2>2. \A t \in DOMAIN ahead' : ahead'[t] \subseteq DOMAIN ahead' \ {t}
    BY <1>1 DEF QueueWellFormed
  <2>3. \A t, u \in DOMAIN ahead' :
           t # u => (u \in ahead'[t] <=> t \notin ahead'[u])
    BY <1>1 DEF QueueWellFormed
  <2>4. \A t \in DOMAIN ahead' : \A u \in ahead'[t] : ahead'[u] \subseteq ahead'[t]
    BY <1>1, <2>2 DEF QueueWellFormed
  <2>. QED
    BY <1>1, <2>1, <2>2, <2>3, <2>4 DEF QueueWellFormed
<1>4. FirstInFirstReady'
  BY <1>1, <1>2 DEF FirstInFirstReady, Ready, QueueWellFormed
<1>. QED
  BY <1>1, <1>2, <1>3, <1>4

-----------------------------------------------------------------------------
(* One lemma per operation that changes the state. *)

\* Claiming moves a slot from the ready tickets to the running requests.
LEMMA ClaimKeepsIndInv ==
    ASSUME IndInv, NEW r \in Requests, NEW c, r \notin running,
           Claim(r, c), expiryLoop' = TRUE
    PROVE  IndInv'
<1>. USE AdmissionAssumption
<1>1. /\ c \in Ready /\ running' = running \union {r} /\ semaphore' = semaphore
      /\ tickets' = TicketsWithout({c}) /\ ahead' = QueueWithout({c})
  BY DEF Claim
<1>2. /\ DOMAIN tickets' = DOMAIN tickets \ {c} /\ Ready' = Ready \ {c}
      /\ QueueWellFormed' /\ FirstInFirstReady'
  BY <1>1, RemovalKeepsQueue DEF IndInv
<1>3. AdmissionTypeOK'
  <2>1. tickets' \in [DOMAIN tickets' -> Ticket]
    BY <1>1 DEF IndInv, AdmissionTypeOK, TicketsWithout
  <2>2. DOMAIN ahead' \subseteq Tickets /\ ahead' \in [DOMAIN ahead' -> SUBSET Tickets]
    BY <1>1 DEF IndInv, AdmissionTypeOK, QueueWithout
  <2>. QED
    BY <1>1, <1>2, <2>1, <2>2 DEF IndInv, AdmissionTypeOK
<1>4. Finite'
  BY <1>1, <1>2, FS_AddElement, FS_RemoveElement DEF IndInv, Finite
<1>5. SlotConservation'
  <2>1. Cardinality(Ready \ {c}) = Cardinality(Ready) - 1
    BY <1>1, Counts, FS_RemoveElement DEF IndInv
  <2>2. Cardinality(running \union {r}) = Cardinality(running) + 1
    BY FS_AddElement DEF IndInv, Finite
  <2>. QED
    BY <1>1, <1>2, <2>1, <2>2, Counts DEF IndInv, SlotConservation, AdmissionTypeOK
<1>. QED
  BY <1>2, <1>3, <1>4, <1>5 DEF IndInv

\* Acquiring moves a slot from the semaphore to the running requests.
LEMMA AcquireKeepsIndInv ==
    ASSUME IndInv, NEW r \in Requests, NEW c, r \notin running,
           Acquire(r, c), expiryLoop' = TRUE
    PROVE  IndInv'
<1>. USE AdmissionAssumption
<1>1. /\ semaphore > 0 /\ semaphore' = semaphore - 1
      /\ running' = running \union {r}
      /\ tickets' = tickets /\ ahead' = ahead
  BY DEF Acquire
<1>2. Ready' = Ready
  BY <1>1 DEF Ready
<1>3. AdmissionTypeOK'
  BY <1>1 DEF IndInv, AdmissionTypeOK
<1>4. Finite'
  BY <1>1, FS_AddElement DEF IndInv, Finite
<1>5. SlotConservation'
  <2>1. Cardinality(running \union {r}) = Cardinality(running) + 1
    BY FS_AddElement DEF IndInv, Finite
  <2>. QED
    BY <1>1, <1>2, <2>1, Counts DEF IndInv, SlotConservation, AdmissionTypeOK
<1>6. QueueWellFormed' /\ FirstInFirstReady'
  BY <1>1, <1>2 DEF IndInv, QueueWellFormed, FirstInFirstReady
<1>. QED
  BY <1>3, <1>4, <1>5, <1>6 DEF IndInv

\* A new ticket goes to the end of the queue and holds no slot.
LEMMA EnqueueKeepsIndInv ==
    ASSUME IndInv, NEW c, NEW t \in Tickets, Enqueue(c, t), expiryLoop' = TRUE
    PROVE  IndInv'
<1>. USE AdmissionAssumption
<1>1. /\ t \notin DOMAIN tickets
      /\ tickets' = [u \in DOMAIN tickets \union {t} |->
                       IF u = t THEN [ready |-> FALSE, age |-> 0] ELSE tickets[u]]
      /\ ahead' = Appended(t)
      /\ semaphore' = semaphore /\ running' = running
  BY DEF Enqueue
<1>2. /\ DOMAIN tickets' = DOMAIN tickets \union {t}
      /\ DOMAIN ahead' = DOMAIN ahead \union {t}
      /\ \A u \in DOMAIN tickets : tickets'[u] = tickets[u]
      /\ tickets'[t].ready = FALSE
      /\ \A u \in DOMAIN ahead : ahead'[u] = ahead[u]
      /\ ahead'[t] = DOMAIN ahead
  BY <1>1 DEF Appended, IndInv, QueueWellFormed
<1>3. Ready' = Ready
  BY <1>1, <1>2 DEF Ready
<1>4. AdmissionTypeOK'
  <2>1. tickets' \in [DOMAIN tickets' -> Ticket]
    BY <1>1 DEF IndInv, AdmissionTypeOK, Ticket
  <2>2. ahead' \in [DOMAIN ahead' -> SUBSET Tickets]
    BY <1>1 DEF IndInv, AdmissionTypeOK, Appended
  <2>. QED
    BY <1>1, <1>2, <2>1, <2>2 DEF IndInv, AdmissionTypeOK
<1>5. Finite'
  BY <1>1, <1>2, FS_AddElement DEF IndInv, Finite
<1>6. SlotConservation'
  BY <1>1, <1>3 DEF IndInv, SlotConservation
<1>7. QueueWellFormed'
  <2>1. Cardinality(DOMAIN ahead') <= MaxQueue
    <3>0. IsFiniteSet(DOMAIN ahead) /\ t \notin DOMAIN ahead
      BY <1>1 DEF IndInv, Finite, QueueWellFormed
    <3>1. Cardinality(DOMAIN ahead') = Cardinality(DOMAIN ahead) + 1
      BY <1>2, <3>0, FS_AddElement
    <3>2. ~(Cardinality(DOMAIN ahead) >= MaxQueue)
      BY DEF Enqueue, QueueFull
    <3>. QED
      BY <3>1, <3>2, Counts DEF IndInv, QueueWellFormed
  <2>. QED
    BY <1>1, <1>2, <2>1 DEF IndInv, QueueWellFormed
<1>8. FirstInFirstReady'
  <2>1. \A u \in Ready : ahead'[u] = ahead[u]
    BY <1>2 DEF IndInv, QueueWellFormed, Ready
  <2>. QED
    BY <1>3, <2>1 DEF IndInv, FirstInFirstReady
<1>. QED
  BY <1>4, <1>5, <1>6, <1>7, <1>8 DEF IndInv

\* A transfer moves a slot from the running requests to the ready tickets, to
\* the first that waits, so the ready ones stay in front.
LEMMA TransferKeepsIndInv ==
    ASSUME IndInv, NEW r \in Requests, r \in running,
           running' = running \ {r}, NEW t \in Waiting, Transfer(t),
           UNCHANGED <<ahead, expiryLoop>>
    PROVE  IndInv'
<1>. USE AdmissionAssumption
<1>1. /\ t \in Waiting /\ WaitingAhead(t) = {}
      /\ tickets' = [tickets EXCEPT ![t] = [ready |-> TRUE, age |-> 0]]
      /\ semaphore' = semaphore /\ ahead' = ahead
  BY DEF Transfer, NextInLine
<1>2. /\ DOMAIN tickets' = DOMAIN tickets
      /\ t \in DOMAIN tickets /\ t \notin Ready /\ tickets'[t].ready
      /\ \A u \in DOMAIN tickets : u # t => tickets'[u] = tickets[u]
  BY <1>1 DEF IndInv, AdmissionTypeOK, Waiting, Ready
<1>3. Ready' = Ready \union {t}
  BY <1>2 DEF Ready
<1>4. AdmissionTypeOK'
  <2>1. tickets' \in [DOMAIN tickets' -> Ticket]
    BY <1>1, <1>2 DEF IndInv, AdmissionTypeOK, Ticket
  <2>. QED
    BY <1>1, <1>2, <2>1 DEF IndInv, AdmissionTypeOK
<1>5. Finite'
  BY <1>2, FS_RemoveElement DEF IndInv, Finite
<1>6. SlotConservation'
  <2>1. Cardinality(running \ {r}) = Cardinality(running) - 1
    BY FS_RemoveElement DEF IndInv, Finite
  <2>2. Cardinality(Ready \union {t}) = Cardinality(Ready) + 1
    BY <1>2, Counts, FS_AddElement DEF IndInv
  <2>. QED
    BY <1>1, <1>3, <2>1, <2>2, Counts DEF IndInv, SlotConservation, AdmissionTypeOK
<1>7. QueueWellFormed'
  BY <1>1, <1>2 DEF IndInv, QueueWellFormed
<1>8. FirstInFirstReady'
  <2>1. ahead[t] \subseteq Ready
    BY <1>1, <1>2 DEF WaitingAhead, Waiting, Ready, IndInv, QueueWellFormed
  <2>. QED
    BY <1>1, <1>3, <2>1 DEF IndInv, FirstInFirstReady
<1>. QED
  BY <1>4, <1>5, <1>6, <1>7, <1>8 DEF IndInv

\* A release moves a slot from the running requests to the semaphore, which
\* cannot exceed MaxConcurrent because a request was running.
LEMMA ReleaseKeepsIndInv ==
    ASSUME IndInv, NEW r \in Requests, r \in running,
           running' = running \ {r}, Release, UNCHANGED <<ahead, expiryLoop>>
    PROVE  IndInv'
<1>. USE AdmissionAssumption
<1>1. semaphore' = semaphore + 1 /\ tickets' = tickets /\ ahead' = ahead
  BY DEF Release
<1>2. Ready' = Ready
  BY <1>1 DEF Ready
<1>3. Finite'
  BY <1>1, FS_RemoveElement DEF IndInv, Finite
<1>4. /\ Cardinality(running') = Cardinality(running) - 1
      /\ Cardinality(running') \in Nat
  BY <1>3, FS_RemoveElement, FS_CardinalityType DEF IndInv, Finite
<1>5. SlotConservation'
  BY <1>1, <1>2, <1>4, Counts DEF IndInv, SlotConservation, AdmissionTypeOK
<1>6. semaphore' \in 0..MaxConcurrent
  BY <1>1, <1>2, <1>4, <1>5, Counts DEF IndInv, SlotConservation, AdmissionTypeOK
<1>7. AdmissionTypeOK'
  BY <1>1, <1>6 DEF IndInv, AdmissionTypeOK
<1>8. QueueWellFormed' /\ FirstInFirstReady'
  BY <1>1, <1>2 DEF IndInv, QueueWellFormed, FirstInFirstReady
<1>. QED
  BY <1>3, <1>5, <1>7, <1>8 DEF IndInv

\* Expiry gives back exactly the slots of the ready tickets it removes.
LEMMA ExpiryKeepsIndInv ==
    ASSUME IndInv, ExpireTickets
    PROVE  IndInv'
<1>. USE AdmissionAssumption
<1>. DEFINE S == {t \in DOMAIN ahead : Stale(t)}
<1>1. /\ semaphore' = semaphore + SlotsOf(S) /\ running' = running
      /\ tickets' = TicketsWithout(S) /\ ahead' = QueueWithout(S)
      /\ expiryLoop' = expiryLoop
  BY DEF ExpireTickets
<1>. HIDE DEF S
<1>2. /\ DOMAIN tickets' = DOMAIN tickets \ S /\ Ready' = Ready \ S
      /\ QueueWellFormed' /\ FirstInFirstReady'
  BY <1>1, RemovalKeepsQueue DEF IndInv
<1>3. Finite'
  BY <1>1, <1>2, FS_Difference DEF IndInv, Finite
<1>4. /\ Cardinality(Ready') + SlotsOf(S) = Cardinality(Ready)
      /\ SlotsOf(S) \in Nat /\ Cardinality(Ready') \in Nat
  <2>1. Ready' = Ready \ (S \cap Ready) /\ S \cap Ready \subseteq Ready
    BY <1>2
  <2>2. /\ IsFiniteSet(Ready \ (S \cap Ready)) /\ IsFiniteSet(S \cap Ready)
        /\ Cardinality(Ready \ (S \cap Ready)) + Cardinality(S \cap Ready)
             = Cardinality(Ready)
    BY <2>1, CardinalityOfRest, Counts DEF IndInv
  <2>. QED
    BY <2>1, <2>2, FS_CardinalityType DEF SlotsOf
<1>5. SlotConservation'
  BY <1>1, <1>4, Counts DEF IndInv, SlotConservation, AdmissionTypeOK
<1>6. semaphore' \in 0..MaxConcurrent
  BY <1>1, <1>4, <1>5, Counts DEF IndInv, SlotConservation, AdmissionTypeOK
<1>7. AdmissionTypeOK'
  <2>1. tickets' \in [DOMAIN tickets' -> Ticket]
    BY <1>1 DEF IndInv, AdmissionTypeOK, TicketsWithout
  <2>2. DOMAIN ahead' \subseteq Tickets /\ ahead' \in [DOMAIN ahead' -> SUBSET Tickets]
    BY <1>1 DEF IndInv, AdmissionTypeOK, QueueWithout
  <2>. QED
    BY <1>1, <1>2, <1>6, <2>1, <2>2 DEF IndInv, AdmissionTypeOK
<1>. QED
  BY <1>2, <1>3, <1>5, <1>7 DEF IndInv

\* Time ages tickets and changes nothing else.
LEMMA TickKeepsIndInv ==
    ASSUME IndInv, Tick
    PROVE  IndInv'
<1>. USE AdmissionAssumption
<1>1. /\ DOMAIN tickets' = DOMAIN tickets
      /\ \A t \in DOMAIN tickets : /\ tickets'[t] \in Ticket
                                   /\ tickets'[t].ready = tickets[t].ready
      /\ tickets' = [t \in DOMAIN tickets |-> tickets'[t]]
      /\ UNCHANGED <<semaphore, running, ahead, expiryLoop>>
  BY DEF Tick, IndInv, AdmissionTypeOK, Ticket, Aged
<1>2. Ready' = Ready
  BY <1>1 DEF Ready
<1>3. AdmissionTypeOK'
  BY <1>1 DEF IndInv, AdmissionTypeOK
<1>. QED
  BY <1>1, <1>2, <1>3
  DEF IndInv, Finite, SlotConservation, QueueWellFormed, FirstInFirstReady

-----------------------------------------------------------------------------
\* Arriving requests keep the invariant, whichever verdict they get.
LEMMA ArriveKeepsIndInv ==
    ASSUME IndInv, NEW r \in Requests, NEW c \in Cookies, Arrive(r, c)
    PROVE  IndInv'
<1>1. CASE Claim(r, c)
  BY <1>1, ClaimKeepsIndInv DEF Arrive
<1>2. CASE Acquire(r, c)
  BY <1>2, AcquireKeepsIndInv DEF Arrive
<1>3. CASE \E t \in Tickets : Enqueue(c, t)
  BY <1>3, EnqueueKeepsIndInv DEF Arrive
<1>4. CASE TurnAway(c)
  BY <1>4 DEF Arrive, TurnAway, IndInv, AdmissionTypeOK, Finite, SlotConservation, Ready,
              QueueWellFormed, FirstInFirstReady
<1>. QED
  BY <1>1, <1>2, <1>3, <1>4 DEF Arrive

\* The invariant holds when a worker starts.
LEMMA InitIndInv ==
    ASSUME AdmissionInit
    PROVE  IndInv
<1>. USE AdmissionAssumption
<1>1. DOMAIN tickets = {} /\ DOMAIN ahead = {} /\ Ready = {} /\ running = {}
  BY DEF AdmissionInit, Ready
<1>2. IsFiniteSet({}) /\ Cardinality({}) = 0
  BY FS_EmptySet
<1>3. AdmissionTypeOK
  <2>1. tickets \in [DOMAIN tickets -> Ticket]
    BY DEF AdmissionInit
  <2>2. ahead \in [DOMAIN ahead -> SUBSET Tickets]
    BY DEF AdmissionInit
  <2>3. semaphore \in 0..MaxConcurrent
    BY DEF AdmissionInit
  <2>. QED
    BY <1>1, <2>1, <2>2, <2>3 DEF AdmissionInit, AdmissionTypeOK
<1>. QED
  BY <1>1, <1>2, <1>3
  DEF AdmissionInit, IndInv, Finite, SlotConservation, QueueWellFormed, FirstInFirstReady

\* No step breaks the invariant.
LEMMA NextIndInv ==
    ASSUME IndInv, [AdmissionNext]_admissionVars
    PROVE  IndInv'
<1>1. ASSUME NEW r \in Requests, NEW c \in Cookies, Arrive(r, c)
      PROVE  IndInv'
  BY <1>1, ArriveKeepsIndInv
<1>2. CASE ExemptRequest
  BY <1>2 DEF ExemptRequest, IndInv, AdmissionTypeOK, Finite, SlotConservation, Ready,
              QueueWellFormed, FirstInFirstReady
<1>3. ASSUME NEW r \in Requests, CompleteRequest(r)
      PROVE  IndInv'
  BY <1>3, TransferKeepsIndInv, ReleaseKeepsIndInv DEF CompleteRequest
<1>4. CASE ExpireTickets
  BY <1>4, ExpiryKeepsIndInv
<1>5. CASE Tick
  BY <1>5, TickKeepsIndInv
<1>6. CASE UNCHANGED admissionVars
  BY <1>6 DEF admissionVars, IndInv, AdmissionTypeOK, Finite, SlotConservation, Ready,
              QueueWellFormed, FirstInFirstReady
<1>. QED
  BY <1>1, <1>2, <1>3, <1>4, <1>5, <1>6 DEF AdmissionNext

\* The inductive invariant is one, under any fairness.
THEOREM Inductive == AdmissionSpec => []IndInv
<1>1. AdmissionInit => IndInv
  BY InitIndInv
<1>2. IndInv /\ [AdmissionNext]_admissionVars => IndInv'
  BY NextIndInv
<1>. QED
  BY <1>1, <1>2, PTL DEF AdmissionSpec, AdmissionSafety

\* Type correctness: in particular the semaphore stays between 0 and
\* max_concurrent, so "_value > 0" means a slot and acquire never blocks.
THEOREM TypeCorrect == AdmissionSpec => []AdmissionTypeOK
<1>1. IndInv => AdmissionTypeOK
  BY DEF IndInv
<1>. QED
  BY <1>1, Inductive, PTL

\* No slot is ever lost or made, for any number of requests and tickets.
THEOREM SlotsConserved == AdmissionSpec => []SlotConservation
<1>1. IndInv => SlotConservation
  BY DEF IndInv
<1>. QED
  BY <1>1, Inductive, PTL

\* _tickets and _queue always agree and the queue keeps a total order and its
\* bound.
THEOREM QueueStaysWellFormed == AdmissionSpec => []QueueWellFormed
<1>1. IndInv => QueueWellFormed
  BY DEF IndInv
<1>. QED
  BY <1>1, Inductive, PTL

\* Slots are handed out first come, first served, whatever is claimed or
\* expires in between.
THEOREM FirstComeFirstServed == AdmissionSpec => []FirstInFirstReady
<1>1. IndInv => FirstInFirstReady
  BY DEF IndInv
<1>. QED
  BY <1>1, Inductive, PTL

-----------------------------------------------------------------------------
(* What a step does to the ready and the waiting tickets. *)

\* The only ways out of the ready tickets: a request that starts running, or
\* an age beyond the limit.
LEMMA StepHonoursReservations ==
    ASSUME IndInv, AdmissionNext, NEW t \in Ready
    PROVE  \/ t \in Ready'
           \/ tickets[t].age > ReadyTTL
           \/ \E r \in running' : r \notin running
<1>0. t \in DOMAIN tickets /\ t \in DOMAIN ahead /\ tickets[t].ready
  BY DEF IndInv, QueueWellFormed, Ready
<1>1. ASSUME NEW r \in Requests, NEW c \in Cookies, Arrive(r, c)
      PROVE  t \in Ready' \/ \E q \in running' : q \notin running
  <2>1. CASE Claim(r, c) \/ Acquire(r, c)
    BY <1>1, <2>1 DEF Arrive, Claim, Acquire
  <2>2. CASE \E u \in Tickets : Enqueue(c, u)
    BY <1>0, <2>2 DEF Enqueue, Ready
  <2>3. CASE TurnAway(c)
    BY <1>0, <2>3 DEF TurnAway, Ready
  <2>. QED
    BY <1>1, <2>1, <2>2, <2>3 DEF Arrive
<1>2. CASE ExemptRequest
  BY <1>0, <1>2 DEF ExemptRequest, Ready
<1>3. ASSUME NEW r \in Requests, CompleteRequest(r)
      PROVE  t \in Ready'
  BY <1>0, <1>3 DEF CompleteRequest, Transfer, Release, Ready, Waiting, IndInv, AdmissionTypeOK
<1>4. CASE ExpireTickets
  BY <1>0, <1>4 DEF ExpireTickets, TicketsWithout, Stale, Ready
<1>5. CASE Tick
  BY <1>0, <1>5 DEF Tick, Ready, IndInv, AdmissionTypeOK, Ticket
<1>. QED
  BY <1>1, <1>2, <1>3, <1>4, <1>5 DEF AdmissionNext

\* A promised slot stays promised.
THEOREM ReservationsHonoured == AdmissionSpec => ReservationHonoured
<1>1. IndInv /\ [AdmissionNext]_admissionVars =>
        [\A t \in Ready : \/ t \in Ready'
                          \/ tickets[t].age > ReadyTTL
                          \/ \E r \in running' : r \notin running]_admissionVars
  BY StepHonoursReservations
<1>. QED
  BY <1>1, Inductive, PTL DEF AdmissionSpec, AdmissionSafety, ReservationHonoured

\* A step that leaves a free slot next to a waiting ticket, when there was no
\* such pair before, removes a ready ticket that was too old.
LEMMA OnlyExpiryStrandsStep ==
    ASSUME IndInv, AdmissionNext, ~Stranded, Stranded'
    PROVE  \E t \in Ready : tickets[t].age > ReadyTTL /\ t \notin DOMAIN tickets'
<1>. USE AdmissionAssumption
<1>1. ASSUME NEW r \in Requests, NEW c \in Cookies, Arrive(r, c)
      PROVE  FALSE
  <2>1. CASE Claim(r, c)
    BY <1>1, <2>1 DEF Claim, TicketsWithout, Stranded, Waiting
  <2>2. CASE Acquire(r, c)
    BY <1>1, <2>2 DEF Acquire, Stranded, Waiting, IndInv, AdmissionTypeOK
  <2>3. CASE \E u \in Tickets : Enqueue(c, u)
    BY <1>1, <2>3 DEF Enqueue, Stranded
  <2>4. CASE TurnAway(c)
    BY <1>1, <2>4 DEF TurnAway, Stranded
  <2>. QED
    BY <1>1, <2>1, <2>2, <2>3, <2>4 DEF Arrive
<1>2. CASE ExemptRequest
  BY <1>2 DEF ExemptRequest, Stranded, Waiting
<1>3. ASSUME NEW r \in Requests, CompleteRequest(r)
      PROVE  FALSE
  <2>1. CASE Release
    BY <2>1 DEF Release, Stranded, Waiting
  <2>2. ASSUME NEW u \in Waiting, Transfer(u)
        PROVE  FALSE
    BY <2>2 DEF Transfer, Stranded
  <2>. QED
    BY <1>3, <2>1, <2>2 DEF CompleteRequest
<1>4. CASE ExpireTickets
  <2>. DEFINE S == {t \in DOMAIN ahead : Stale(t)}
  <2>1. semaphore' = semaphore + Cardinality(S \cap Ready)
        /\ tickets' = TicketsWithout(S)
    BY <1>4 DEF ExpireTickets, SlotsOf
  <2>2. ASSUME S \cap Ready = {}
        PROVE  FALSE
    <3>1. Cardinality(S \cap Ready) = 0 /\ semaphore \in Nat
      BY <2>2, FS_EmptySet DEF IndInv, AdmissionTypeOK
    <3>2. semaphore' = semaphore
      BY <2>1, <3>1
    <3>. QED
      BY <2>1, <3>2 DEF Stranded, Waiting, TicketsWithout
  <2>3. PICK t \in Ready : t \in S
    BY <2>2
  <2>. QED
    BY <2>1, <2>3 DEF Stale, Ready, TicketsWithout
<1>5. CASE Tick
  BY <1>5 DEF Tick, Stranded, Waiting, IndInv, AdmissionTypeOK, Ticket
<1>. QED
  BY <1>1, <1>2, <1>3, <1>4, <1>5 DEF AdmissionNext

\* Only the expiry of a ready ticket strands the others.
THEOREM StrandedOnlyByExpiry == AdmissionSpec => OnlyExpiryStrands
<1>1. IndInv /\ [AdmissionNext]_admissionVars =>
        [~Stranded /\ Stranded' =>
           \E t \in Ready : tickets[t].age > ReadyTTL /\ t \notin DOMAIN tickets']_admissionVars
  BY OnlyExpiryStrandsStep
<1>. QED
  BY <1>1, Inductive, PTL DEF AdmissionSpec, AdmissionSafety, OnlyExpiryStrands

\* Who waits in front of a waiting ticket only ever leaves.
LEMMA WaitingAheadShrinks ==
    ASSUME IndInv, AdmissionNext, NEW t \in Waiting, t \in Waiting'
    PROVE  WaitingAhead(t)' \subseteq WaitingAhead(t)
<1>0. /\ t \in DOMAIN tickets /\ t \in DOMAIN ahead /\ t \in DOMAIN tickets'
      /\ ahead[t] \subseteq DOMAIN tickets
  BY DEF IndInv, QueueWellFormed, Waiting
<1>1. ASSUME NEW r \in Requests, NEW c \in Cookies, Arrive(r, c)
      PROVE  WaitingAhead(t)' \subseteq WaitingAhead(t)
  <2>1. CASE Claim(r, c)
    BY <1>0, <2>1 DEF Claim, TicketsWithout, QueueWithout, WaitingAhead, Waiting
  <2>2. CASE Acquire(r, c)
    BY <2>2 DEF Acquire, WaitingAhead, Waiting
  <2>3. ASSUME NEW u \in Tickets, Enqueue(c, u)
        PROVE  WaitingAhead(t)' \subseteq WaitingAhead(t)
    <3>1. ahead'[t] = ahead[t] /\ \A v \in DOMAIN tickets : tickets'[v] = tickets[v]
      BY <1>0, <2>3 DEF Enqueue, Appended
    <3>. QED
      BY <1>0, <3>1 DEF WaitingAhead, Waiting
  <2>4. CASE TurnAway(c)
    BY <2>4 DEF TurnAway, WaitingAhead, Waiting
  <2>. QED
    BY <1>1, <2>1, <2>2, <2>3, <2>4 DEF Arrive
<1>2. CASE ExemptRequest
  BY <1>2 DEF ExemptRequest, WaitingAhead, Waiting
<1>3. ASSUME NEW r \in Requests, CompleteRequest(r)
      PROVE  WaitingAhead(t)' \subseteq WaitingAhead(t)
  BY <1>3 DEF CompleteRequest, Transfer, Release, WaitingAhead, Waiting, IndInv, AdmissionTypeOK
<1>4. CASE ExpireTickets
  BY <1>0, <1>4 DEF ExpireTickets, TicketsWithout, QueueWithout, WaitingAhead, Waiting
<1>5. CASE Tick
  BY <1>5 DEF Tick, WaitingAhead, Waiting, IndInv, AdmissionTypeOK, Ticket
<1>. QED
  BY <1>1, <1>2, <1>3, <1>4, <1>5 DEF AdmissionNext

\* No place is ever lost while a ticket waits.
THEOREM PositionsNeverGrow == AdmissionSpec => PositionNeverGrows
<1>1. ASSUME IndInv, [AdmissionNext]_admissionVars
      PROVE  [\A t \in Waiting : t \in Waiting' => Position(t)' <= Position(t)]_admissionVars
  <2>1. SUFFICES ASSUME AdmissionNext, NEW t \in Waiting, t \in Waiting'
                 PROVE  Position(t)' <= Position(t)
    BY <1>1
  <2>2. WaitingAhead(t)' \subseteq WaitingAhead(t)
    BY <1>1, <2>1, WaitingAheadShrinks
  <2>3. IsFiniteSet(WaitingAhead(t))
    BY <1>1, Counts DEF WaitingAhead, Waiting, IndInv
  <2>. QED
    BY <2>2, <2>3, FS_Subset DEF Position
<1>. QED
  BY <1>1, Inductive, PTL DEF AdmissionSpec, AdmissionSafety, PositionNeverGrows

\* A nonempty set of naturals has a least element.
LEMMA LeastNatural ==
    ASSUME NEW N, N \subseteq Nat, N # {}
    PROVE  \E n \in N : \A m \in N : n <= m
<1>1. PICK n \in N : \A m \in N : <<m, n>> \notin OpToRel(<, Nat)
  BY NatLessThanWellFounded, WFMin
<1>2. \A m \in N : ~(m < n)
  BY <1>1 DEF OpToRel
<1>. QED
  BY <1>2

\* If any ticket waits, one has no waiting ticket in front of it: the loop of
\* complete_request always finds where to stop.
LEMMA FirstWaiting ==
    ASSUME IndInv, Waiting # {}
    PROVE  \E t \in Waiting : NextInLine(t)
<1>1. \A t \in Waiting : IsFiniteSet(WaitingAhead(t)) /\ Position(t) \in Nat
  BY Counts, FS_CardinalityType DEF WaitingAhead, Waiting, Position, IndInv
<1>2. PICK t \in Waiting : \A u \in Waiting : Position(t) <= Position(u)
  <2>. DEFINE N == {Position(u) : u \in Waiting}
  <2>1. N \subseteq Nat /\ N # {}
    BY <1>1
  <2>2. PICK n \in N : \A m \in N : n <= m
    BY <2>1, LeastNatural
  <2>. QED
    BY <2>2
<1>3. ASSUME NEW u \in WaitingAhead(t)
      PROVE  FALSE
  <2>1. /\ u \in Waiting /\ u \in ahead[t] /\ t \in DOMAIN ahead /\ u \in DOMAIN ahead
        /\ ahead[u] \subseteq ahead[t] /\ u \notin ahead[u]
    BY DEF WaitingAhead, Waiting, IndInv, QueueWellFormed
  <2>2. /\ WaitingAhead(u) \subseteq WaitingAhead(t)
        /\ u \notin WaitingAhead(u)
    BY <2>1 DEF WaitingAhead
  <2>3. Position(u) < Position(t)
    BY <1>1, <2>1, <2>2, FS_Subset DEF Position
  <2>. QED
    BY <1>1, <1>2, <2>1, <2>3
<1>. QED
  BY <1>2, <1>3 DEF NextInLine

\* A completing request always has where to leave its slot: with a first
\* waiting ticket, or with the semaphore when nobody waits.
THEOREM SlotAlwaysHandedOn ==
    AdmissionSpec => [](Waiting # {} => \E t \in Waiting : NextInLine(t))
<1>1. IndInv => (Waiting # {} => \E t \in Waiting : NextInLine(t))
  BY FirstWaiting
<1>. QED
  BY <1>1, Inductive, PTL

-----------------------------------------------------------------------------
(* Admission implements SlotPool. *)

\* The slots in use are those the semaphore does not count.
LEMMA UsedSlots ==
    ASSUME IndInv
    PROVE  Pool!Used = MaxConcurrent - semaphore
<1>1. /\ semaphore + Cardinality(running) + Cardinality(Ready) = MaxConcurrent
      /\ semaphore \in Nat
  BY AdmissionAssumption DEF IndInv, SlotConservation, AdmissionTypeOK
<1>2. Cardinality(running) \in Nat /\ Cardinality(Ready) \in Nat
  BY Counts DEF IndInv
<1>3. Pool!Used = Cardinality(running) + Cardinality(Ready)
  BY Zenon DEF Pool!Used, Pool!Cardinality, Cardinality
<1>. QED
  BY <1>1, <1>2, <1>3

\* Every step is a step of the slot pool, or none.
LEMMA StepIsPoolStep ==
    ASSUME IndInv, IndInv', [AdmissionNext]_admissionVars
    PROVE  [Pool!Next]_(Pool!poolVars)
<1>. USE AdmissionAssumption
<1>. SUFFICES ASSUME AdmissionNext
              PROVE  Pool!Next \/ UNCHANGED <<running, Ready>>
  BY DEF admissionVars, Ready, Pool!poolVars
<1>0. Ready \subseteq Tickets /\ Ready' \subseteq Tickets
  BY DEF IndInv, AdmissionTypeOK, Ready
<1>1. ASSUME NEW r \in Requests, NEW c \in Cookies, Arrive(r, c)
      PROVE  Pool!Next \/ UNCHANGED <<running, Ready>>
  <2>1. CASE Claim(r, c)
    <3>1. c \in Ready /\ running' = running \union {r} /\ Ready' = Ready \ {c}
      BY <2>1 DEF Claim, TicketsWithout, Ready
    <3>2. Pool!Redeem(r, c) /\ c \in Tickets
      BY <1>0, <1>1, <3>1 DEF Pool!Redeem, Arrive
    <3>. QED
      BY <3>2 DEF Pool!Next, Pool!Settle
  <2>2. CASE Acquire(r, c)
    <3>1. running' = running \union {r} /\ Ready' = Ready /\ semaphore > 0
      BY <2>2 DEF Acquire, Ready
    <3>2. Pool!Used < MaxConcurrent
      BY <3>1, UsedSlots DEF IndInv, AdmissionTypeOK
    <3>3. Pool!Take(r)
      BY <1>1, <3>1, <3>2 DEF Pool!Take, Arrive
    <3>. QED
      BY <3>3 DEF Pool!Next
  <2>3. CASE \E t \in Tickets : Enqueue(c, t)
    BY <2>3 DEF Enqueue, Ready
  <2>4. CASE TurnAway(c)
    BY <2>4 DEF TurnAway, Ready
  <2>. QED
    BY <1>1, <2>1, <2>2, <2>3, <2>4 DEF Arrive
<1>2. CASE ExemptRequest
  BY <1>2 DEF ExemptRequest, Ready
<1>3. ASSUME NEW r \in Requests, CompleteRequest(r)
      PROVE  Pool!Next
  <2>1. CASE Release
    <3>1. Pool!Free(r)
      BY <1>3, <2>1 DEF Release, CompleteRequest, Ready, Pool!Free
    <3>. QED
      BY <3>1 DEF Pool!Next, Pool!Finish
  <2>2. ASSUME NEW t \in Waiting, Transfer(t)
        PROVE  Pool!Next
    <3>1. Ready' = Ready \union {t} /\ t \notin Ready /\ t \in Tickets
      BY <2>2 DEF Transfer, Ready, Waiting, IndInv, AdmissionTypeOK
    <3>2. Pool!HandOver(r, t)
      BY <1>3, <3>1 DEF CompleteRequest, Pool!HandOver
    <3>. QED
      BY <3>1, <3>2 DEF Pool!Next, Pool!Finish
  <2>. QED
    BY <1>3, <2>1, <2>2 DEF CompleteRequest
<1>4. CASE ExpireTickets
  <2>. DEFINE S == {t \in DOMAIN ahead : Stale(t)} \cap Ready
  <2>1. running' = running /\ Ready' = Ready \ S
    BY <1>4 DEF ExpireTickets, TicketsWithout, Ready
  <2>2. CASE S = {}
    BY <2>1, <2>2
  <2>3. CASE S # {}
    <3>1. Pool!Lapse(S)
      BY <2>1, <2>3 DEF Pool!Lapse
    <3>2. PICK t \in S : t \in Tickets
      BY <1>0, <2>3
    <3>3. S \in SUBSET Ready
      OBVIOUS
    <3>. HIDE DEF S
    <3>. QED
      BY <3>1, <3>2, <3>3 DEF Pool!Next, Pool!Settle
  <2>. QED
    BY <2>2, <2>3
<1>5. CASE Tick
  BY <1>5 DEF Tick, Ready, IndInv, AdmissionTypeOK, Ticket
<1>. QED
  BY <1>1, <1>2, <1>3, <1>4, <1>5 DEF AdmissionNext

\* The semaphore that does not change when a slot changes hands implements the
\* pool of slots that has no counter (safety; TLC checks the fairness too).
THEOREM ImplementsSlotPool == AdmissionSpec => Pool!Safety
<1>1. AdmissionInit => Pool!Init
  BY DEF AdmissionInit, Pool!Init, Ready
<1>2. IndInv /\ IndInv' /\ [AdmissionNext]_admissionVars => [Pool!Next]_(Pool!poolVars)
  BY StepIsPoolStep
<1>. QED
  BY <1>1, <1>2, Inductive, PTL DEF AdmissionSpec, AdmissionSafety, Pool!Safety
-----------------------------------------------------------------------------
(* The tabs.  Their steps are steps of Admission, except for a restart.    *)

\* A new process starts from an empty queue with every slot.
LEMMA RestartKeepsIndInv ==
    ASSUME Restart
    PROVE  IndInv'
<1>. USE AdmissionAssumption
<1>1. /\ semaphore' = MaxConcurrent /\ running' = {} /\ expiryLoop' = FALSE
      /\ DOMAIN tickets' = {} /\ DOMAIN ahead' = {}
  BY DEF Restart, TicketsWithout, QueueWithout
<1>2. Ready' = {} /\ IsFiniteSet({}) /\ Cardinality({}) = 0
  BY <1>1, FS_EmptySet DEF Ready
<1>3. AdmissionTypeOK'
  <2>1. tickets' = [t \in {} |-> tickets'[t]] /\ ahead' = [t \in {} |-> ahead'[t]]
    BY <1>1 DEF Restart, TicketsWithout, QueueWithout
  <2>2. tickets' \in [{} -> Ticket] /\ ahead' \in [{} -> SUBSET Tickets]
    BY <2>1
  <2>3. /\ semaphore' \in 0..MaxConcurrent
        /\ running' \subseteq Requests
        /\ expiryLoop' \in BOOLEAN
    <3>1. semaphore' \in 0..MaxConcurrent
      BY <1>1
    <3>2. running' \subseteq Requests
      BY <1>1
    <3>3. expiryLoop' \in BOOLEAN
      BY <1>1
    <3>. QED
      BY <3>1, <3>2, <3>3
  <2>4. tickets' \in [DOMAIN tickets' -> Ticket] /\ ahead' \in [DOMAIN ahead' -> SUBSET Tickets]
    BY <1>1, <2>2
  <2>. QED
    BY <1>1, <2>3, <2>4 DEF AdmissionTypeOK
<1>. QED
  BY <1>1, <1>2, <1>3
  DEF IndInv, Finite, SlotConservation, QueueWellFormed, FirstInFirstReady

\* What the worker sees of any step.
LEMMA ClientStepOnWorker ==
    ASSUME [ClientNext]_allVars, ClientTypeOK
    PROVE  [AdmissionNext]_admissionVars \/ Restart
<1>1. ASSUME NEW r \in Requests, Handle(r)
      PROVE  AdmissionNext
  BY <1>1 DEF Handle, AdmissionNext, ClientTypeOK
<1>2. ASSUME NEW r \in Requests, Poll(r)
      PROVE  AdmissionNext
  BY <1>2 DEF Poll, AdmissionNext
<1>3. ASSUME NEW r \in Requests, Complete(r)
      PROVE  AdmissionNext
  BY <1>3 DEF Complete, AdmissionNext
<1>4. ASSUME NEW r \in Requests,
             \/ Open(r) \/ Follow(r) \/ Reload(r) \/ HandleElsewhere(r) \/ Deliver(r)
             \/ PollElsewhere(r) \/ Close(r)
      PROVE  UNCHANGED admissionVars
  BY <1>4 DEF Open, Follow, Reload, Send, HandleElsewhere, Deliver, PollElsewhere, Close
<1>5. CASE Expire \/ PromptTick
  BY <1>5 DEF Expire, PromptTick, AdmissionNext
<1>6. CASE UNCHANGED allVars
  BY <1>6 DEF allVars
<1>. QED
  BY <1>1, <1>2, <1>3, <1>4, <1>5, <1>6 DEF ClientNext

\* Where a tab has been let in or is done with, its page names no ticket; the
\* worker runs the requests of the tabs that wait for their answer.
VisitsInv ==
    /\ visit \in [Requests -> Visits]
    /\ ticketShown \in [Requests -> Cookies]
    /\ cookie \in [Requests -> Cookies]
    /\ jar \in [Browsers -> Cookies]
    /\ upsets \in 0..MaxUpsets
    /\ restarted \in BOOLEAN
    /\ running = {r \in Requests : visit[r] = "running"}
    /\ \A r \in Requests :
          visit[r] \in Settled \union {"running"} => ticketShown[r] = NoTicket

\* No tick passes between a ticket's turn and the redirect of its page.
PromptInv == \A r \in Requests : ticketShown[r] \in Ready => tickets[ticketShown[r]].age = 0

\* The ticket of the page r is in no other page, request or browser.
Own(r) ==
    ticketShown[r] # NoTicket =>
        \A q \in Requests \ {r} : ticketShown[r] \notin {ticketShown[q], cookie[q], Jar(q)}

\* The jar, and the request on its way, carry the ticket of the page.
Carried(r) ==
    /\ visit[r] \in {"new", "sent", "queued", "turn", "requeue"} => Jar(r) = ticketShown[r]
    /\ visit[r] = "sent" => cookie[r] = ticketShown[r]
    /\ visit[r] = "turn" /\ ~restarted => ticketShown[r] \in Ready

ClientInv ==
    /\ IndInv
    /\ VisitsInv
    /\ PromptInv
    /\ \A r \in Sole : Own(r) /\ Carried(r)

LEMMA ClientInvImplies == ClientInv => ClientTypeOK /\ RedirectIsServed
<1>1. ASSUME ClientInv PROVE ClientTypeOK
  BY <1>1 DEF ClientInv, IndInv, VisitsInv, ClientTypeOK
<1>2. ASSUME ClientInv, NEW r \in Sole
      PROVE  /\ visit[r] \in {"queued", "turn"} => Jar(r) = ticketShown[r]
             /\ visit[r] = "turn" /\ ~restarted => ticketShown[r] \in Ready
             /\ visit[r] = "sent" /\ ticketShown[r] \in Ready => cookie[r] = ticketShown[r]
  BY <1>2 DEF ClientInv, Carried
<1>. QED
  BY <1>1, <1>2 DEF RedirectIsServed

\* The values of a function are at most as many as its arguments.
LEMMA ImageIsFinite ==
    ASSUME NEW S, IsFiniteSet(S), NEW f, DOMAIN f = S, f = [x \in S |-> f[x]]
    PROVE  /\ IsFiniteSet({f[x] : x \in S})
           /\ Cardinality({f[x] : x \in S}) \in 0..Cardinality(S)
<1>. DEFINE T == {f[x] : x \in S}
<1>1. f \in Surjection(S, T)
  BY DEF Surjection
<1>2. IsFiniteSet(T) /\ Cardinality(T) <= Cardinality(S)
  BY <1>1, FS_Surjection
<1>3. Cardinality(T) \in Nat /\ Cardinality(S) \in Nat
  BY <1>2, FS_CardinalityType
<1>. QED
  BY <1>2, <1>3

LEMMA UnionIsSmall ==
    ASSUME NEW S, IsFiniteSet(S), NEW m \in Nat, Cardinality(S) <= m,
           NEW T, IsFiniteSet(T), NEW n \in Nat, Cardinality(T) <= n
    PROVE  IsFiniteSet(S \union T) /\ Cardinality(S \union T) <= m + n
<1>1. /\ IsFiniteSet(S \union T)
      /\ Cardinality(S \union T) = Cardinality(S) + Cardinality(T) - Cardinality(S \cap T)
  BY FS_Union
<1>2. IsFiniteSet(S \cap T)
  BY FS_Intersection
<1>3. Cardinality(S) \in Nat /\ Cardinality(T) \in Nat /\ Cardinality(S \cap T) \in Nat
  BY <1>2, FS_CardinalityType
<1>. QED
  BY <1>1, <1>3

\* There is always an id that nobody holds, and FreshId is one.
LEMMA FreshIdIsFresh ==
    ASSUME IndInv, VisitsInv
    PROVE  /\ FreshId \in Tickets \ DOMAIN tickets
           /\ \A r \in Requests : FreshId \notin {ticketShown[r], cookie[r], Jar(r)}
<1>. DEFINE jarOf == [r \in Requests |-> Jar(r)]
            pages == {ticketShown[r] : r \in Requests}
            requests == {cookie[r] : r \in Requests}
            jars == {jarOf[r] : r \in Requests}
            held == DOMAIN tickets \union (pages \union (requests \union jars))
            n == Cardinality(Requests)
<1>1. IsFiniteSet(Requests) /\ n \in Nat /\ MaxQueue \in Nat
  BY FreshAssumption, AdmissionAssumption, FS_CardinalityType
<1>2. IsFiniteSet(pages) /\ Cardinality(pages) \in 0..n
  BY <1>1, ImageIsFinite DEF VisitsInv
<1>3. IsFiniteSet(requests) /\ Cardinality(requests) \in 0..n
  BY <1>1, ImageIsFinite DEF VisitsInv
<1>4. IsFiniteSet(jars) /\ Cardinality(jars) \in 0..n
  <2>1. DOMAIN jarOf = Requests /\ jarOf = [r \in Requests |-> jarOf[r]]
    OBVIOUS
  <2>. HIDE DEF jarOf
  <2>. QED
    BY <1>1, <2>1, ImageIsFinite
<1>5. /\ IsFiniteSet(DOMAIN tickets) /\ Cardinality(DOMAIN tickets) <= MaxQueue
  BY DEF IndInv, Finite, QueueWellFormed
<1>. HIDE DEF pages, requests, jars, n
<1>6. IsFiniteSet(held) /\ Cardinality(held) <= MaxQueue + 3 * n
  <2>0. /\ n \in Nat /\ n + n \in Nat /\ n + (n + n) \in Nat
        /\ Cardinality(pages) <= n /\ Cardinality(requests) <= n /\ Cardinality(jars) <= n
    BY <1>1, <1>2, <1>3, <1>4
  <2>1. IsFiniteSet(requests \union jars) /\ Cardinality(requests \union jars) <= n + n
    BY <1>3, <1>4, <2>0, UnionIsSmall
  <2>2. /\ IsFiniteSet(pages \union (requests \union jars))
        /\ Cardinality(pages \union (requests \union jars)) <= n + (n + n)
    BY <1>2, <2>0, <2>1, UnionIsSmall
  <2>3. IsFiniteSet(held) /\ Cardinality(held) <= MaxQueue + (n + (n + n))
    BY <1>1, <1>5, <2>0, <2>2, UnionIsSmall
  <2>. QED
    BY <1>1, <2>3
<1>7. \E t \in Tickets : t \notin held
  <2>1. SUFFICES ASSUME Tickets \subseteq held
                 PROVE  FALSE
    OBVIOUS
  <2>2. IsFiniteSet(Tickets) /\ Cardinality(Tickets) <= Cardinality(held)
    BY <1>6, <2>1, FS_Subset
  <2>3. Cardinality(Tickets) > MaxQueue + 3 * n
    BY <2>2, FreshAssumption DEF n
  <2>4. Cardinality(Tickets) \in Nat /\ Cardinality(held) \in Nat
    BY <1>6, <2>2, FS_CardinalityType
  <2>. QED
    BY <1>1, <1>6, <2>2, <2>3, <2>4
<1>8. \E t \in Tickets \ DOMAIN tickets :
         \A r \in Requests : t \notin {ticketShown[r], cookie[r], Jar(r)}
  BY <1>7 DEF pages, requests, jars
<1>. QED
  BY <1>8, Zenon DEF FreshId

-----------------------------------------------------------------------------
\* The invariant of the visits, without what it says of the worker.
TabsInv == VisitsInv /\ PromptInv /\ \A r \in Sole : Own(r) /\ Carried(r)

\* A request is on its way with the jar's cookie.
LEMMA SendKeepsTabs ==
    ASSUME TabsInv, NEW r \in Requests, Send(r), upsets' \in 0..MaxUpsets,
           visit[r] \in {"new", "queued", "turn", "requeue"}
    PROVE  TabsInv'
<1>1. /\ visit' = [visit EXCEPT ![r] = "sent"] /\ cookie' = [cookie EXCEPT ![r] = Jar(r)]
      /\ UNCHANGED <<running, tickets, ticketShown, jar, restarted>>
  BY DEF Send, admissionVars
<1>2. VisitsInv'
  BY <1>1, ClientAssumption DEF TabsInv, VisitsInv, Visits, Settled, Jar
<1>3. PromptInv'
  BY <1>1 DEF TabsInv, PromptInv, Ready
<1>4. ASSUME NEW q \in Sole
      PROVE  Own(q)' /\ Carried(q)'
  <2>1. Own(q) /\ Carried(q) /\ q \in Requests
    BY DEF TabsInv, Sole
  <2>2. Own(q)'
    BY <1>1, <2>1 DEF TabsInv, VisitsInv, Own, Jar
  <2>3. Carried(q)'
    BY <1>1, <2>1 DEF TabsInv, VisitsInv, Carried, Jar, Ready
  <2>. QED
    BY <2>2, <2>3
<1>. QED
  BY <1>2, <1>3, <1>4 DEF TabsInv, Sole

\* Whoever gets an answer without a ticket leaves the other tabs as they are.
LEMMA AnswerKeepsTabs ==
    ASSUME TabsInv, NEW r \in Requests, NEW p \in (Settled \ {"new"}) \union {"running"},
           Answer(r, p, NoTicket), UNCHANGED <<jar, restarted>>,
           upsets' \in 0..MaxUpsets,
           running' = {q \in Requests : visit'[q] = "running"},
           \A q \in Requests \ {r} :
              /\ ticketShown[q] \in Ready' => tickets'[ticketShown[q]].age = 0
              /\ q \in Sole /\ ticketShown[q] \in Ready => ticketShown[q] \in Ready',
           NoTicket \notin Ready'
    PROVE  TabsInv'
<1>1. /\ visit' = [visit EXCEPT ![r] = p] /\ ticketShown' = [ticketShown EXCEPT ![r] = NoTicket]
      /\ cookie' = [cookie EXCEPT ![r] = NoTicket]
  BY DEF Answer
<1>2. VisitsInv'
  BY <1>1 DEF TabsInv, VisitsInv, Visits, Settled, Cookies
<1>3. PromptInv'
  BY <1>1 DEF TabsInv, VisitsInv, PromptInv
<1>4. ASSUME NEW q \in Sole
      PROVE  Own(q)' /\ Carried(q)'
  <2>1. Own(q) /\ Carried(q) /\ q \in Requests
    BY DEF TabsInv, Sole
  <2>2. Own(q)'
    BY <1>1, <2>1 DEF TabsInv, VisitsInv, Own, Jar
  <2>3. Carried(q)'
    BY <1>1, <2>1 DEF TabsInv, VisitsInv, Carried, Jar, Settled
  <2>. QED
    BY <2>2, <2>3
<1>. QED
  BY <1>2, <1>3, <1>4 DEF TabsInv, Sole

\* What a tab is at may change without its ticket: to "requeue", and to "turn"
\* when its ticket is ready.
LEMMA PolledKeepsTabs ==
    ASSUME TabsInv, NEW r \in Requests, NEW p, Polled(r, p), visit[r] = "queued",
           p \in {"queued", "requeue", "turn"}, p = "turn" => ticketShown[r] \in Ready,
           upsets' \in 0..MaxUpsets, UNCHANGED <<running, tickets>>
    PROVE  TabsInv'
<1>1. visit' = [visit EXCEPT ![r] = p] /\ UNCHANGED <<ticketShown, cookie, jar, restarted>>
  BY DEF Polled
<1>2. VisitsInv'
  BY <1>1 DEF TabsInv, VisitsInv, Visits, Settled
<1>3. PromptInv'
  BY <1>1 DEF TabsInv, PromptInv, Ready
<1>4. ASSUME NEW q \in Sole
      PROVE  Own(q)' /\ Carried(q)'
  <2>1. Own(q) /\ Carried(q) /\ q \in Requests
    BY DEF TabsInv, Sole
  <2>2. Own(q)'
    BY <1>1, <2>1 DEF Own, Jar
  <2>3. Carried(q)'
    BY <1>1, <2>1 DEF TabsInv, VisitsInv, Carried, Jar, Ready
  <2>. QED
    BY <2>2, <2>3
<1>. QED
  BY <1>2, <1>3, <1>4 DEF TabsInv, Sole

\* The browser that has one tab gets its cookies from that tab alone.
LEMMA DeliverKeepsTabs ==
    ASSUME TabsInv, NEW r \in Requests, Deliver(r)
    PROVE  TabsInv'
<1>1. /\ visit[r] = "arriving" /\ visit' = [visit EXCEPT ![r] = "queued"]
      /\ jar' = [jar EXCEPT ![BrowserOf[r]] = ticketShown[r]]
      /\ UNCHANGED <<running, tickets, ticketShown, cookie, upsets, restarted>>
  BY DEF Deliver, admissionVars
<1>2. VisitsInv'
  BY <1>1, ClientAssumption DEF TabsInv, VisitsInv, Visits, Settled
<1>3. PromptInv'
  BY <1>1 DEF TabsInv, PromptInv, Ready
<1>4. \A q \in Requests :
         Jar(q)' = IF BrowserOf[q] = BrowserOf[r] THEN ticketShown[r] ELSE Jar(q)
  BY <1>1, ClientAssumption DEF TabsInv, VisitsInv, Jar
<1>5. ASSUME NEW q \in Sole
      PROVE  Own(q)' /\ Carried(q)'
  <2>1. Own(q) /\ Carried(q) /\ q \in Requests
    BY DEF TabsInv, Sole
  <2>2. BrowserOf[q] = BrowserOf[r] => q = r
    BY DEF Sole
  <2>3. Own(q)'
    BY <1>1, <1>4, <2>1 DEF Own, Sole
  <2>4. Carried(q)'
    <3>1. CASE q = r
      BY <1>1, <1>4, <3>1 DEF TabsInv, VisitsInv, Carried
    <3>2. CASE q # r
      BY <1>1, <1>4, <2>1, <2>2, <3>2 DEF TabsInv, VisitsInv, Carried, Ready
    <3>. QED
      BY <3>1, <3>2
  <2>. QED
    BY <2>3, <2>4
<1>. QED
  BY <1>2, <1>3, <1>5 DEF TabsInv, Sole

\* The verdict on a request: the slot or the ticket it takes is its own.
LEMMA HandleKeepsTabs ==
    ASSUME IndInv, TabsInv, NEW r \in Requests, Handle(r)
    PROVE  TabsInv'
<1>. DEFINE c == cookie[r]
<1>1. /\ Arrive(r, c) /\ r \notin running /\ visit[r] = "sent"
      /\ UNCHANGED <<jar, upsets, restarted>>
  BY DEF Handle, Arrive
<1>2. /\ FreshId \in Tickets \ DOMAIN tickets
      /\ \A q \in Requests : FreshId \notin {ticketShown[q], cookie[q], Jar(q)}
  BY FreshIdIsFresh DEF TabsInv
<1>3. /\ running = {q \in Requests : visit[q] = "running"}
      /\ visit \in [Requests -> Visits] /\ upsets \in 0..MaxUpsets
      /\ Ready \subseteq DOMAIN tickets /\ NoTicket \notin DOMAIN tickets
  BY AdmissionAssumption DEF TabsInv, VisitsInv, Ready, IndInv, AdmissionTypeOK
<1>4. CASE Claim(r, c)
  <2>1. /\ c \in Ready /\ running' = running \union {r} /\ tickets' = TicketsWithout({c})
    BY <1>4 DEF Claim
  <2>2. /\ DOMAIN tickets' = DOMAIN tickets \ {c} /\ Ready' = Ready \ {c}
        /\ \A t \in Ready' : tickets'[t] = tickets[t]
    BY <2>1 DEF TicketsWithout, Ready
  <2>3. Answer(r, "running", NoTicket)
    BY <1>2, <2>1, <2>2 DEF Handle
  <2>4. running' = {q \in Requests : visit'[q] = "running"}
    BY <1>3, <2>1, <2>3 DEF Answer
  <2>5. ASSUME NEW q \in Requests \ {r}
        PROVE  /\ ticketShown[q] \in Ready' => tickets'[ticketShown[q]].age = 0
               /\ q \in Sole /\ ticketShown[q] \in Ready => ticketShown[q] \in Ready'
    <3>1. q \in Sole /\ ticketShown[q] \in Ready => ticketShown[q] # c
      BY <1>3 DEF TabsInv, Own
    <3>. QED
      BY <2>2, <3>1 DEF TabsInv, PromptInv
  <2>. QED
    BY <1>1, <1>3, <2>2, <2>3, <2>4, <2>5, AnswerKeepsTabs
<1>5. CASE Acquire(r, c)
  <2>1. running' = running \union {r} /\ tickets' = tickets
    BY <1>5 DEF Acquire
  <2>2. Answer(r, "running", NoTicket)
    BY <1>2, <2>1 DEF Handle
  <2>3. running' = {q \in Requests : visit'[q] = "running"} /\ Ready' = Ready
    BY <1>3, <2>1, <2>2 DEF Answer, Ready
  <2>. QED
    BY <1>1, <1>3, <2>1, <2>2, <2>3, AnswerKeepsTabs DEF TabsInv, PromptInv
<1>6. CASE TurnAway(c)
  <2>1. running' = running /\ tickets' = tickets
    BY <1>6 DEF TurnAway
  <2>2. Answer(r, "full", NoTicket)
    BY <1>1, <1>2, <2>1 DEF Handle
  <2>3. running' = {q \in Requests : visit'[q] = "running"} /\ Ready' = Ready
    BY <1>1, <1>3, <2>1, <2>2 DEF Answer, Ready
  <2>. QED
    BY <1>1, <1>3, <2>1, <2>2, <2>3, AnswerKeepsTabs DEF TabsInv, PromptInv, Settled
<1>7. ASSUME NEW t \in Tickets, Enqueue(c, t)
      PROVE  TabsInv'
  <2>1. /\ t \notin DOMAIN tickets /\ running' = running
        /\ DOMAIN tickets' = DOMAIN tickets \union {t}
        /\ \A u \in DOMAIN tickets : tickets'[u] = tickets[u]
        /\ ~tickets'[t].ready
    BY <1>7 DEF Enqueue
  <2>2. t = FreshId /\ Answer(r, "arriving", t)
    BY <1>1, <1>2, <2>1 DEF Handle
  <2>3. Ready' = Ready /\ \A u \in Ready : tickets'[u] = tickets[u]
    BY <2>1 DEF Ready
  <2>4. /\ visit' = [visit EXCEPT ![r] = "arriving"] /\ ticketShown' = [ticketShown EXCEPT ![r] = t]
        /\ cookie' = [cookie EXCEPT ![r] = NoTicket]
    BY <2>2 DEF Answer
  <2>5. VisitsInv'
    BY <1>1, <1>3, <2>1, <2>4 DEF TabsInv, VisitsInv, Visits, Settled, Cookies
  <2>6. PromptInv'
    BY <1>3, <2>1, <2>3, <2>4 DEF TabsInv, VisitsInv, PromptInv
  <2>7. ASSUME NEW q \in Sole
        PROVE  Own(q)' /\ Carried(q)'
    <3>1. Own(q) /\ Carried(q) /\ q \in Requests
      BY DEF TabsInv, Sole
    <3>2. Own(q)'
      BY <1>1, <1>2, <2>2, <2>4, <3>1 DEF TabsInv, VisitsInv, Own, Jar
    <3>3. Carried(q)'
      BY <1>1, <2>3, <2>4, <3>1 DEF TabsInv, VisitsInv, Carried, Jar
    <3>. QED
      BY <3>2, <3>3
  <2>. QED
    BY <2>5, <2>6, <2>7 DEF TabsInv, Sole
<1>. QED
  BY <1>1, <1>4, <1>5, <1>6, <1>7 DEF Arrive

\* A request that ends hands its slot to a ticket whose page has just begun to
\* be told, or to the semaphore.
LEMMA CompleteKeepsTabs ==
    ASSUME IndInv, TabsInv, NEW r \in Requests, Complete(r)
    PROVE  TabsInv'
<1>1. /\ CompleteRequest(r) /\ Answer(r, "served", NoTicket) /\ running' = running \ {r}
      /\ UNCHANGED <<jar, upsets, restarted>>
  BY DEF Complete, CompleteRequest
<1>2. /\ DOMAIN tickets' = DOMAIN tickets /\ Ready \subseteq Ready'
      /\ \A t \in Ready' : tickets'[t] = tickets[t] \/ tickets'[t].age = 0
      /\ \A t \in Ready : tickets'[t] = tickets[t]
      /\ \A t \in Ready' \ Ready : tickets'[t].age = 0
  <2>1. CASE Release
    BY <2>1 DEF Release, Ready
  <2>2. ASSUME NEW t \in Waiting, Transfer(t)
        PROVE  /\ DOMAIN tickets' = DOMAIN tickets
               /\ tickets'[t] = [ready |-> TRUE, age |-> 0]
               /\ \A u \in DOMAIN tickets \ {t} : tickets'[u] = tickets[u]
    BY <2>2 DEF Transfer, Waiting, IndInv, AdmissionTypeOK
  <2>. QED
    BY <1>1, <2>1, <2>2 DEF CompleteRequest, Ready, Waiting
<1>3. running' = {q \in Requests : visit'[q] = "running"}
  BY <1>1 DEF TabsInv, VisitsInv, Answer
<1>4. NoTicket \notin Ready' /\ upsets' \in 0..MaxUpsets
  BY <1>1, <1>2, AdmissionAssumption DEF IndInv, AdmissionTypeOK, Ready, TabsInv, VisitsInv
<1>. QED
  BY <1>1, <1>2, <1>3, <1>4, AnswerKeepsTabs DEF TabsInv, PromptInv, Settled

\* Steps of the worker that no tab sees: the expiry of tickets and the clock.
LEMMA UnseenKeepsTabs ==
    ASSUME IndInv, TabsInv, Expire \/ PromptTick
    PROVE  TabsInv'
<1>1. UNCHANGED <<visit, ticketShown, cookie, jar, upsets, restarted, running>>
  BY DEF Expire, PromptTick, clientVars, ExpireTickets, Tick
<1>2. ASSUME NEW r \in Requests, ticketShown[r] \in Ready
      PROVE  ticketShown[r] \in Ready' /\ tickets'[ticketShown[r]] = tickets[ticketShown[r]]
  <2>1. /\ ticketShown[r] \in DOMAIN ahead /\ ticketShown[r] \in DOMAIN tickets
        /\ tickets[ticketShown[r]].age = 0 /\ tickets[ticketShown[r]].ready
    BY <1>2 DEF TabsInv, PromptInv, Ready, IndInv, QueueWellFormed
  <2>2. CASE Expire
    <3>1. ~Stale(ticketShown[r])
      BY <2>1, AdmissionAssumption DEF Stale
    <3>. QED
      BY <2>1, <2>2, <3>1 DEF Expire, ExpireTickets, TicketsWithout, Ready
  <2>3. CASE PromptTick
    <3>1. visit[r] \in Visits /\ ticketShown[r] # NoTicket
      BY <2>1, AdmissionAssumption DEF TabsInv, VisitsInv, IndInv, AdmissionTypeOK
    <3>2. visit[r] \notin Settled \union {"running"}
      BY <3>1 DEF TabsInv, VisitsInv
    <3>3. Busy(r)
      BY <2>1, <3>1, <3>2 DEF Busy, Visits, Waiting
    <3>. QED
      BY <2>3, <3>3 DEF PromptTick
  <2>. QED
    BY <2>2, <2>3
<1>3. Ready' \subseteq Ready
  <2>1. CASE Expire
    BY <2>1 DEF Expire, ExpireTickets, TicketsWithout, Ready
  <2>2. CASE PromptTick
    BY <2>2 DEF PromptTick, Tick, Ready, IndInv, AdmissionTypeOK, Ticket
  <2>. QED
    BY <2>1, <2>2
<1>4. VisitsInv'
  BY <1>1 DEF TabsInv, VisitsInv
<1>5. PromptInv'
  BY <1>1, <1>2, <1>3 DEF TabsInv, PromptInv
<1>6. ASSUME NEW q \in Sole
      PROVE  Own(q)' /\ Carried(q)'
  BY <1>1, <1>2 DEF TabsInv, Own, Carried, Jar, Sole
<1>. QED
  BY <1>4, <1>5, <1>6 DEF TabsInv, Sole

\* A restart forgets the tickets; the pages and the browsers keep them.
LEMMA RestartKeepsTabs ==
    ASSUME TabsInv, Restart
    PROVE  TabsInv'
<1>1. /\ restarted' = TRUE /\ running' = {} /\ DOMAIN tickets' = {}
      /\ visit' = [r \in Requests |-> IF r \in running THEN "broken" ELSE visit[r]]
      /\ UNCHANGED <<ticketShown, cookie, jar, upsets>>
  BY DEF Restart, TicketsWithout
<1>2. VisitsInv'
  <2>1. visit' \in [Requests -> Visits]
    BY <1>1 DEF TabsInv, VisitsInv, Visits, Settled
  <2>2. \A r \in Requests : visit'[r] # "running"
    BY <1>1 DEF TabsInv, VisitsInv
  <2>3. \A r \in Requests : visit'[r] \in Settled => ticketShown'[r] = NoTicket
    BY <1>1 DEF TabsInv, VisitsInv
  <2>. QED
    BY <1>1, <2>1, <2>2, <2>3 DEF TabsInv, VisitsInv
<1>3. PromptInv'
  BY <1>1 DEF PromptInv, Ready
<1>4. ASSUME NEW q \in Sole
      PROVE  Own(q)' /\ Carried(q)'
  BY <1>1 DEF TabsInv, VisitsInv, Own, Carried, Jar, Sole
<1>. QED
  BY <1>2, <1>3, <1>4 DEF TabsInv, Sole

LEMMA ClientNextInv ==
    ASSUME ClientInv, [ClientNext]_allVars
    PROVE  ClientInv'
<1>. USE ClientAssumption
<1>1. IndInv /\ TabsInv /\ upsets \in 0..MaxUpsets
  BY DEF ClientInv, TabsInv, VisitsInv
<1>2. IndInv'
  <2>1. [AdmissionNext]_admissionVars \/ Restart
    BY ClientInvImplies, ClientStepOnWorker
  <2>. QED
    BY <1>1, <2>1, NextIndInv, RestartKeepsIndInv
<1>3. Upset => upsets' \in 0..MaxUpsets
  BY <1>1 DEF Upset
<1>4. ASSUME NEW r \in Requests, Open(r) \/ Follow(r) \/ Reload(r)
      PROVE  TabsInv'
  BY <1>1, <1>3, <1>4, SendKeepsTabs DEF Open, Follow, Reload
<1>5. ASSUME NEW r \in Requests, Handle(r)
      PROVE  TabsInv'
  BY <1>1, <1>5, HandleKeepsTabs
<1>6. ASSUME NEW r \in Requests, HandleElsewhere(r) \/ Close(r)
      PROVE  TabsInv'
  <2>1. /\ UNCHANGED <<running, tickets, jar, restarted>>
        /\ visit[r] # "running" /\ upsets' \in 0..MaxUpsets
    BY <1>1, <1>3, <1>6 DEF HandleElsewhere, Close, admissionVars
  <2>2. PICK p \in {"served", "closed"} : Answer(r, p, NoTicket)
    BY <1>6 DEF HandleElsewhere, Close
  <2>3. running' = {q \in Requests : visit'[q] = "running"}
    BY <1>1, <2>1, <2>2 DEF TabsInv, VisitsInv, Answer
  <2>4. NoTicket \notin Ready' /\ Ready' = Ready
    BY <1>1, <2>1, AdmissionAssumption DEF Ready, IndInv, AdmissionTypeOK
  <2>5. p \in (Settled \ {"new"}) \union {"running"}
    BY DEF Settled
  <2>. QED
    BY <1>1, <2>1, <2>2, <2>3, <2>4, <2>5, AnswerKeepsTabs DEF TabsInv, PromptInv
<1>7. ASSUME NEW r \in Requests, Deliver(r)
      PROVE  TabsInv'
  BY <1>1, <1>7, DeliverKeepsTabs
<1>8. ASSUME NEW r \in Requests, Poll(r) \/ PollElsewhere(r)
      PROVE  TabsInv'
  <2>1. UNCHANGED <<running, tickets>> /\ visit[r] = "queued" /\ upsets' \in 0..MaxUpsets
    BY <1>1, <1>3, <1>8 DEF Poll, PollElsewhere, ExemptRequest, admissionVars
  <2>2. \/ Polled(r, "requeue") \/ Polled(r, "queued")
        \/ Polled(r, "turn") /\ ticketShown[r] \in Ready
    <3>1. CASE PollElsewhere(r)
      BY <3>1 DEF PollElsewhere
    <3>2. CASE Poll(r) /\ ticketShown[r] \notin DOMAIN tickets
      BY <3>2 DEF Poll, Ready
    <3>3. CASE Poll(r) /\ ticketShown[r] \in Ready
      BY <3>3 DEF Poll, Ready
    <3>4. CASE Poll(r) /\ ticketShown[r] \in DOMAIN tickets /\ ticketShown[r] \notin Ready
      BY <3>4 DEF Poll
    <3>. QED
      BY <1>8, <3>1, <3>2, <3>3, <3>4 DEF Ready
  <2>3. ASSUME NEW p, Polled(r, p),
               p \in {"queued", "requeue", "turn"}, p = "turn" => ticketShown[r] \in Ready
        PROVE  TabsInv'
    BY <1>1, <2>1, <2>3, PolledKeepsTabs
  <2>. QED
    BY <2>2, <2>3
<1>9. ASSUME NEW r \in Requests, Complete(r)
      PROVE  TabsInv'
  BY <1>1, <1>9, CompleteKeepsTabs
<1>10. ASSUME Restart
       PROVE  TabsInv'
  BY <1>1, <1>10, RestartKeepsTabs
<1>11. ASSUME Expire \/ PromptTick
       PROVE  TabsInv'
  BY <1>1, <1>11, UnseenKeepsTabs
<1>12. ASSUME UNCHANGED allVars
       PROVE  TabsInv'
  BY <1>1, <1>12
  DEF allVars, admissionVars, clientVars, TabsInv, VisitsInv, PromptInv, Ready, Own, Carried, Jar, Sole
<1>13. TabsInv'
  BY <1>4, <1>5, <1>6, <1>7, <1>8, <1>9, <1>10, <1>11, <1>12 DEF ClientNext
<1>. QED
  BY <1>2, <1>13 DEF ClientInv, TabsInv

LEMMA ClientInitInv == ClientInit => ClientInv
<1>. SUFFICES ASSUME ClientInit
              PROVE  ClientInv
  OBVIOUS
<1>1. IndInv
  BY InitIndInv DEF ClientInit
<1>2. VisitsInv
  <2>1. running = {} /\ upsets \in 0..MaxUpsets
    BY ClientAssumption DEF ClientInit, AdmissionInit
  <2>. QED
    BY <2>1 DEF ClientInit, VisitsInv, Visits, Settled, Cookies
<1>3. PromptInv
  BY DEF ClientInit, AdmissionInit, PromptInv, Ready
<1>4. \A r \in Sole : Own(r) /\ Carried(r)
  BY ClientAssumption DEF ClientInit, Own, Carried, Jar, Sole
<1>. QED
  BY <1>1, <1>2, <1>3, <1>4 DEF ClientInv

LEMMA ClientInductive == ClientSpec => []ClientInv
<1>1. ClientInv /\ [ClientNext]_allVars => ClientInv'
  BY ClientNextInv
<1>. QED
  BY <1>1, ClientInitInv, PTL DEF ClientSpec

\* The worker and its tabs keep their types.
THEOREM ClientTypes == ClientSpec => []ClientTypeOK
<1>1. ClientInv => ClientTypeOK
  BY ClientInvImplies
<1>. QED
  BY <1>1, ClientInductive, PTL

\* "Your turn!" is kept: the tab that has its browser to itself reloads with its
\* own ticket, which is still ready unless the worker restarted in between,
\* whatever expires, and however other tabs open, reload, close or are misrouted.
THEOREM RedirectsAreServed == ClientSpec => []RedirectIsServed
<1>1. ClientInv => RedirectIsServed
  BY ClientInvImplies
<1>. QED
  BY <1>1, ClientInductive, PTL

\* What is proved of the worker alone holds beside its tabs and across a
\* restart: no slot is lost or made, and slots go first come, first served.
THEOREM ClientsKeepWorker ==
    ClientSpec => [](SlotConservation /\ QueueWellFormed /\ FirstInFirstReady)
<1>1. ClientInv => SlotConservation /\ QueueWellFormed /\ FirstInFirstReady
  BY DEF ClientInv, IndInv
<1>. QED
  BY <1>1, ClientInductive, PTL
=============================================================================
