----------------------------- MODULE Admission -----------------------------
(***************************************************************************)
(* Admission control of one worker: AdmissionState and AdmissionMiddleware *)
(* of src/teredacta/admission.py.  Everything between two awaits of the    *)
(* event loop is one step, so each handler below is one action: the        *)
(* middleware reaches its verdict on a request (run it, queue it, turn it  *)
(* away) without a suspension point, and complete_request and              *)
(* _expire_tickets are plain functions.                                    *)
(*                                                                         *)
(* Abstractions.  A ticket is an id; its QueueTicket record keeps `ready`, *)
(* and `age` for the time since created_at while it waits and since        *)
(* ready_at once it is ready, counted in ticks that saturate one above the *)
(* limit that matters.  The deque is kept as its order: ahead[t] is the    *)
(* set of tickets in front of t.  Durations and wait estimates, which are  *)
(* only displayed, are left out.                                           *)
(***************************************************************************)
EXTENDS Naturals, FiniteSets

CONSTANTS Requests,       \* requests the environment can have in flight
          Tickets,        \* ticket ids (uuid4 in the code)
          NoTicket,       \* a request without a _queue_ticket cookie
          MaxConcurrent,  \* max_concurrent
          MaxQueue,       \* max_queue
          ReadyTTL,       \* ticks an unclaimed ready ticket may age (60s)
          WaitTTL         \* ticks a waiting ticket may age (300s)

ASSUME AdmissionAssumption ==
    /\ MaxConcurrent \in Nat
    /\ MaxQueue \in Nat
    /\ ReadyTTL \in Nat
    /\ WaitTTL \in Nat
    /\ NoTicket \notin Tickets

VARIABLES semaphore,   \* semaphore._value, the slots nobody has
          running,     \* requests inside self.app
          tickets,     \* _tickets: id -> record
          ahead,       \* _queue: id -> the ids in front of it
          expiryLoop   \* _expiry_task is not None

admissionVars == <<semaphore, running, tickets, ahead, expiryLoop>>

Ticket == [ready : BOOLEAN, age : Nat]
Cookies == Tickets \union {NoTicket}

Ready == {t \in DOMAIN tickets : tickets[t].ready}
Waiting == {t \in DOMAIN tickets : ~tickets[t].ready}

\* ticket_position: the tickets in front of t that are not ready.
WaitingAhead(t) == ahead[t] \cap Waiting
Position(t) == Cardinality(WaitingAhead(t))

\* Mutant: the loop stops at any waiting ticket.
AnyoneWaiting(t) == t \in Waiting

\* t is the ticket complete_request's loop stops at.
NextInLine(t) == t \in Waiting /\ WaitingAhead(t) = {}

\* Mutants: >= for >; waiting tickets never expire.
StaleEarly(t) ==
    tickets[t].age >= IF tickets[t].ready THEN ReadyTTL ELSE WaitTTL
StaleOnlyReady(t) == tickets[t].ready /\ tickets[t].age > ReadyTTL

Stale(t) ==
    tickets[t].age > IF tickets[t].ready THEN ReadyTTL ELSE WaitTTL

\* _tickets without the tickets of S.
TicketsWithout(S) == [t \in DOMAIN tickets \ S |-> tickets[t]]

\* Mutant: pop from the dict, forget the deque.
QueueKeeping(S) == ahead

\* _queue without the tickets of S, and with t appended.
QueueWithout(S) == [t \in DOMAIN ahead \ S |-> ahead[t] \ S]

\* Mutant: appendleft.
Prepended(t) ==
    [u \in DOMAIN ahead \union {t} |-> IF u = t THEN {} ELSE ahead[u] \union {t}]

Appended(t) ==
    [u \in DOMAIN ahead \union {t} |-> IF u = t THEN DOMAIN ahead ELSE ahead[u]]

AdmissionInit ==
    /\ semaphore = MaxConcurrent
    /\ running = {}
    /\ tickets = [t \in {} |-> [ready |-> FALSE, age |-> 0]]
    /\ ahead = [t \in {} |-> {}]
    /\ expiryLoop = FALSE

-----------------------------------------------------------------------------
(* The middleware's verdict on request r that carries cookie c. *)

\* The cookie names a ready ticket: the slot is already this request's.
Claim(r, c) ==
    /\ c \in Ready
    /\ running' = running \union {r}
    /\ tickets' = TicketsWithout({c})
    /\ ahead' = QueueWithout({c})
    /\ UNCHANGED semaphore

\* Mutant: acquire without looking at the semaphore.
AcquireUnchecked(r, c) ==
    /\ c \notin Ready
    /\ semaphore' = semaphore - 1
    /\ running' = running \union {r}
    /\ UNCHANGED <<tickets, ahead>>

\* No ready ticket, but a slot is free.  Nobody asks who is waiting.
Acquire(r, c) ==
    /\ c \notin Ready
    /\ semaphore > 0
    /\ semaphore' = semaphore - 1
    /\ running' = running \union {r}
    /\ UNCHANGED <<tickets, ahead>>

QueueFull == Cardinality(DOMAIN ahead) >= MaxQueue

\* create_ticket appends a new ticket, whatever ticket the cookie names.
Enqueue(c, t) ==
    /\ c \notin Ready
    /\ semaphore = 0
    /\ ~QueueFull
    /\ t \notin DOMAIN tickets \union {c}
    /\ tickets' = [u \in DOMAIN tickets \union {t} |->
                     IF u = t THEN [ready |-> FALSE, age |-> 0] ELSE tickets[u]]
    /\ ahead' = Appended(t)
    /\ UNCHANGED <<semaphore, running>>

\* 503.
TurnAway(c) ==
    /\ c \notin Ready
    /\ semaphore = 0
    /\ QueueFull
    /\ UNCHANGED <<semaphore, running, tickets, ahead>>

\* start_expiry_loop runs first, on every HTTP request.
Arrive(r, c) ==
    /\ r \notin running
    /\ expiryLoop' = TRUE
    /\ \/ Claim(r, c)
       \/ Acquire(r, c)
       \/ \E t \in Tickets : Enqueue(c, t)
       \/ TurnAway(c)

\* /health/, /static/, /sse/ and /_queue/: nothing but the expiry loop.
ExemptRequest ==
    /\ expiryLoop' = TRUE
    /\ UNCHANGED <<semaphore, running, tickets, ahead>>

-----------------------------------------------------------------------------
\* Mutant: the slot goes to the ticket and back to the semaphore.
TransferAndRelease(t) ==
    /\ NextInLine(t)
    /\ tickets' = [tickets EXCEPT ![t] = [ready |-> TRUE, age |-> 0]]
    /\ semaphore' = semaphore + 1

\* Mutant: ready_at is not set, the ticket keeps the age it waited to.
TransferKeepingAge(t) ==
    /\ NextInLine(t)
    /\ tickets' = [tickets EXCEPT ![t].ready = TRUE]
    /\ UNCHANGED semaphore

\* complete_request hands the slot to the next ticket in line.
Transfer(t) ==
    /\ NextInLine(t)
    /\ tickets' = [tickets EXCEPT ![t] = [ready |-> TRUE, age |-> 0]]
    /\ UNCHANGED semaphore

\* Mutant: release without looking at the queue.
ReleaseAlways ==
    /\ semaphore' = semaphore + 1
    /\ UNCHANGED tickets

\* complete_request finds no one waiting.
Release ==
    /\ Waiting = {}
    /\ semaphore' = semaphore + 1
    /\ UNCHANGED tickets

\* self.app returned, raised or was cancelled: the finally clause.
CompleteRequest(r) ==
    /\ r \in running
    /\ running' = running \ {r}
    /\ (\E t \in Waiting : Transfer(t)) \/ Release
    /\ UNCHANGED <<ahead, expiryLoop>>

\* Mutant: an abandoned ticket gives back a slot it never had.
SlotsOfAll(S) == Cardinality(S)

\* Mutant: expired tickets give nothing back.
SlotsLeaked(S) == 0

\* The slots that come back when the tickets of S expire.
SlotsOf(S) == Cardinality(S \cap Ready)

\* _expire_tickets, from the loop: ready tickets give their slot back to the
\* semaphore, abandoned ones just go.
ExpireTickets ==
    LET stale == {t \in DOMAIN ahead : Stale(t)}
    IN  /\ expiryLoop
        /\ semaphore' = semaphore + SlotsOf(stale)
        /\ tickets' = TicketsWithout(stale)
        /\ ahead' = QueueWithout(stale)
        /\ UNCHANGED <<running, expiryLoop>>

\* time.monotonic() advances.
Aged(a, ttl) == IF a > ttl THEN a ELSE a + 1
Tick ==
    /\ tickets' = [t \in DOMAIN tickets |-> [tickets[t] EXCEPT
         !.age = Aged(@, IF tickets[t].ready THEN ReadyTTL ELSE WaitTTL)]]
    /\ UNCHANGED <<semaphore, running, ahead, expiryLoop>>

AdmissionNext ==
    \/ \E r \in Requests, c \in Cookies : Arrive(r, c)
    \/ ExemptRequest
    \/ \E r \in Requests : CompleteRequest(r)
    \/ ExpireTickets
    \/ Tick

\* RequestTimeoutMiddleware ends every request after 120s, the loop wakes up
\* every 10s, and time passes.  Nothing is assumed of the clients.
AdmissionFairness ==
    /\ \A r \in Requests : WF_admissionVars(CompleteRequest(r))
    /\ WF_admissionVars(ExpireTickets)
    /\ WF_admissionVars(Tick)

AdmissionSafety == AdmissionInit /\ [][AdmissionNext]_admissionVars
AdmissionSpec == AdmissionSafety /\ AdmissionFairness

-----------------------------------------------------------------------------
(* What the handlers must preserve together. *)

\* The semaphore counts slots, the dict and the deque are over ticket ids.
AdmissionTypeOK ==
    /\ semaphore \in 0..MaxConcurrent
    /\ running \subseteq Requests
    /\ DOMAIN tickets \subseteq Tickets
    /\ tickets \in [DOMAIN tickets -> Ticket]
    /\ DOMAIN ahead \subseteq Tickets
    /\ ahead \in [DOMAIN ahead -> SUBSET Tickets]
    /\ expiryLoop \in BOOLEAN

\* Every slot is free, held by a running request or reserved for a ready
\* ticket, each exactly once: claims, transfers, releases and expiries by
\* several requests and the loop never lose a slot or make one.
SlotConservation ==
    semaphore + Cardinality(running) + Cardinality(Ready) = MaxConcurrent

\* The two structures _tickets and _queue hold the same tickets, the deque's
\* order is a strict total order, and it never holds more than max_queue.
QueueWellFormed ==
    /\ DOMAIN ahead = DOMAIN tickets
    /\ Cardinality(DOMAIN ahead) <= MaxQueue
    /\ \A t \in DOMAIN ahead : ahead[t] \subseteq DOMAIN ahead \ {t}
    /\ \A t, u \in DOMAIN ahead :
          t # u => (u \in ahead[t] <=> t \notin ahead[u])
    /\ \A t \in DOMAIN ahead : \A u \in ahead[t] : ahead[u] \subseteq ahead[t]

\* Slots are handed out first come, first served: a ticket is ready only
\* when every ticket in front of it is.  complete_request relies on its loop
\* over the deque for this; claims and expiries take tickets out of the middle.
FirstInFirstReady ==
    \A t \in Ready : ahead[t] \subseteq Ready

\* "No place lost": while a ticket waits, the position its page shows never
\* goes up, whatever arrives, completes, is claimed or expires.
PositionNeverGrows ==
    [][\A t \in Waiting : t \in Waiting' => Position(t)' <= Position(t)]_admissionVars

\* A slot that was promised stays promised: a ready ticket stays ready until
\* a request starts running in its place or it has aged beyond the limit.
ReservationHonoured ==
    [][\A t \in Ready : \/ t \in Ready'
                        \/ tickets[t].age > ReadyTTL
                        \/ \E r \in running' : r \notin running]_admissionVars

\* A free slot next to a waiting ticket: nothing hands that slot over, the
\* ticket waits for another request to complete or for its own expiry.
Stranded == semaphore > 0 /\ Waiting # {}

\* Only the expiry of a ready ticket strands the others: every completion
\* hands its slot on, and no ticket is created while a slot is free.
OnlyExpiryStrands ==
    [][~Stranded /\ Stranded' =>
          \E t \in Ready : tickets[t].age > ReadyTTL /\ t \notin DOMAIN tickets']_admissionVars

\* No ticket stays for ever, whatever its browser does ("Neither leaks a
\* semaphore slot"): it is claimed, or it expires, ready or not.
TicketsLeave ==
    \A t \in Tickets : t \in DOMAIN tickets ~> t \notin DOMAIN tickets

\* The semaphore, the running requests and the ready tickets implement a pool
\* of MaxConcurrent slots, with its fairness.
Pool == INSTANCE SlotPool WITH held <- running, reserved <- Ready,
                               Capacity <- MaxConcurrent
PoolSpec == Pool!Spec

\* "FIFO queue", "0 = next to be admitted": a request takes a slot from the
\* semaphore only when no ticket waits for one.  The code violates this.
NextInLineIsNext == [][semaphore' < semaphore => Waiting = {}]_admissionVars
=============================================================================
