--------------------------- MODULE RequestTimeout ---------------------------
(***************************************************************************)
(* RequestTimeoutMiddleware, src/teredacta/timeout_middleware.py, with     *)
(* what is around it, the slots of admission control (the abstract         *)
(* SlotPool, which Admission implements), and what is inside it: handlers  *)
(* in worker threads that borrow connections of the ConnectionPool.        *)
(* wait_for cancels the request's task and not the thread, so slot, answer *)
(* and connection part.                                                    *)
(*                                                                         *)
(* Abstractions.  A thread that a cancelled task has left no longer counts *)
(* for the limiter of the server's threads; Workers bounds how many there  *)
(* are.  The threads of ConnectionPool that are no workers query outside   *)
(* admission: those of the statistics' executor and the warm-up thread.    *)
(* The cancellation, the exception handler and its two sends are one step: *)
(* nothing that races with them reads or writes what they do.              *)
(***************************************************************************)
EXTENDS ConnectionPool, Sequences

CONSTANTS Requests, Tickets, Capacity,
          Workers   \* threads that run handlers

ASSUME TimeoutAssumption ==
    /\ Workers \subseteq Threads /\ IsFiniteSet(Threads \ Workers)
    /\ Capacity \in Nat

VARIABLES held, reserved,  \* slots: of requests that run, for tickets
          stage,           \* where each request is
          headersSent,     \* its headers_sent
          sent,            \* the messages its client has got
          worker,          \* the thread its task awaits
          busy             \* threads that run a handler

Slots == INSTANCE SlotPool

slotVars == <<held, reserved>>
requestVars == <<stage, headersSent, sent, worker>>
timeoutVars == <<slotVars, requestVars, busy, vars>>

Pollers == Threads \ Workers

TimeoutInit ==
    /\ Init /\ Slots!Init
    /\ stage = [r \in Requests |-> "out"]
    /\ headersSent = [r \in Requests |-> FALSE]
    /\ sent = [r \in Requests |-> <<>>]
    /\ worker = [r \in Requests |-> None]
    /\ busy = {}

At(r, s) == stage' = [stage EXCEPT ![r] = s]
Start(status) == [part |-> "start", status |-> status]
Body(status) == [part |-> "body", status |-> status]
Sends(r, messages) == sent' = [sent EXCEPT ![r] = @ \o messages]

-----------------------------------------------------------------------------
(* Around the middleware. *)

\* Admitted, at once or with a ticket.
Enter(r) ==
    /\ stage[r] = "out"
    /\ Slots!Take(r) \/ \E t \in Tickets : Slots!Redeem(r, t)
    /\ At(r, "handler")
    /\ UNCHANGED <<headersSent, sent, worker, busy, vars>>

\* The finally clause of the admission middleware.
Leave(r) ==
    /\ stage[r] = "finished"
    /\ Slots!Finish(r)
    /\ At(r, "out")
    /\ headersSent' = [headersSent EXCEPT ![r] = FALSE]
    /\ sent' = [sent EXCEPT ![r] = <<>>]
    /\ UNCHANGED <<worker, busy, vars>>

\* Tickets whose browsers did not come back.
Lapse ==
    /\ \E S \in SUBSET reserved : Slots!Lapse(S)
    /\ UNCHANGED <<requestVars, busy, vars>>

-----------------------------------------------------------------------------
(* Threads.  A handler makes any number of queries, one after the other,   *)
(* and each borrows a connection and returns it or fails.                  *)

Query(t) ==
    /\ t \in busy \union Pollers
    /\ Call(t)
    /\ UNCHANGED <<slotVars, requestVars, busy>>

PoolStep ==
    /\ (\E t \in Threads : Advance(t)) \/ StartClose \/ Drain
    /\ UNCHANGED <<slotVars, requestVars, busy>>

-----------------------------------------------------------------------------
(* The request's task: await self.app(scope, receive, guarded_send). *)

\* Mutant: headers_sent is not asked.
RefuseAlways(r, status) == Sends(r, <<Start(status), Body(status)>>)

\* An error page, if the answer has not begun.
Refuse(r, status) ==
    IF headersSent[r] THEN UNCHANGED sent ELSE Sends(r, <<Start(status), Body(status)>>)

\* guarded_send sets the flag first; its send may wait for a slow client.
GuardedSend(r) ==
    /\ headersSent' = [headersSent EXCEPT ![r] = TRUE]
    /\ At(r, "start")
    /\ UNCHANGED sent

\* An exception; from Python 3.11 on the pool's TimeoutError is an
\* asyncio.TimeoutError too.
Fails(r) ==
    /\ \E status \in {500, 504} : Refuse(r, status)
    /\ At(r, "finished")
    /\ UNCHANGED headersSent

\* An asynchronous handler without a query answers by itself.
CallHandler(r) ==
    /\ stage[r] = "handler"
    /\ \/ \E t \in Workers \ busy :
             /\ busy' = busy \union {t}
             /\ worker' = [worker EXCEPT ![r] = t]
             /\ At(r, "awaiting")
             /\ UNCHANGED <<headersSent, sent>>
       \/ GuardedSend(r) /\ UNCHANGED <<worker, busy>>
    /\ UNCHANGED <<slotVars, vars>>

\* Nobody waits for this thread any more, since its request timed out.
Abandoned(t) == t \in busy /\ \A r \in Requests : worker[r] # t

\* The handler's result or exception goes to the task that awaits the thread, or
\* to nobody.
HandlerReturns(t) ==
    /\ t \in busy /\ pc[t] = "out"
    /\ busy' = busy \ {t}
    /\ \/ Abandoned(t) /\ UNCHANGED requestVars
       \/ \E r \in Requests :
             /\ worker[r] = t
             /\ worker' = [worker EXCEPT ![r] = None]
             /\ GuardedSend(r) \/ Fails(r)
    /\ UNCHANGED <<slotVars, vars>>

SendStart(r) ==
    /\ stage[r] = "start"
    /\ Sends(r, <<Start(200)>>)
    /\ At(r, "body")
    /\ UNCHANGED <<slotVars, headersSent, worker, busy, vars>>

SendBody(r) ==
    /\ stage[r] = "body"
    /\ Sends(r, <<Body(200)>>)
    /\ At(r, "finished")
    /\ UNCHANGED <<slotVars, headersSent, worker, busy, vars>>

\* The awaits where wait_for's cancel reaches the task.
Cancellable == {"handler", "awaiting", "start", "body"}

\* 120 s have passed: except asyncio.TimeoutError.  The thread goes on.
TimesOut(r) ==
    /\ stage[r] \in Cancellable
    /\ Refuse(r, 504)
    /\ At(r, "finished")
    /\ worker' = [worker EXCEPT ![r] = None]
    /\ UNCHANGED <<slotVars, headersSent, busy, vars>>

-----------------------------------------------------------------------------
TimeoutNext ==
    \/ \E r \in Requests : \/ Enter(r) \/ CallHandler(r) \/ SendStart(r) \/ SendBody(r)
                           \/ TimesOut(r) \/ Leave(r)
    \/ \E t \in Threads : Query(t) \/ HandlerReturns(t)
    \/ PoolStep
    \/ Lapse

\* The calls of the pool end as ConnectionPool assumes, also those of threads that
\* nobody waits for.  Nothing makes a handler return.
TimeoutSpec == TimeoutInit /\ [][TimeoutNext]_timeoutVars /\ Fairness

-----------------------------------------------------------------------------
(* Properties. *)

\* Every client gets one answer: one start and no body but its own, though the
\* timer races the handler's answer and late results of threads.  An answer cut
\* off after its start has no body; a request that ends without a start was cut
\* off while it sent it, which the flag cannot tell from one that was sent.
OneAnswer ==
    \A r \in Requests :
        /\ \/ sent[r] = <<>> /\ (stage[r] = "finished" => headersSent[r])
           \/ \E status \in {200, 500, 504} :
                 sent[r] \in {<<Start(status)>>, <<Start(status), Body(status)>>}
        /\ r \in held <=> stage[r] # "out"

\* "lower max_concurrent_requests to match max_pool_size": with a connection for
\* each slot and each polling thread, a thread that somebody waits for finds
\* none in a full pool only while an abandoned one still has one.
WaitsForTheAbandoned ==
    \A t \in Threads :
        /\ pc[t] = "wait" /\ ~Abandoned(t)
        /\ idle = {} /\ size = MaxSize /\ ~closed
        /\ Capacity + Cardinality(Pollers) <= MaxSize
        => \E u \in Holders \union Makers : Abandoned(u)
=============================================================================
