---------------------------- MODULE QueueClients ----------------------------
(***************************************************************************)
(* The other half of the admission protocol: browser tabs that talk to one *)
(* worker.  Here the requests of Admission are the visits of tabs.  A tab  *)
(* that is queued gets the queue page of _queue_page_html and the cookie   *)
(* _queue_ticket, and runs static/js/queue.js: it polls /_queue/status for *)
(* the ticket in its page, and reloads its URL when the ticket is ready or *)
(* unknown.  The page knows its ticket; the reload carries whatever ticket *)
(* the browser's cookie jar holds, and tabs of one browser share the jar.  *)
(*                                                                         *)
(* Sending a request, its handling, and the arrival of the response are    *)
(* separate steps, so the requests of several tabs cross.  The worker may  *)
(* restart once, and a request or a poll may reach another worker process, *)
(* which knows nothing of this worker's tickets.                           *)
(***************************************************************************)
EXTENDS Admission

CONSTANTS Browsers,    \* cookie jars
          BrowserOf,   \* the browser of each tab
          MaxUpsets    \* bound: user reloads and misrouted messages, together

ASSUME ClientAssumption ==
    /\ BrowserOf \in [Requests -> Browsers]
    /\ MaxUpsets \in Nat

\* uuid4 never runs out: there are more ids than the tabs, their requests, their
\* browsers and the queue can hold at once.
ASSUME FreshAssumption ==
    /\ IsFiniteSet(Requests)
    /\ IsFiniteSet(Tickets) =>
          Cardinality(Tickets) > MaxQueue + 3 * Cardinality(Requests)

VARIABLES visit,       \* what each tab is doing
          ticketShown, \* the ticket in its queue page (data-ticket)
          cookie,      \* the cookie of the request a tab has in flight
          jar,         \* each browser's _queue_ticket cookie
          upsets,      \* reloads and misrouted messages so far
          restarted    \* the worker has restarted

clientVars == <<visit, ticketShown, cookie, jar, upsets, restarted>>
allVars == <<admissionVars, clientVars>>

Jar(r) == jar[BrowserOf[r]]
Settled == {"new", "served", "full", "broken", "closed"}
Visits == Settled \union {"sent", "running", "arriving", "queued", "turn", "requeue"}

\* uuid4: an id nobody holds.  Ids are interchangeable, so one choice stands
\* for all of them; FreshAssumption says that there is one.
FreshId ==
    CHOOSE t \in Tickets \ DOMAIN tickets :
        \A r \in Requests : t \notin {ticketShown[r], cookie[r], Jar(r)}

ClientInit ==
    /\ AdmissionInit
    /\ visit = [r \in Requests |-> "new"]
    /\ ticketShown = [r \in Requests |-> NoTicket]
    /\ cookie = [r \in Requests |-> NoTicket]
    /\ jar = [b \in Browsers |-> NoTicket]
    /\ upsets = 0
    /\ restarted = FALSE

Upset == upsets < MaxUpsets /\ upsets' = upsets + 1

\* The browser of r sends a GET with the jar's cookie.
Send(r) ==
    /\ visit' = [visit EXCEPT ![r] = "sent"]
    /\ cookie' = [cookie EXCEPT ![r] = Jar(r)]
    /\ UNCHANGED <<admissionVars, ticketShown, jar, restarted>>

\* The tab opens the site; window.location.href = url; the user reloads.
Open(r) == visit[r] = "new" /\ Send(r) /\ UNCHANGED upsets
Follow(r) == visit[r] \in {"turn", "requeue"} /\ Send(r) /\ UNCHANGED upsets
Reload(r) == visit[r] = "queued" /\ Send(r) /\ Upset

\* The tab's request is answered: it is now at p with ticket t.
Answer(r, p, t) ==
    /\ visit' = [visit EXCEPT ![r] = p]
    /\ ticketShown' = [ticketShown EXCEPT ![r] = t]
    /\ cookie' = [cookie EXCEPT ![r] = NoTicket]

\* The middleware's verdict: admitted, queued with a new ticket, or 503.
Handle(r) ==
    /\ visit[r] = "sent"
    /\ Arrive(r, cookie[r])
    /\ \/ r \in running' /\ Answer(r, "running", NoTicket)
       \/ FreshId \in DOMAIN tickets' /\ Answer(r, "arriving", FreshId)
       \/ /\ r \notin running'
          /\ DOMAIN tickets' = DOMAIN tickets
          /\ Answer(r, "full", NoTicket)
    /\ UNCHANGED <<jar, upsets, restarted>>

\* Another worker, with a free slot, answers the request.
HandleElsewhere(r) ==
    /\ visit[r] = "sent"
    /\ Answer(r, "served", NoTicket)
    /\ Upset
    /\ UNCHANGED <<admissionVars, jar, restarted>>

\* The queue page arrives and the browser stores its cookie.
Deliver(r) ==
    /\ visit[r] = "arriving"
    /\ visit' = [visit EXCEPT ![r] = "queued"]
    /\ jar' = [jar EXCEPT ![BrowserOf[r]] = ticketShown[r]]
    /\ UNCHANGED <<admissionVars, ticketShown, cookie, upsets, restarted>>

\* The page acts on the answer to a poll.
Polled(r, p) ==
    /\ visit' = [visit EXCEPT ![r] = p]
    /\ UNCHANGED <<ticketShown, cookie, jar, restarted>>

\* Mutant: queue.js without its branch for "requeue".
PollNoRequeue(r) ==
    /\ visit[r] = "queued"
    /\ ExemptRequest
    /\ Polled(r, IF ticketShown[r] \in Ready THEN "turn" ELSE "queued")
    /\ UNCHANGED upsets

\* One round of the setInterval callback: /_queue/status is an exempt path.
Poll(r) ==
    /\ visit[r] = "queued"
    /\ ExemptRequest
    /\ Polled(r, CASE ticketShown[r] \notin DOMAIN tickets -> "requeue"
                   [] ticketShown[r] \in Ready -> "turn"
                   [] OTHER -> "queued")
    /\ UNCHANGED upsets

\* The poll reaches another worker, which answers requeue.
PollElsewhere(r) ==
    /\ visit[r] = "queued"
    /\ Polled(r, "requeue")
    /\ Upset
    /\ UNCHANGED admissionVars

Close(r) ==
    /\ visit[r] \in {"arriving", "queued"}
    /\ Answer(r, "closed", NoTicket)
    /\ UNCHANGED <<admissionVars, jar, upsets, restarted>>

Complete(r) ==
    /\ CompleteRequest(r)
    /\ Answer(r, "served", NoTicket)
    /\ UNCHANGED <<jar, upsets, restarted>>

\* The worker process is replaced: a new AdmissionState, and the requests that
\* were running fail.
Restart ==
    /\ ~restarted
    /\ restarted' = TRUE
    /\ semaphore' = MaxConcurrent
    /\ running' = {}
    /\ tickets' = TicketsWithout(DOMAIN tickets)
    /\ ahead' = QueueWithout(DOMAIN ahead)
    /\ expiryLoop' = FALSE
    /\ visit' = [r \in Requests |-> IF r \in running THEN "broken" ELSE visit[r]]
    /\ UNCHANGED <<ticketShown, cookie, jar, upsets>>

Expire == ExpireTickets /\ UNCHANGED clientVars

\* A tick is long against a visit's reaction (a poll every 3s against limits of
\* 60s and 300s): it does not pass over a page that has something to do.
Busy(r) == \/ visit[r] \in {"sent", "arriving", "turn", "requeue"}
           \/ visit[r] = "queued" /\ ticketShown[r] \notin Waiting
PromptTick ==
    /\ \A r \in Requests : ~Busy(r)
    /\ Tick
    /\ UNCHANGED clientVars

ClientNext ==
    \/ \E r \in Requests :
          \/ Open(r) \/ Follow(r) \/ Reload(r) \/ Handle(r) \/ HandleElsewhere(r)
          \/ Deliver(r) \/ Poll(r) \/ PollElsewhere(r) \/ Close(r) \/ Complete(r)
    \/ Restart \/ Expire \/ PromptTick

\* The open tabs run their script, the network delivers, requests end (120s
\* timeout) and the expiry loop wakes up.  Nobody has to open, reload or close.
ClientFairness ==
    /\ \A r \in Requests :
          /\ WF_allVars(Follow(r))
          /\ WF_allVars(Handle(r))
          /\ WF_allVars(Deliver(r))
          /\ WF_allVars(Poll(r))
          /\ WF_allVars(Complete(r))
    /\ WF_allVars(Expire)
    /\ WF_allVars(PromptTick)

ClientSpec == ClientInit /\ [][ClientNext]_allVars /\ ClientFairness

-----------------------------------------------------------------------------
ClientTypeOK ==
    /\ AdmissionTypeOK
    /\ visit \in [Requests -> Visits]
    /\ ticketShown \in [Requests -> Cookies]
    /\ cookie \in [Requests -> Cookies]
    /\ jar \in [Browsers -> Cookies]
    /\ upsets \in 0..MaxUpsets
    /\ restarted \in BOOLEAN

\* The tabs that have their browser to themselves.
Sole == {r \in Requests : \A q \in Requests : BrowserOf[q] = BrowserOf[r] => q = r}

\* A tab alone in its browser that is told "Your turn!" is served with its
\* own slot: its cookie is its visit's ticket, that ticket is still ready
\* (unless the worker restarted), and the reload on its way carries it.
RedirectIsServed ==
    \A r \in Sole :
        /\ visit[r] \in {"queued", "turn"} => Jar(r) = ticketShown[r]
        /\ visit[r] = "turn" /\ ~restarted => ticketShown[r] \in Ready
        /\ visit[r] = "sent" /\ ticketShown[r] \in Ready => cookie[r] = ticketShown[r]

\* Every tab that opened the site and stays is eventually served or refused,
\* through expiries, restarts, misrouted polls and tabs that take each
\* other's tickets: no page stays on "You are in the queue".
Settles == <>[](\A r \in Requests : visit[r] \in Settled)

\* When the visits are over the worker is as new: every slot is back and no
\* ticket is left, whatever pages were closed, reloaded or lost.
Drains == <>[](semaphore = MaxConcurrent /\ DOMAIN tickets = {})

\* "User refreshes queue page: Same ticket cookie, same position. No place
\* lost."  A request whose cookie names a waiting ticket is not given another.
\* The code violates this: create_ticket does not look at the cookie.
RefreshKeepsPlace ==
    [][\A r \in Requests :
          visit[r] = "sent" /\ cookie[r] \in Waiting /\ visit'[r] = "arriving"
             => ticketShown'[r] = cookie[r]]_allVars

\* "When ready: true, the queue page JS auto-redirects to the original URL (the
\* re-submitted request carries the ticket cookie)".  The code violates this
\* for two tabs of one browser: the jar holds the ticket of the later page.
RedirectCarriesTicket ==
    \A r \in Requests : visit[r] = "turn" => Jar(r) = ticketShown[r]
=============================================================================
