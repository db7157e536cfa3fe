# TEREDACTA in TLA+

TEREDACTA is a web application over the SQLite database of another program,
the Unobfuscator. Its pages are queries; what is hard about it is what
surrounds them: every request passes an admission queue, runs in a thread that
borrows a connection from a pool, and may be cancelled; administrators watch
live statistics over streams fed by one shared task; background builds,
migrations and a command line act on the same files; and the pages' scripts fill
several panels from answers that come in any order. This directory holds TLA+
modules of those parts, TLC runs that check them on small instances and proofs
that the TLA+ proof system checks for every instance.

Paths below are relative to the repository; `admission.py` and the like are in
`src/teredacta/`.

## 1. The system

| Component | State | Operations | Talks to |
|---|---|---|---|
| Admission control (`admission.py`) | semaphore, `_tickets`, `_queue`, expiry task, per worker process | admit, claim a ready ticket, queue, refuse, complete (transfer or release), expire | wraps the whole application; the queue page |
| Queue page (`_queue_page_html`, `static/js/queue.js`) | ticket in the page, cookie in the browser | poll every 3s, redirect when ready or unknown | `/_queue/status`, then the original URL |
| Timeout middleware (`timeout_middleware.py`) | none | cancel a request after 120s, answer 504 | inside admission |
| Connection pool (`db_pool.py`, `unob.py`) | `_pool` (idle queue), `_size`, `_closed`, `_lock`, lazily created | acquire, release, close, status | handler threads, shutdown hook, health |
| Live statistics (`sse.py`, `routers/dashboard.py`) | `_subscribers`, one task, `_last_stats`, a queue per client | subscribe, stream, unsubscribe, poll and broadcast | event loop, an executor thread, the database |
| Health (`routers/health.py`) | none | live, ready | pool status, subscriber count |
| Entity index (`entity_index.py`) | an SQLite file, a status cache | build, status, queries | Unobfuscator database, admin and explore pages |
| Migration (`unob.py`) | schema of the database; `_fts_available` in each server | `run_migration`, `_has_fts` | the Unobfuscator's database, other migrations, searches |
| Queries and caches (`unob.py`) | statistics caches | query, `ensure_indexes` | pool |
| Unobfuscator daemon control (`unob.py`, `routers/admin.py`) | PID file of the other program | start, stop, restart through a subprocess | external program |
| Command line (`__main__.py`) | PID file | start, stop, run, migrate | the server process |
| Explore page (`static/js/explore.js`, `explore.html`) | filter, type, page, the entity and the recovery shown, session history | type, filter, page, choose, Back, Forward | the list, connection and preview routes |
| Recovery page (`static/js/source-panel.js`, htmx) | tab, selected passage, source panel | change tab, j and k, click, close | the tab and source routes, the Original Documents tab |
| Original Documents (`original-pdfs.js`, `original-pdfs-single.js`, `comparison.js`) | two panes, their mode, scroll listeners | load, choose a donor, synchronise | the text route, iframes |
| PDF viewer (`pdf-embed.js`) | the document, a container of canvases | render, resize | PDF.js |
| Authentication (`auth.py`, `routers/admin.py`) | signed cookies; login attempts per address | login, logout, checks | admin pages |
| Page and API routers, other templates, installer, configuration | none that changes | render | queries |

What makes each of the core parts correct:

* admission: no slot is lost or made twice; first come, first served; a promised
  slot stays promised; nothing an absent browser holds stays for ever;
* queue page: every page that stays open is answered, with the slot it was told
  it has, across restarts and misrouted polls;
* live statistics: no subscriber misses the last change; the task runs while,
  and only while, somebody is subscribed;
* entity index: what a status says is about some committed index, at most 60s
  old, and errs by no more than two clocks differ; builds follow one another and
  leave the database unlocked;
* connection pool: a connection is with one thread at a time; `_size` counts
  exactly; `max_size` holds; every call ends, also around failures and shutdown;
* timeout: every client gets one answer, and a thread that is left behind is the
  only reason why another may have to wait for a connection;
* migration: one that says it is done has made column, flags and table, also after
  one that ended early, and only the early end of one that fills the table leaves
  it unfilled;
* command line: between commands the PID file names the one daemon that runs;
* pages: at rest, what the panels show belongs together and is what the controls,
  the selection and the address say, except where answers have overlapped.

The hard behaviours are the interleavings of the event loop's tasks at their awaits
and of threads at any point, cancellation, expiry racing with a client that comes
back, restarts of a worker, two workers that do not share their queues, failures
between two steps, answers that overtake each other, and scripts and listeners that
are inserted again and again. `PROJECT.json` lists each hazard at its line with the
properties about it.

## 2. Modules

| Module | What it is |
|---|---|
| `SlotPool` | abstract: a pool of slots, each free, held or reserved |
| `Admission` | one worker's `AdmissionState` and `AdmissionMiddleware` |
| `AdmissionProofs` | theorems about `Admission` and `QueueClients` |
| `QueueClients` | browsers and the network, composed with `Admission` |
| `SSE` | `SSEManager` and its streams |
| `ConnectionPool` | `ConnectionPool` and its use in `UnobInterface` |
| `ConnectionPoolProofs` | theorems about `ConnectionPool` and `RequestTimeout` |
| `RequestTimeout` | the timeout middleware, composed with `SlotPool` and `ConnectionPool` |
| `EntityIndex` | `EntityIndex.build` and `get_status`, by threads of worker processes |
| `Page` | what the pages' scripts share: requests in flight |
| `Explore` | the Explore page |
| `Comparison` | the Original Documents tab |
| `RecoveryPage` | the page of a recovery, composed with `Comparison` |
| `PdfEmbed` | the embedded PDF viewer |
| `Pages` | a tab of the browser: one of the pages of `Explore`, `RecoveryPage` and `PdfEmbed` at a time |
| `PidFile` | `start`, `stop` and the daemon's exit |
| `Migration` | `run_migration` and the processes that depend on it |
| `SSEProofs`, `EntityIndexProofs`, `ExploreProofs` | theorems about these modules |
| `RecoveryPageProofs` | theorems about `RecoveryPage` and `Comparison` |
| `PagesProofs` | theorems about `PdfEmbed` and `Pages` |
| `CommandLineProofs` | theorems about `PidFile` and `Migration` |
| `MCAdmission`, `MCSSE`, `MCQueueClients`, `MCConnectionPool`, `MCEntityIndex`, `MCPages` | finite sets and bounds for TLC |
| `MCEventLoop`, `MCBrowser`, `MCFiles` | the same for parts that share nothing, side by side |

### Admission

The event loop switches tasks only at awaits, and `__call__` reaches its verdict
without one (`Semaphore.acquire` does not suspend while the value is positive),
so each handler is one action: `Arrive` is `__call__` with its branches `Claim`,
`Acquire`, `Enqueue` and `TurnAway`; `ExemptRequest` the exempt paths;
`CompleteRequest` the `finally` clause with `Transfer` or `Release`;
`ExpireTickets` one round of the expiry loop, which exists only after the first
request. `tickets` is `_tickets`; `ahead` is the deque, kept as the set of
tickets in front of each ticket, so that removing from the middle is one
expression and an order is something to prove. A ticket's `age` is the time since
`created_at`, or since `ready_at` once it is ready, in ticks that stop one above
the limit that matters. `semaphore` is `_value`.

`SlotPool` says what a caller may rely on without the semaphore: `PoolSpec`
checks, with `held <- running` and `reserved <- Ready`, that `Admission`
implements it including its liveness.

### Queue clients

`QueueClients` extends `Admission`: its requests are the visits of tabs. A tab goes
(`visit`) from `new` through `sent`, `arriving` (the queue page is on its way),
`queued`, `turn` or `requeue` (the page is about to redirect) and `running` to
`served`, `full`, `broken` (its worker restarted) or `closed`. The page polls for
the ticket it shows (`ticketShown`); the redirect carries the ticket of the
browser's cookie jar, which the tabs of a browser share. A request or a poll may
reach another worker process (`HandleElsewhere`, `PollElsewhere`), which knows none
of this worker's tickets; the worker may be replaced once (`Restart`).
`FreshAssumption` is uuid4: there are more ids than the queue, the pages, the
requests and the jars can hold at once, so `FreshId` always finds one that nobody
holds.

### Live statistics

An action of `SSE` is what runs between two suspension points. `task` is where
`_poll_loop` is; `cancelled` is a `cancel()` that has been called and not yet
delivered: the task is not `done()` in between. `Fetch` is the executor's thread,
`Broadcast` what follows on the event loop. `Abandon` is a client that goes away
before its generator runs, whose `finally` therefore never does. Statistics are a
version number.

### Connection pool

`ConnectionPool` is at the grain of threads: each action reads or writes one
shared thing or is a section under a lock. `CreatePool` is the double-checked
creation, `TryIdle`, `Grow`, `Connect`, `ConnectFails` and `Wait` are `acquire`
line by line (with `_lock` held across the connect), `Finish` and `PutBack` are
`release` with its check of `_closed` apart from its put, `StartClose` and `Drain`
are `close`.

### Request timeout

`RequestTimeout` puts the middleware between its surroundings. Outside are the
slots, as `SlotPool` promises them (`Enter`, `Leave`, `Lapse`). Inside, a handler
runs in a worker thread (`CallHandler`, `HandlerReturns`) that makes any number of
queries, each a call of `ConnectionPool` (`Query`, `PoolStep`); threads that are no
workers query outside admission, as the statistics' executor does. `TimesOut` may
come at every await. It ends the request, whose slot `Leave` gives back, and leaves
the thread: `busy` keeps it, `worker` forgets it, and it goes on querying. `sent`
is what the client has got; `headersSent` is set before the send that it is about
(`GuardedSend`, `SendStart`), so a cut between the two leaves a client without any
answer, which `OneAnswer` allows there and nowhere else. `Fails` allows 500 and
504 for an exception: from Python 3.11 on the pool's `TimeoutError` is the
exception that the middleware catches.

### Entity index

In `EntityIndex` a thread is in a status (`check`, `query`, `count`, `store`) or
in a build (`begin`, `rebuild`, `stamped`, then `invalidate` or `raised`); the
steps are what runs between two calls into SQLite. A status carries the
`max_merge_ts` its caller read before (`Ask`), the time it began and the build
whose `built_at` it shows. A build carries the merge results its cursor sees
(`upto`), fixed when the SELECT starts, and the times of that, of `built_at` and
of the commit. `writer` is SQLite's write lock: `BEGIN IMMEDIATE` takes it, the
commit gives it back, and after an exception the end of the connection does
(`DropConnection`), when the handler has reported the error.

`clock` is UTC, in which SQLite's CURRENT_TIMESTAMP writes `created_at` (the schema
is in `tests/conftest.py:76`); the cache's monotonic clock advances with it.
`built_at` is local time (`entity_index.py:390`): `zone` gives what it is ahead of
UTC at each time, so that it may jump where clocks are put forward or back, and
`BuiltAt` is the time whose text a build stores. `Outdated` compares the two texts,
as `get_status` does (`entity_index.py:456`): one format, two clocks.

### Pages

The scripts of a page run one at a time; what interleaves is the user, the timers,
htmx and the answers. A panel's value is what it was rendered from (a query, an
entity, a passage, a member), or `Failed` for its error message; `Page` counts the
requests in flight, and any of them may be answered next or fail. Some variables
are not in the code but remember what happened, so that a property can say exactly
when it may not hold: `crossed` (panels of the Explore page whose last requests
overlapped another; Back or Forward over a preview), `overlapped` (the same for the
source panel, also for a close), `wanted` and `late` (a setup of the scroll
synchronisation has come; one came after a load event), `alone` (no other rendering
was under way). A hazard that such a variable excepts is one the code has: the
property says where it ends, and does not deny it (section 5).

* `Explore`: `TypeFilter` and `Debounced` are the filter box with its 300 ms timer, the
  type tabs act at once, `firstLoad` is htmx's own first request. The entity is
  entered in `history` before its answer after a click in the list and after it
  for a click on a connected entity, as in the code; Back and Forward (`GoTo`) ask
  again.
* `RecoveryPage`: every htmx swap on the page, which for an administrator includes
  the status in the page's head, runs `AfterSwap`. htmx sends one request per
  button at a time and keeps one more (`tabReqs`, `tabQueued`).
* `Comparison`: every load of the tab inserts its scripts again, which run later
  and in order (`scripts`), whatever the page shows by then; each run of
  `comparison.js` is an instance with its own listeners, and listeners of elements
  that left the page stay.
* `PdfEmbed`: every call of `renderPDF` has its own place between the awaits and
  appends to the same container; nothing stops an earlier one.

### Command line and migration

In `PidFile` an action is one access to the file or one signal: `start` reads,
probes, removes a stale file, forks and writes; `stop` reads, checks, signals,
waits, kills and removes; the daemon's exit handler looks and removes. Daemons
crash, commands are cut off, process ids are given to other programs.
`disturbed` remembers that two commands overlapped or that a start was cut off
between its fork and its file: the two cases in which `FileNamesDaemon` promises
nothing.

In `Migration` an action is one SQL statement with `sqlite3`'s transactions: only
the UPDATE and the INSERT open one, so that CREATE VIRTUAL TABLE is there before the
index is filled. Migrations run beside each other and end early anywhere; the
Unobfuscator adds documents; servers ask once whether the table exists. `migrator`
has SQLite's write lock. `created` and `backfills` remember what the properties
speak about: how many documents there were when the table was made and when a
migration set the flags.

## 3. Runs

| Run | Instance | States | Shows |
|---|---|---|---|
| `event_loop` | 2 slots, 3 requests, 4 tickets, queue of 3; 3 clients, 2 subscribers, queues of 2, 3 versions, 1 failure | 80k | the invariants and action properties of admission, `TicketsLeave`, and the refinement of `SlotPool`; `CaughtUp`, `OnlyCancelLosesTheLoop`, `IdleStops`, `StreamsGetNews` of the live statistics |
| `admission_barging` | 1 slot | | violated: position 0 is not always the next to be admitted |
| `sse_lost_loop` | clients as above | | violated: a subscriber may be left without a polling task |
| `connection_pool` | 3 threads, 2 of at most 3 connections; 1 slot, 1 request, 1 ticket; 2 of the threads run handlers | 206k | `Ownership`, `SizeAccounts`, `NeverOverCapacity`, `EveryCallEnds`, `OneAnswer`, `WaitsForTheAbandoned` |
| `browser` | 1 slot, 3 tabs in 2 browsers, 12 tickets; 4 events on the Explore page with 2 entities, 3 on a recovery's page with 1 or 3 members and 2 loads of the tab, 3 renderings of 2 pages | 1.1M | `RedirectIsServed`, `Settles`, `Drains` of the queue's tabs; `ListFollowsControls`, `UrlNamesEntity`, `PreviewBelongs`, `SelectionAgrees`, `SourcePanelAgrees`, `PanesAgree`, `SetupSynchronises`, `PagesComplete` |
| `queue_clients_refresh` | tabs as above | | violated: a refresh loses the place |
| `queue_clients_two_tabs` | tabs as above | | violated: a redirect may carry the other tab's ticket |
| `pages_lockstep` | pages as above | | violated: two PDFs that have loaded need not scroll together |
| `files` | 2 threads of a worker, 2 builds, 2 merge results, 3 seconds, TTL 1, a zone behind UTC and one ahead; 2 shells, 4 commands, 3 process ids; 2 runners, 4 migrations, 1 server, 4 documents | 3.7M | `BuiltAtGrows`, `FalseAlarmsAreBounded`, `ReadyHidesNoMore`, `AnswersKnowOldBuilds`, `NoLockLeftBehind`; `FileNamesDaemon`; `MigrationComplete` |
| `entity_index_late_store` | index as above, 1 merge result | | violated: an old status comes back into an emptied cache |
| `entity_index_local_time` | same | | violated: "stale" may be a false alarm |
| `migration_rebuild` | migrations as above | | violated: a finished migration may leave documents that cannot be searched for |

Why the bounds are enough. Two slots and three requests give a slot that is free,
one that is reserved and one in use at once; three queued tickets give one that
leaves from the middle; the limits 1 and 3 keep "ready expires first" as in the code
(60s, 300s) and let a waiting ticket outlive several ready ones. One fewer tick
limit and one slot are enough for the clients, where three tabs give a browser with
two and a bystander; the twelve ids are one more than a queue of two and three ids
for each tab (page, request, jar), as `FreshAssumption` asks. Two SSE places for
three clients give refusal, two entries give a queue that fills and one that does
not, and three versions make a stream's first message older and newer than its
queue. Three threads on two connections give one that waits while one fails and one
returns. One slot means one request at a time, whose second visit meets the thread
that the first has left behind; with a thread of the statistics that makes three
threads for the two connections that the design's rule asks for. Two builds overlap,
fail, and follow one another; three seconds let a status be made before a build,
outlive it and expire, and let a merge result come before, during and after a build;
a second worker would only add a cache that no build empties, which a build that has
not yet emptied its own shows too. `MaxUpsets`, `MaxVersion` and `MaxFailures` bound
what the environment does; liveness needs the failures and upsets to end. One zone
is behind UTC and put forward, the other ahead and put back, by the length of the
run or less, so that `built_at` falls before, among and after the times of the merge
results.

A tab of a browser shows one page, so `Pages` chooses one in the initial state
(`url`) and leaves the others alone. In the same way `MCEventLoop`, `MCBrowser` and
`MCFiles` check parts that share no state in one run: `part` says which one the
behaviour is of, and the others rest in one initial state. Nothing is lost by it,
since no step of one part reads what another keeps; and fairness asks nothing of a
part that rests, because no fair action can change anything in its initial state
(nothing runs, no task exists, no ticket ages, every tab is new).

The bounds of the pages and the command line: `MaxExplore`,
`MaxRecovery`, `MaxResizes` and `MaxCommands` bound the user, `MaxLoads` and
`MaxRenders` the loads and renderings that this causes, `MaxDocs` and `MaxRuns` the
other program and the migrations. Two entities that are connected, each with a page
and a recovery of its own, tell all panels apart; four events give a filter edit, a
tab, a choice and a Back that overlap. Three members give two donors to change
between, one member the other script; two loads give listeners and scripts of a tab
that is gone. Three renderings give one that both earlier ones get in the way of.
Larger instances were checked as well: Explore with five events (4.2M states) and
the recovery page with four. Four commands give a start, a stop, another start and
one in between; three process ids a daemon, the next one and another program.

### The eight disagreements

* **A newcomer overtakes the queue** (`NextInLineIsNext`). When a ready ticket
  expires, `_expire_tickets` releases the semaphore; no waiting ticket gets that
  slot, and the next arrival takes it. `OnlyExpiryStrands` shows that nothing
  else has this effect.
* **A refresh loses the place** (`RefreshKeepsPlace`). The middleware does not
  look for a waiting ticket in the cookie and makes a new one.
* **Two tabs, one cookie** (`RedirectCarriesTicket`). The tab that was queued
  last owns the cookie. `Settles` shows both tabs are nevertheless answered.
* **A subscriber without a task** (`SubscribersArePolled`). A subscription after
  `cancel()` and before the task has ended starts no new task.
  `OnlyCancelLosesTheLoop` shows it is the only way.
* **An old status comes back** (`CacheReflectsBuilds`). A `get_status` that read
  before the commit stores after the invalidation. `AnswersKnowOldBuilds` shows
  that it is gone when the TTL has passed since it began.
* **A false alarm** (`NoFalseAlarm`). `built_at` is local time and `created_at`
  UTC: west of UTC an index is called stale for what it has read, for as long as
  local time is behind. `FalseAlarmsAreBounded` shows that it is no longer, and
  `ReadyHidesNoMore` what the same comparison hides east of UTC: results for as long
  after the build as local time is ahead.
* **Two PDFs out of step** (`ViewersInLockstep`). When the tab is first loaded,
  the events that would set up the scroll synchronisation are past when its script
  runs; a setup after an iframe's load event, as after most changes of the donor,
  attaches nothing to it. `SetupSynchronises` shows what a setup does achieve.
* **A rebuild that never comes** (`RebuildIsHandled`). A migration that finds
  `documents_fts` takes it for complete, whether the Unobfuscator has added documents
  since or an earlier migration ended before it was filled. `MigrationComplete`
  shows that nothing else leaves it unfilled.

### Fairness

`CompleteRequest`: the timeout middleware ends every request after 120s, and the
`finally` clause runs on return, exception and cancellation. `ExpireTickets`: the
loop sleeps 10s and survives exceptions. `Tick`: time passes; in `QueueClients` a
tick does not pass over a page that has a message to handle, since ticks stand
for tens of seconds and pages poll every three. Pages that are open run their
script, and the network delivers; nobody has to open, reload or close a page, or
to come back with a ticket (`Admission` assumes nothing of its clients). In `SSE`
the event loop and the executor run what is ready, and a client that is connected
reads; in `ConnectionPool` threads are scheduled, queries and `get(timeout)` end,
and a lock that is free again and again is obtained (strong fairness of `Grow`). In
`RequestTimeout` nothing makes a handler return: calls of the pool end also for
threads that nobody waits for. Pages, entity index and command line have safety
properties only, and assume no fairness.

## 4. Proofs

`AdmissionProofs` proves, for any sets of requests and tickets and any limits,
type correctness, `SlotConservation`, `QueueWellFormed`, `FirstInFirstReady`,
`ReservationHonoured`, `PositionNeverGrows`, `OnlyExpiryStrands`, and that the
specification implements the safety part of `SlotPool`. The only assumption is
`AdmissionAssumption`. None of the invariants is inductive alone: that a
completing request cannot push the semaphore above its limit needs
`SlotConservation`, which needs the dict and the queue to agree
(`QueueWellFormed`) and what is counted to be finite. The inductive invariant is
the conjunction of these parts with `FirstInFirstReady`; each action has a lemma
that keeps it, and `NextIndInv` cites them. Claims and expiries share one lemma,
`RemovalKeepsQueue`: taking any set of tickets out of both structures keeps them
equal, the order strict and total, and the ready tickets in front.
`OnlyExpiryStrands` and `PositionNeverGrows` are read off single steps from the
invariant, and the refinement maps each step to `Take`, `Redeem`, `HandOver`,
`Free`, `Lapse` or a stutter. `SlotAlwaysHandedOn` justifies how the model splits
`complete_request`: whenever a ticket waits, one has no waiting ticket in front of
it (a waiting ticket with the least position), so either `Transfer` or `Release`
is always possible.

The same module proves `ClientTypeOK` and `RedirectIsServed` of `QueueClients`,
for any tabs and browsers, and that the invariant of `Admission` holds beside the
tabs and across a restart (`ClientsKeepWorker`). `FreshAssumption` is needed: only
because a new ticket is nobody's (`FreshIdIsFresh`, which counts the ids in use) can
no other tab hold, redeem or overwrite the ticket of a page. `ClientInv` says so for
the tabs that have their browser to themselves: the ticket of the page is in no
other page, request or jar (`Own`), and the jar and the request carry it
(`Carried`). `PromptInv` says that a ready ticket whose page is open has not aged,
so that the expiry cannot come between the turn and the redirect.

`ConnectionPoolProofs` proves type correctness, `Ownership`, `SizeAccounts` and
`NeverOverCapacity` for any number of threads and any `max_size`, from
`PoolAssumption`. The code never reads `_size` together with what it counts. What
makes it count exactly is where each thread is (`Places`: a thread has a
connection exactly from getting it to the end of release; nobody is inside before
the pool is made) and that a thread connects exactly while it has the lock
(`Locking`), so there is at most one connection counted and not yet made; `Counting`
carries that what is counted is finite and disjoint. `ImplementsSlotPool` shows that the
pool, too, is a `SlotPool` (`Lent`): its slots are `max_size`, a thread holds one
from the moment `acquire` counts it until `release` is through, and no step gives
one to a thread or takes one away in another way. `NobodyWaitsInVain` is the state
behind `EveryCallEnds`: who waits with nothing idle waits for a thread that has a
connection, and the lock is only held for a connect. It needs `Lasting`: the pool is
made with a connection and, while it is open, is never without one, so that a failed
connect leaves the waiting threads somebody to wait for.

The same module proves `OneAnswer` and `WaitsForTheAbandoned`, for any requests,
slots and threads; `TimeoutAssumption` adds that the threads outside admission are
finitely many (the executor has two workers). To the pool the steps around it are
stutters, and to the slots those inside are, so both specifications hold in the
composition (`TimeoutKeepsBoth`, `PoolKeepsPromises`). `AnswerInv` says what a client
has got at each stage. The second theorem counts: who is inside a full pool is
awaited by a request or outside admission, or left behind; the awaited are no more
than the requests that run (`AwaitedAreFew`, an injection into the slots held), so
one more than `max_size` cannot be, and one of those inside was left behind.

`EntityIndexProofs` proves type correctness and the five properties of the index in
the run `files`, for any time zones: nothing is assumed of how local time moves
(`StaleOrBehind`, `ReadyOrAhead`).
The invariant says what builds and statuses know of the merge results, which are a
sequence in order of time. `Covers`: what a build read, and the time at which it
read, split the sequence at the same place. `Made`: so it is for every build,
committed or at work, and its `built_at` is not before that time. `Stamped`: a
build that has its `built_at` comes after all that are committed, because it has
the write lock. `Tells`: a status speaks of a build that exists and that was the
last one when the status began, or later. Comparing two times as text then says on
which side of a build's place a merge result is, up to what local time is ahead or
behind.

`SSEProofs` proves type correctness, `CaughtUp` and `OnlyCancelLosesTheLoop`.
`CaughtUp` speaks about empty queues; the invariant about full ones: the last event
of a subscriber's queue is the latest broadcast.

`ExploreProofs` proves type correctness and the three properties of the Explore
page for any entities, filters and numbers of requests. What is shown at rest is
determined by what the requests in flight are for, so the invariant says that,
panel by panel, unless requests overlapped.

`RecoveryPageProofs` proves type correctness (`RecoveryTypes`), `SelectionAgrees`,
`SourcePanelAgrees`, `PanesAgree` and `SetupSynchronises`. The parts of the page
share the tab and little else, so each has its own invariant: `PassageInv`,
`PanelInv`, and `ComparisonInv`, which is `PanesInv` (the panes and the modes),
`RequestsInv` (a request of a live pane is for a pane that waits for it) and
`WaitsInv` (a pane at "Loading..." has a request or a script on its way). Scroll
synchronisation needs two more. `RunsInv`: instances of `comparison.js` come at most
one for each load of the tab and in order, so that a script that has not run yet
belongs to a later load than every instance: when it runs, its instance is new.
`SyncInv`: if both panes should follow each other, some instance either has exactly
the listeners of the two panes of now (`InPlace`), or has a timer that will set
them; for two PDFs that are still loading, those that will drive once they are
loaded. The property speaks of drives when all timers have fired; the invariant has
to speak of the listeners that wait for a load event and of all timers.

`PagesProofs` proves `PagesComplete` and the types of the viewer, for documents of
any length, any widths and any number of renderings. `PagesInv` says what the last
call has appended (`PagesSoFar`: all pages before the one it is at), in order and in
its width, while other calls append between; `WidthInv` that this is the window's
width unless a resize is pending; `AloneInv` what `alone` means. The same module
composes the pages: each behaves in the tab as it does alone (`PagesAreAlone`), so
`PagesTypeOK` and all properties of pages in the run `browser` hold of `PagesSpec`
(`PageTypes`, `PagesKeepPromises`).

`CommandLineProofs` proves the types of both parts, `FileNamesDaemon` and
`MigrationComplete`. Around the PID file: while nothing disturbs them, commands run
alone, and what the command under way knows depends on its step; everybody else can
only end daemons and remove the file (`PidInv`). Of the migration: what it has done is
not undone (`Passed`, `KnownRight`), and who creates the table is filling it from
then on, until it is full or the migration ends early.

Every invariant and every action property of the passing runs is proved. Only
model-checked is liveness, which the prover cannot do under fairness: `TicketsLeave`,
`Settles`, `Drains`, `IdleStops`, `StreamsGetNews`, `EveryCallEnds` and the fairness
part of `PoolSpec`. So are the properties that the code violates. The types of
`ConnectionPool`, `EntityIndex`, `PidFile` and `Migration` are only proved.

## 5. What the models also show

Behaviour that the properties allow and name. Where a document speaks of it, it is
one of the disagreements of section 3; of the rest the documents say nothing, or
too little to decide:

* `stop` fails with `FileNotFoundError` when the daemon's exit handler is faster
  (`__main__.py:223`), after it has done what it was asked to;
* two starts at once can both pass the check of the PID file, and a start that is
  interrupted after its fork leaves a daemon that no file names (`disturbed`);
* answers that overlap may leave a list, a connection, a preview or a source of an
  earlier choice on the page, since none is compared with what was asked last
  (`crossed`, `overlapped`); Back keeps the preview of another entity, where the
  design has the right column show "a preview of whatever is selected in the middle
  column" (`docs/superpowers/specs/2026-03-22-ui-redesign-design.md:161`): nothing is
  selected there then, so this is left as it is;
* a source that arrives after its panel was closed opens it again;
* "Load more" may ask for a page that the list of another filter does not have;
* after the merged text was loaded again, the toolbar's buttons have no handlers
  (`wired`), while the keys work; a swap of the status in the page's head makes j
  start from the first passage, with the old one still highlighted;
* an error in the source panel comes without a close button;
* the donor list selects the first member while the pane shows the second;
* while earlier renderings of a PDF are under way, a resize mixes their pages with
  those of the last one, and a rendering that failed once keeps its message beside
  a later one that worked;
* a search may use `documents_fts` while another process is still filling it;
* a request that is cut off while its headers are sent has no answer at all.

## 6. Not modelled

Left out on purpose: wait estimates, durations, logging, HTML; the SQL and what
the queries return; signed cookies and the login limiter, an access control; the
installer, the configuration, the other templates and the vendored scripts; the
other program (only that it writes to its database and can restart).

* Health and `pool_status`: a verdict over numbers that are read one after the
  other and not kept.
* Queries, pagination and their caches: SQL, and time-to-live caches of single
  values like the one in `EntityIndex`.
* Entity extraction, the search parser and segment matching: pure functions over
  text, which would have to be modelled character by character.
* Control of the Unobfuscator's daemon: what its commands do when a subprocess
  times out is not in this repository.
* Page and API routers: each renders one query; that a query's connection comes
  back is a thread of `ConnectionPool`.
