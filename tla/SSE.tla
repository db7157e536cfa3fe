-------------------------------- MODULE SSE --------------------------------
(***************************************************************************)
(* SSEManager of src/teredacta/sse.py: subscribers share one polling task, *)
(* which fetches the statistics in a thread and broadcasts every change to *)
(* bounded queues.  An action is what runs between two suspension points   *)
(* of the event loop.  task.cancel() only marks the task: until it runs    *)
(* again it is not done(), whatever arrives in between.                    *)
(*                                                                         *)
(* Abstractions.  The statistics are a version number that grows when the  *)
(* database changes; a client has at most one stream at a time, so clients *)
(* name their queues; keepalives, which carry nothing, are left out.       *)
(***************************************************************************)
EXTENDS Integers, Sequences, FiniteSets

CONSTANTS Clients,
          MaxSubscribers,  \* max_subscribers, 0 for no limit
          QueueSize,       \* maxsize of a subscriber's queue (100)
          MaxVersion,      \* bound: changes of the database
          MaxFailures      \* bound: fetches that raise

ASSUME SSEAssumption ==
    /\ MaxSubscribers \in Nat
    /\ QueueSize \in Nat \ {0}
    /\ MaxVersion \in Nat \ {0}
    /\ MaxFailures \in Nat

VARIABLES world,        \* the version of the statistics in the database
          failures,     \* fetches that raised so far
          subscribers,  \* _subscribers
          queue,        \* each client's asyncio.Queue
          stream,       \* each client's event_generator
          seen,         \* the last version each client received, 0 for none
          lastStats,    \* _last_stats, 0 for None
          task,         \* where _task is
          cancelled,    \* _task.cancel() was called and it has not run since
          data          \* what the fetch in flight read

sseVars == <<world, failures, subscribers, queue, stream, seen, lastStats, task,
          cancelled, data>>

\* _task is None or _task.done()
TaskDone == task \in {"none", "done"}

SSEInit ==
    /\ world = 1
    /\ failures = 0
    /\ subscribers = {}
    /\ queue = [c \in Clients |-> <<>>]
    /\ stream = [c \in Clients |-> "none"]
    /\ seen = [c \in Clients |-> 0]
    /\ lastStats = 0
    /\ task = "none"
    /\ cancelled = FALSE
    /\ data = 0

-----------------------------------------------------------------------------
(* The handlers. *)

Full == MaxSubscribers # 0 /\ Cardinality(subscribers) >= MaxSubscribers

\* /sse/stats: the subscription starts the task unless there is one.
Subscribe(c) ==
    /\ stream[c] = "none" /\ c \notin subscribers
    /\ ~Full
    /\ subscribers' = subscribers \union {c}
    /\ queue' = [queue EXCEPT ![c] = <<>>]
    /\ stream' = [stream EXCEPT ![c] = "unstarted"]
    /\ IF TaskDone
       THEN task' = "started" /\ cancelled' = FALSE
       ELSE UNCHANGED <<task, cancelled>>
    /\ UNCHANGED <<world, failures, seen, lastStats, data>>

\* 503: the client is not connected.
Refuse(c) ==
    /\ stream[c] = "none" /\ c \notin subscribers
    /\ Full
    /\ UNCHANGED sseVars

\* The first step of event_generator yields the latest statistics, if any.
StartStream(c) ==
    /\ stream[c] = "unstarted"
    /\ stream' = [stream EXCEPT ![c] = "open"]
    /\ seen' = [seen EXCEPT ![c] = lastStats]
    /\ UNCHANGED <<world, failures, subscribers, queue, lastStats, task, cancelled, data>>

\* The client is gone before the generator starts: its finally never runs.
Abandon(c) ==
    /\ stream[c] = "unstarted"
    /\ stream' = [stream EXCEPT ![c] = "none"]
    /\ UNCHANGED <<world, failures, subscribers, queue, seen, lastStats, task, cancelled, data>>

\* The generator takes an event from its queue and yields it.
Receive(c) ==
    /\ stream[c] = "open"
    /\ queue[c] # <<>>
    /\ seen' = [seen EXCEPT ![c] = Head(queue[c])]
    /\ queue' = [queue EXCEPT ![c] = Tail(@)]
    /\ UNCHANGED <<world, failures, subscribers, stream, lastStats, task, cancelled, data>>

\* unsubscribe cancels the task when it leaves nobody.
Unsubscribe(c) ==
    /\ subscribers' = subscribers \ {c}
    /\ cancelled' = (cancelled \/ (subscribers' = {} /\ ~TaskDone))

\* The client disconnects: event_generator's finally clause.  The queue object
\* is garbage.
Disconnect(c) ==
    /\ stream[c] = "open"
    /\ stream' = [stream EXCEPT ![c] = "none"]
    /\ queue' = [queue EXCEPT ![c] = <<>>]
    /\ seen' = [seen EXCEPT ![c] = 0]
    /\ Unsubscribe(c)
    /\ UNCHANGED <<world, failures, lastStats, task, data>>

-----------------------------------------------------------------------------
(* _poll_loop. *)

\* CancelledError is raised at the task's await (or before its first step).
TaskCancelled ==
    /\ cancelled
    /\ task' = "done"
    /\ cancelled' = FALSE
    /\ UNCHANGED <<world, failures, subscribers, queue, stream, seen, lastStats, data>>

\* Mutant: while True.
LoopHeadForever ==
    /\ ~cancelled
    /\ task \in {"started", "sleeping"}
    /\ task' = "fetching"
    /\ UNCHANGED <<world, failures, subscribers, queue, stream, seen, lastStats,
                   cancelled, data>>

\* The head of the loop, on starting and after each sleep.
LoopHead ==
    /\ ~cancelled
    /\ task \in {"started", "sleeping"}
    /\ task' = IF subscribers = {} THEN "done" ELSE "fetching"
    /\ UNCHANGED <<world, failures, subscribers, queue, stream, seen, lastStats,
                   cancelled, data>>

\* Mutant: the statistics cache never expires.
FetchCached ==
    /\ task = "fetching"
    /\ task' = "fetched"
    /\ data' = IF lastStats = 0 THEN world ELSE lastStats
    /\ UNCHANGED <<world, failures, subscribers, queue, stream, seen, lastStats, cancelled>>

\* The executor's thread reads the database, even for a cancelled task.
Fetch ==
    /\ task = "fetching"
    /\ task' = "fetched"
    /\ data' = world
    /\ UNCHANGED <<world, failures, subscribers, queue, stream, seen, lastStats, cancelled>>

\* Mutant: the exception ends the loop.
FetchFailureEndsLoop ==
    /\ task = "fetching"
    /\ ~cancelled
    /\ failures < MaxFailures
    /\ failures' = failures + 1
    /\ task' = "done"
    /\ UNCHANGED <<world, subscribers, queue, stream, seen, lastStats, cancelled, data>>

\* "SSE poll error"
FetchFails ==
    /\ task = "fetching"
    /\ ~cancelled
    /\ failures < MaxFailures
    /\ failures' = failures + 1
    /\ task' = "sleeping"
    /\ UNCHANGED <<world, subscribers, queue, stream, seen, lastStats, cancelled, data>>

\* Mutant: off by one.
HasRoomForOneMore(c) == Len(queue[c]) <= QueueSize

HasRoom(c) == Len(queue[c]) < QueueSize

\* Mutant: a full queue loses the event and stays subscribed.
PutDropping ==
    /\ queue' = [c \in Clients |-> IF c \in subscribers /\ HasRoom(c)
                                   THEN Append(queue[c], data) ELSE queue[c]]
    /\ UNCHANGED subscribers

\* put_nowait to every subscriber; those whose queue is full are discarded.
PutToAll ==
    /\ queue' = [c \in Clients |-> IF c \in subscribers /\ HasRoom(c)
                                   THEN Append(queue[c], data) ELSE queue[c]]
    /\ subscribers' = {c \in subscribers : HasRoom(c)}

\* The fetch is back on the event loop: broadcast what changed, then sleep.
Broadcast ==
    /\ task = "fetched"
    /\ ~cancelled
    /\ task' = "sleeping"
    /\ data' = 0
    /\ IF data # lastStats
       THEN lastStats' = data /\ PutToAll
       ELSE UNCHANGED <<lastStats, queue, subscribers>>
    /\ UNCHANGED <<world, failures, stream, seen, cancelled>>

\* The Unobfuscator daemon writes to the database.
WorldChanges ==
    /\ world < MaxVersion
    /\ world' = world + 1
    /\ UNCHANGED <<failures, subscribers, queue, stream, seen, lastStats, task,
                   cancelled, data>>

SSENext ==
    \/ \E c \in Clients : \/ Subscribe(c) \/ Refuse(c) \/ StartStream(c)
                          \/ Abandon(c) \/ Receive(c) \/ Disconnect(c)
    \/ TaskCancelled \/ LoopHead \/ Fetch \/ FetchFails \/ Broadcast
    \/ WorldChanges

\* The event loop and the executor run the task; a client that reads is served.
\* Nobody has to subscribe, read or leave except as Receive says.
SSEFairness ==
    /\ WF_sseVars(TaskCancelled)
    /\ WF_sseVars(LoopHead)
    /\ WF_sseVars(Fetch)
    /\ WF_sseVars(Broadcast)
    /\ \A c \in Clients : WF_sseVars(StartStream(c) \/ Abandon(c)) /\ WF_sseVars(Receive(c))

SSESpec == SSEInit /\ [][SSENext]_sseVars /\ SSEFairness

-----------------------------------------------------------------------------
Versions == 0..MaxVersion

SSETypeOK ==
    /\ world \in 1..MaxVersion
    /\ failures \in 0..MaxFailures
    /\ subscribers \subseteq Clients
    /\ MaxSubscribers # 0 => Cardinality(subscribers) <= MaxSubscribers
    /\ queue \in [Clients -> Seq(Versions)]
    /\ \A c \in Clients : Len(queue[c]) <= QueueSize
    /\ stream \in [Clients -> {"none", "unstarted", "open"}]
    /\ seen \in [Clients -> Versions]
    /\ lastStats \in Versions
    /\ task \in {"none", "started", "fetching", "fetched", "sleeping", "done"}
    /\ cancelled \in BOOLEAN
    /\ data \in Versions

\* No subscriber misses the last change: one whose queue is empty has seen the
\* latest statistics, in whatever order its subscription, the start of its
\* stream, broadcasts and failures came.
CaughtUp ==
    \A c \in subscribers :
        stream[c] = "open" /\ queue[c] = <<>> => seen[c] = lastStats

\* A loop that polls and will go on.
Polling == ~TaskDone /\ ~cancelled

\* Subscribers that nothing polls for.
Unpolled == subscribers # {} /\ TaskDone

\* The loop leaves subscribers behind only when it was cancelled for a
\* subscriber that left: eviction, failures and its own exit never do.
OnlyCancelLosesTheLoop ==
    [][~Unpolled /\ Unpolled' => cancelled]_sseVars

\* "stops when the last client disconnects": without subscribers the task ends.
IdleStops == subscribers = {} ~> TaskDone \/ subscribers # {}

\* While the loop lives, an open stream gets the current statistics again and
\* again, unless it is evicted.
StreamsGetNews ==
    \A c \in Clients :
        stream[c] = "open" ~> (seen[c] = world \/ c \notin subscribers \/ ~Polling)

\* "it starts on first subscription": a subscriber is being polled for, or soon
\* is, or leaves.  The code violates this: a subscription between the cancel
\* and the end of the old task finds it not done() and starts no other.
SubscribersArePolled ==
    \A c \in Clients : c \in subscribers ~> (Polling \/ c \notin subscribers)
=============================================================================
