---------------------------- MODULE EntityIndex ----------------------------
(***************************************************************************)
(* The entity index of src/teredacta/entity_index.py: build() reads the    *)
(* merge results of the Unobfuscator's database and replaces the index in  *)
(* one write transaction; get_status() tells whether the index is built,   *)
(* ready or stale, and caches what it found.  Handlers run in threads of   *)
(* several worker processes: the SQLite files are shared by all, the cache *)
(* by the threads of a worker.  A thread is suspended at calls, not between*)
(* two reads or writes of attributes: those of the cache are together.     *)
(*                                                                         *)
(* Abstractions.  The merge results are the sequence of their created_at.  *)
(* A build is the worker that made it, what it read (`upto` merge          *)
(* results), when it read (`since`), when it took its built_at (`at`) and  *)
(* when it was committed; the index is the last committed one, and the     *)
(* earlier ones are kept to speak about old answers.                       *)
(* The clock is UTC, in which SQLite's CURRENT_TIMESTAMP writes created_at,*)
(* and time.monotonic() advances with it; built_at is local time.  The two *)
(* texts have one format, so that they compare as the times they show.     *)
(* Entities, mentions and links, a function of what was read, are left out.*)
(***************************************************************************)
EXTENDS Integers, Sequences, FiniteSets

CONSTANTS Threads,
          Workers,     \* processes
          WorkerOf,    \* the process of each thread
          NoOne,
          TTL,         \* how long a status stays cached (60s)
          Zones,       \* time zones: what local time is ahead of UTC at each time
          MaxTime,     \* bound: the clock
          MaxMerges,   \* bound: merge results
          MaxBuilds    \* bound: builds

ASSUME EntityIndexAssumption ==
    /\ WorkerOf \in [Threads -> Workers]
    /\ NoOne \notin Threads
    /\ Zones \subseteq [0..MaxTime -> Int]
    /\ TTL \in Nat \ {0} /\ MaxTime \in Nat \ {0} /\ MaxMerges \in Nat /\ MaxBuilds \in Nat

VARIABLES clock,
          zone,     \* the server's time zone
          merges,   \* created_at of each row of merge_results
          builds,   \* the committed builds; the last is in the entity database
          writer,   \* the thread that has the write transaction
          cache,    \* each worker's _status_cache, with its _status_cache_time
          pc,       \* where each thread is
          job,      \* the build a thread is making
          report    \* the status a thread is making

indexVars == <<clock, zone, merges, builds, writer, cache, pc, job, report>>

\* A status of get_status: the max_merge_ts it was asked about, the time it
\* began (`now`), and the build its built_at is from.
Status == [state : {"nothing", "ready", "stale"}, asked : 0..MaxTime, now : 0..MaxTime, build : 0..MaxBuilds]
NoStatus == [state |-> "nothing", asked |-> 0, now |-> 0, build |-> 0]
NoJob == [by |-> NoOne, upto |-> 0, since |-> 0, at |-> 0, committed |-> 0]

IndexInit ==
    /\ clock = 1
    /\ zone \in Zones
    /\ merges = <<>>
    /\ builds = <<>>
    /\ writer = NoOne
    /\ cache = [w \in Workers |-> NoStatus]
    /\ pc = [g \in Threads |-> "idle"]
    /\ job = [g \in Threads |-> NoJob]
    /\ report = [g \in Threads |-> NoStatus]

Goto(g, label) == pc' = [pc EXCEPT ![g] = label]
Own(g) == cache[WorkerOf[g]]

-----------------------------------------------------------------------------
(* get_status, and its callers, who pass max_merge_ts. *)

\* SELECT MAX(created_at); None when there is none or the query fails.
Newest == IF merges = <<>> THEN 0 ELSE merges[Len(merges)]

Ask(g) ==
    /\ pc[g] = "idle"
    /\ \E ts \in {Newest, 0} : report' = [report EXCEPT ![g].asked = ts]
    /\ Goto(g, "check")
    /\ UNCHANGED <<clock, zone, merges, builds, writer, cache, job>>

Answer(g) ==
    /\ report' = [report EXCEPT ![g] = NoStatus]
    /\ Goto(g, "idle")

\* Mutant: a cached status never expires.
FreshForever(g) == Own(g) # NoStatus

Fresh(g) == Own(g) # NoStatus /\ clock - Own(g).now < TTL

\* The cached status, if it is young enough.
FromCache(g) ==
    /\ pc[g] = "check"
    /\ Fresh(g)
    /\ Answer(g)
    /\ UNCHANGED <<clock, zone, merges, builds, writer, cache, job>>

NotInCache(g) ==
    /\ pc[g] = "check"
    /\ ~Fresh(g)
    /\ report' = [report EXCEPT ![g].now = clock]
    /\ Goto(g, "query")
    /\ UNCHANGED <<clock, zone, merges, builds, writer, cache, job>>

ReadBuiltAt(g) ==
    /\ pc[g] = "query"
    /\ builds # <<>>
    /\ report' = [report EXCEPT ![g].build = Len(builds)]
    /\ Goto(g, "count")
    /\ UNCHANGED <<clock, zone, merges, builds, writer, cache, job>>

\* No file, no table, no built_at or an OperationalError: the answer is
\* "not_built", and is not cached.
NotBuilt(g) ==
    /\ pc[g] = "count" \/ pc[g] = "query"
    /\ Answer(g)
    /\ UNCHANGED <<clock, zone, merges, builds, writer, cache, job>>

\* The built_at of a build: time.strftime, local time.
BuiltAt(b) == builds[b].at + zone[builds[b].at]

\* Mutants: >= for >; a status that is never stale.
OutdatedOrEqual(r) == r.asked # 0 /\ r.asked >= BuiltAt(r.build)
NeverOutdated(r) == FALSE

\* max_merge_ts > built_at: the text of a time in UTC and that of a local time.
Outdated(r) == r.asked # 0 /\ r.asked > BuiltAt(r.build)

\* After the counts, which are statements of their own.
Compare(g) ==
    /\ pc[g] = "count"
    /\ report' = [report EXCEPT ![g].state = IF Outdated(report[g]) THEN "stale" ELSE "ready"]
    /\ Goto(g, "store")
    /\ UNCHANGED <<clock, zone, merges, builds, writer, cache, job>>

\* The status is cached, as of the time get_status began, and returned.
StoreStatus(g) ==
    /\ pc[g] = "store"
    /\ cache' = [cache EXCEPT ![WorkerOf[g]] = report[g]]
    /\ Answer(g)
    /\ UNCHANGED <<clock, zone, merges, builds, writer, job>>

-----------------------------------------------------------------------------
(* build. *)

Building == {g \in Threads : pc[g] \in {"begin", "rebuild", "stamped"}}

\* The SELECT on merge_results fixes what the build will read.
StartBuild(g) ==
    /\ pc[g] = "idle"
    /\ Len(builds) + Cardinality(Building) < MaxBuilds
    /\ job' = [job EXCEPT ![g] = [NoJob EXCEPT !.by = WorkerOf[g], !.upto = Len(merges), !.since = clock]]
    /\ Goto(g, "begin")
    /\ UNCHANGED <<clock, zone, merges, builds, writer, cache, report>>

\* BEGIN IMMEDIATE
Begin(g) ==
    /\ pc[g] = "begin"
    /\ writer = NoOne
    /\ writer' = g
    /\ Goto(g, "rebuild")
    /\ UNCHANGED <<clock, zone, merges, builds, cache, job, report>>

\* busy_timeout: another build is still writing.
BeginFails(g) ==
    /\ pc[g] = "begin"
    /\ writer # NoOne
    /\ job' = [job EXCEPT ![g] = NoJob]
    /\ Goto(g, "raised")
    /\ UNCHANGED <<clock, zone, merges, builds, writer, cache, report>>

\* Any other statement raises.
BuildFails(g) ==
    /\ pc[g] = "rebuild" \/ pc[g] = "stamped"
    /\ job' = [job EXCEPT ![g] = NoJob]
    /\ Goto(g, "raised")
    /\ UNCHANGED <<clock, zone, merges, builds, writer, cache, report>>

\* Mutant: the connection of a failed build stays open.
DropConnectionLeaked(g) ==
    /\ pc[g] = "raised"
    /\ Goto(g, "idle")
    /\ UNCHANGED <<clock, zone, merges, builds, writer, cache, job, report>>

\* build() does not close the connection then: when the handler has reported the
\* exception, the frame goes, the connection with it, and that rolls back.
DropConnection(g) ==
    /\ pc[g] = "raised"
    /\ writer' = IF writer = g THEN NoOne ELSE writer
    /\ Goto(g, "idle")
    /\ UNCHANGED <<clock, zone, merges, builds, cache, job, report>>

\* Mutant: built_at is when the source was read.
StampBuildEarly(g) ==
    /\ pc[g] = "rebuild"
    /\ job' = [job EXCEPT ![g].at = job[g].since]
    /\ Goto(g, "stamped")
    /\ UNCHANGED <<clock, zone, merges, builds, writer, cache, report>>

\* All is inserted: built_at is now.
StampBuild(g) ==
    /\ pc[g] = "rebuild"
    /\ job' = [job EXCEPT ![g].at = clock]
    /\ Goto(g, "stamped")
    /\ UNCHANGED <<clock, zone, merges, builds, writer, cache, report>>

Commit(g) ==
    /\ pc[g] = "stamped"
    /\ builds' = Append(builds, [job[g] EXCEPT !.committed = clock])
    /\ writer' = NoOne
    /\ job' = [job EXCEPT ![g] = NoJob]
    /\ Goto(g, "invalidate")
    /\ UNCHANGED <<clock, zone, merges, cache, report>>

\* _status_cache = None, in the worker that built.
Invalidate(g) ==
    /\ pc[g] = "invalidate"
    /\ cache' = [cache EXCEPT ![WorkerOf[g]] = NoStatus]
    /\ Goto(g, "idle")
    /\ UNCHANGED <<clock, zone, merges, builds, writer, job, report>>

-----------------------------------------------------------------------------
\* The Unobfuscator inserts a merge result.
Merge ==
    /\ Len(merges) < MaxMerges
    /\ merges' = Append(merges, clock)
    /\ UNCHANGED <<clock, zone, builds, writer, cache, pc, job, report>>

Tick ==
    /\ clock < MaxTime
    /\ clock' = clock + 1
    /\ UNCHANGED <<zone, merges, builds, writer, cache, pc, job, report>>

\* GET /admin/entity-index/status and the explore page.
GetStatus(g) ==
    \/ Ask(g) \/ FromCache(g) \/ NotInCache(g) \/ ReadBuiltAt(g) \/ NotBuilt(g)
    \/ Compare(g) \/ StoreStatus(g)

\* POST /admin/entity-index/build, in an executor thread.
Build(g) ==
    \/ StartBuild(g) \/ Begin(g) \/ BeginFails(g) \/ BuildFails(g) \/ DropConnection(g)
    \/ StampBuild(g) \/ Commit(g) \/ Invalidate(g)

IndexNext == (\E g \in Threads : GetStatus(g) \/ Build(g)) \/ Merge \/ Tick

IndexSpec == IndexInit /\ [][IndexNext]_indexVars

-----------------------------------------------------------------------------
Times == 0..MaxTime
Labels == {"idle", "check", "query", "count", "store", "begin", "rebuild", "stamped", "raised",
           "invalidate"}
Jobs == [by : Workers \union {NoOne}, upto : 0..MaxMerges, since : Times, at : Times, committed : Times]

IndexTypeOK ==
    /\ clock \in 1..MaxTime
    /\ zone \in Zones
    /\ merges \in Seq(1..MaxTime) /\ Len(merges) <= MaxMerges
    /\ builds \in Seq(Jobs) /\ Len(builds) <= MaxBuilds
    /\ writer \in Threads \union {NoOne}
    /\ cache \in [Workers -> Status]
    /\ pc \in [Threads -> Labels]
    /\ job \in [Threads -> Jobs]
    /\ report \in [Threads -> Status]

\* The statuses of a built index that are about to be answered or are cached.
Known == {r \in {report[g] : g \in Threads} \union {cache[w] : w \in Workers} : r.state # "nothing"}

\* Merge result i is not in the index of build b.
Lacks(b, i) == i > builds[b].upto

\* The builds take their built_at in the order in which they are committed,
\* however two of them overlap, fail or wait for each other: the text goes back
\* from one to a later one only when local time was put back in between.
BuiltAtGrows ==
    \A b, c \in 1..Len(builds) : b < c => builds[b].at <= builds[c].at

\* "MAX(created_at) reliably indicates when new data arrived": when a status says
\* "stale" there is a merge result that the build does not have.  The code
\* violates this west of UTC, where built_at is behind the created_at of what
\* the build has read.
NoFalseAlarm ==
    \A r \in Known : r.state = "stale" => \E i \in 1..Len(merges) : Lacks(r.build, i)

\* What "stale" can mean: the merge result that the caller asked about is one
\* that the build does not have, or it came before the build took its built_at,
\* by less than local time was behind UTC then.
FalseAlarmsAreBounded ==
    \A r \in Known : r.state = "stale" =>
        \E i \in 1..Len(merges) :
            /\ merges[i] = r.asked
            /\ \/ Lacks(r.build, i)
               \/ merges[i] <= builds[r.build].at /\ BuiltAt(r.build) < merges[i]

\* What "ready" can hide: of the merge results up to the one the caller asked
\* about, the build lacks only those created since it read its source, and none
\* later than built_at.  That is while it ran, and in a zone ahead of UTC as
\* long again after its end as the zone is ahead.
ReadyHidesNoMore ==
    \A r \in Known : r.state = "ready" =>
        \A i \in 1..Len(merges) :
            merges[i] <= r.asked /\ Lacks(r.build, i)
                => merges[i] \in builds[r.build].since..BuiltAt(r.build)

\* The status get_status answers in this step, and when it began.
AnswersNow(g) == pc[g] \in {"check", "store"} /\ pc'[g] = "idle"
AnswerOf(g) == IF pc[g] = "store" THEN report[g] ELSE Own(g)
AskedAt(g) == IF pc[g] = "store" THEN report[g].now ELSE clock

\* "cached 60s": an answer knows all builds committed a TTL before its
\* get_status began, also when a slow thread has stored an old status after a
\* build emptied the cache.
AnswersKnowOldBuilds ==
    [][\A g \in Threads : AnswersNow(g) =>
          \A b \in 1..Len(builds) :
              builds[b].committed + TTL <= AskedAt(g) => b <= AnswerOf(g).build]_indexVars

\* A build that ended, in whatever way, has left the database unlocked for the
\* next, though no line of build() rolls back or closes when it raises.
NoLockLeftBehind ==
    \A g \in Threads : writer = g => pc[g] \in {"rebuild", "stamped", "raised"}

\* "invalidate so get_status() reflects the new build": when a build has emptied
\* its worker's cache, nothing older comes back into it.  The code violates
\* this: a get_status under way stores what it read before.
CacheReflectsBuilds ==
    \A w \in Workers :
        /\ cache[w] # NoStatus
        /\ \A g \in Threads : WorkerOf[g] = w => pc[g] # "invalidate"
        => \A b \in 1..Len(builds) : builds[b].by = w => b <= cache[w].build
=============================================================================
