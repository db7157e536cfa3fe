------------------------- MODULE EntityIndexProofs -------------------------
(* Proofs about EntityIndex.  Everything rests on what a build read: the   *)
(* merge results up to a place in a sequence that is in order of time, so  *)
(* that comparing a created_at with the times of a build says on which     *)
(* side of that place it is.  Builds do not overtake each other between    *)
(* their built_at and their commit because they hold the write lock.       *)
EXTENDS EntityIndex, FiniteSetTheorems, TLAPS

\* A worker never makes more builds than the bound admits.
Room == IsFiniteSet(Building) /\ Len(builds) + Cardinality(Building) <= MaxBuilds

\* The records that the steps make of statuses and builds.
LEMMA NoneYet == NoJob \in Jobs /\ NoStatus \in Status
BY EntityIndexAssumption DEF Jobs, NoJob, Times, Status, NoStatus

LEMMA StatusTimes ==
    ASSUME NEW r \in Status, NEW t \in 0..MaxTime
    PROVE  [r EXCEPT !.asked = t] \in Status /\ [r EXCEPT !.now = t] \in Status
BY DEF Status

LEMMA StatusBuild ==
    ASSUME NEW r \in Status, NEW b \in 0..MaxBuilds PROVE [r EXCEPT !.build = b] \in Status
BY DEF Status

LEMMA StatusState ==
    ASSUME NEW r \in Status, NEW s \in {"ready", "stale"} PROVE [r EXCEPT !.state = s] \in Status
BY DEF Status

LEMMA JobTimes ==
    ASSUME NEW j \in Jobs, NEW t \in Times
    PROVE  [j EXCEPT !.at = t] \in Jobs /\ [j EXCEPT !.committed = t] \in Jobs
BY DEF Jobs

LEMMA JobStarts ==
    ASSUME NEW w \in Workers, NEW n \in 0..MaxMerges, NEW t \in Times
    PROVE  [NoJob EXCEPT !.by = w, !.upto = n, !.since = t] \in Jobs
BY NoneYet DEF Jobs

LEMMA TypeFacts ==
    ASSUME IndexTypeOK
    PROVE  /\ clock \in 0..MaxTime /\ clock \in Times /\ clock \in 1..MaxTime
           /\ merges \in Seq(1..MaxTime) /\ Len(merges) \in 0..MaxMerges
           /\ builds \in Seq(Jobs) /\ Len(builds) \in 0..MaxBuilds
           /\ cache \in [Workers -> Status]
           /\ pc \in [Threads -> Labels]
           /\ job \in [Threads -> Jobs]
           /\ report \in [Threads -> Status]
<1>1. Len(merges) \in Nat /\ Len(builds) \in Nat
  BY DEF IndexTypeOK
<1>2. QED
  BY <1>1, EntityIndexAssumption DEF IndexTypeOK, Times

LEMMA StatusKeepsType ==
    ASSUME IndexTypeOK, Room, NEW g \in Threads, GetStatus(g)
    PROVE  IndexTypeOK' /\ Room'
<1> USE EntityIndexAssumption
<1>1. Newest \in 0..MaxTime
  BY TypeFacts DEF Newest
<1>2. UNCHANGED <<clock, zone, merges, builds, writer, job>>
  BY DEF GetStatus, Ask, FromCache, NotInCache, ReadBuiltAt, NotBuilt, Compare, StoreStatus
<1>3. pc' \in [Threads -> Labels] /\ Building' = Building
  BY DEF GetStatus, Ask, FromCache, NotInCache, ReadBuiltAt, NotBuilt, Compare, StoreStatus,
         Answer, Goto, IndexTypeOK, Labels, Building
<1>4. report' \in [Threads -> Status]
  <2>1. CASE Ask(g)
    <3>1. PICK ts \in {Newest, 0} : report' = [report EXCEPT ![g].asked = ts]
      BY <2>1 DEF Ask
    <3>2. ts \in 0..MaxTime
      BY <1>1
    <3>3. [report[g] EXCEPT !.asked = ts] \in Status
      BY <3>2, TypeFacts, StatusTimes
    <3>4. QED
      BY <3>1, <3>3, TypeFacts
  <2>2. CASE FromCache(g) \/ NotBuilt(g) \/ StoreStatus(g)
    BY <2>2, TypeFacts, NoneYet DEF FromCache, NotBuilt, StoreStatus, Answer
  <2>3. CASE NotInCache(g)
    BY <2>3, TypeFacts, StatusTimes DEF NotInCache
  <2>4. CASE ReadBuiltAt(g)
    BY <2>4, TypeFacts, StatusBuild DEF ReadBuiltAt
  <2>5. CASE Compare(g)
    BY <2>5, TypeFacts, StatusState DEF Compare
  <2>6. QED
    BY <2>1, <2>2, <2>3, <2>4, <2>5 DEF GetStatus
<1>5. cache' \in [Workers -> Status]
  BY TypeFacts DEF GetStatus, Ask, FromCache, NotInCache, ReadBuiltAt, NotBuilt, Compare,
                   StoreStatus
<1>6. QED
  BY <1>2, <1>3, <1>4, <1>5 DEF IndexTypeOK, Room

LEMMA BuildKeepsType ==
    ASSUME IndexTypeOK, Room, NEW g \in Threads, Build(g)
    PROVE  IndexTypeOK' /\ Room'
<1> USE EntityIndexAssumption
<1>1. CASE StartBuild(g)
  <2>1. g \notin Building /\ Building' = Building \union {g}
    BY <1>1 DEF StartBuild, Goto, IndexTypeOK, Labels, Building
  <2>2. Room'
    <3>1. IsFiniteSet(Building') /\ Cardinality(Building') = Cardinality(Building) + 1
      BY <2>1, FS_AddElement DEF Room
    <3>2. QED
      BY <1>1, <3>1, TypeFacts, FS_CardinalityType DEF StartBuild, Room
  <2>3. job' \in [Threads -> Jobs]
    BY <1>1, TypeFacts, JobStarts DEF StartBuild
  <2>4. QED
    BY <1>1, <2>2, <2>3 DEF StartBuild, Goto, IndexTypeOK, Labels
<1>2. CASE Begin(g) \/ StampBuild(g)
  <2>1. Building' = Building
    BY <1>2 DEF Begin, StampBuild, Goto, IndexTypeOK, Labels, Building
  <2>2. job' \in [Threads -> Jobs]
    <3>1. [job[g] EXCEPT !.at = clock] \in Jobs
      BY TypeFacts, JobTimes
    <3>2. QED
      BY <1>2, <3>1, TypeFacts DEF Begin, StampBuild
  <2>3. QED
    BY <1>2, <2>1, <2>2 DEF Begin, StampBuild, Goto, IndexTypeOK, Labels, Room
<1>3. CASE BeginFails(g) \/ BuildFails(g)
  <2>1. g \in Building /\ Building' = Building \ {g}
    BY <1>3 DEF BeginFails, BuildFails, Goto, IndexTypeOK, Labels, Building
  <2>2. Room'
    <3>1. IsFiniteSet(Building') /\ Cardinality(Building') = Cardinality(Building) - 1
      BY <2>1, FS_RemoveElement DEF Room
    <3>2. QED
      BY <1>3, <3>1, TypeFacts, FS_CardinalityType DEF BeginFails, BuildFails, Room
  <2>3. job' \in [Threads -> Jobs]
    BY <1>3, TypeFacts, NoneYet DEF BeginFails, BuildFails
  <2>4. QED
    BY <1>3, <2>2, <2>3 DEF BeginFails, BuildFails, Goto, IndexTypeOK, Labels
<1>4. CASE DropConnection(g) \/ Invalidate(g)
  <2>1. Building' = Building
    BY <1>4 DEF DropConnection, Invalidate, Goto, IndexTypeOK, Labels, Building
  <2>2. cache' \in [Workers -> Status]
    BY <1>4, TypeFacts, NoneYet DEF DropConnection, Invalidate
  <2>3. QED
    BY <1>4, <2>1, <2>2 DEF DropConnection, Invalidate, Goto, IndexTypeOK, Labels, Room
<1>5. CASE Commit(g)
  <2>1. g \in Building /\ Building' = Building \ {g}
    BY <1>5 DEF Commit, Goto, IndexTypeOK, Labels, Building
  <2>2. [job[g] EXCEPT !.committed = clock] \in Jobs
    BY TypeFacts, JobTimes
  <2>3. builds' \in Seq(Jobs) /\ Len(builds') = Len(builds) + 1
    BY <1>5, <2>2, TypeFacts DEF Commit
  <2>4. Room'
    <3>1. IsFiniteSet(Building') /\ Cardinality(Building') = Cardinality(Building) - 1
      BY <2>1, FS_RemoveElement DEF Room
    <3>2. QED
      BY <2>3, <3>1, TypeFacts, FS_CardinalityType DEF Room
  <2>5. Len(builds') <= MaxBuilds
    BY <2>3, <2>4, FS_CardinalityType DEF Room, IndexTypeOK
  <2>6. job' \in [Threads -> Jobs]
    BY <1>5, TypeFacts, NoneYet DEF Commit
  <2>7. QED
    BY <1>5, <2>3, <2>4, <2>5, <2>6 DEF Commit, Goto, IndexTypeOK, Labels
<1>6. QED
  BY <1>1, <1>2, <1>3, <1>4, <1>5 DEF Build

LEMMA TypeInductive == IndexInit => IndexTypeOK /\ Room
<1> SUFFICES ASSUME IndexInit PROVE IndexTypeOK /\ Room
  OBVIOUS
<1>1. Building = {}
  BY DEF IndexInit, Building
<1>2. Room
  BY <1>1, FS_EmptySet, EntityIndexAssumption DEF IndexInit, Room
<1>3. 1 \in Times /\ 0 \in 0..MaxMerges
  BY EntityIndexAssumption DEF Times
<1>4. merges \in Seq(1..MaxTime) /\ Len(merges) = 0 /\ builds \in Seq(Jobs) /\ Len(builds) = 0
  BY DEF IndexInit
<1>5. QED
  BY <1>2, <1>3, <1>4, NoneYet, EntityIndexAssumption DEF IndexInit, IndexTypeOK, Labels

LEMMA StepKeepsType == IndexTypeOK /\ Room /\ [IndexNext]_indexVars => IndexTypeOK' /\ Room'
<1> SUFFICES ASSUME IndexTypeOK, Room, [IndexNext]_indexVars PROVE IndexTypeOK' /\ Room'
  OBVIOUS
<1>1. CASE Merge
  <2>1. clock \in 1..MaxTime
    BY TypeFacts
  <2>2. merges' \in Seq(1..MaxTime) /\ Len(merges') <= MaxMerges
    BY <1>1, <2>1, TypeFacts, EntityIndexAssumption DEF Merge
  <2>3. QED
    BY <1>1, <2>2 DEF Merge, IndexTypeOK, Room, Building
<1>2. CASE Tick
  BY <1>2, EntityIndexAssumption DEF Tick, IndexTypeOK, Room, Building
<1>3. CASE UNCHANGED indexVars
  BY <1>3 DEF indexVars, IndexTypeOK, Room, Building
<1>4. QED
  BY <1>1, <1>2, <1>3, StatusKeepsType, BuildKeepsType DEF IndexNext

\* Every variable keeps its type, and no more builds are made than the bound
\* admits, for any number of threads and workers.
THEOREM TypeCorrect == IndexSpec => []IndexTypeOK
  BY TypeInductive, StepKeepsType, PTL DEF IndexSpec

-----------------------------------------------------------------------------
(* The write lock. *)

\* Who writes has the lock.
Locked == \A g \in Threads : pc[g] \in {"rebuild", "stamped"} => writer = g

LEMMA StepKeepsLock ==
    IndexTypeOK /\ Locked /\ NoLockLeftBehind /\ [IndexNext]_indexVars => Locked' /\ NoLockLeftBehind'
<1> SUFFICES ASSUME IndexTypeOK, Locked, NoLockLeftBehind, [IndexNext]_indexVars
             PROVE  Locked' /\ NoLockLeftBehind'
  OBVIOUS
<1> USE EntityIndexAssumption DEF IndexTypeOK, Labels, Locked, NoLockLeftBehind, Goto
<1>1. ASSUME NEW g \in Threads, GetStatus(g) PROVE Locked' /\ NoLockLeftBehind'
  BY <1>1 DEF GetStatus, Ask, FromCache, NotInCache, ReadBuiltAt, NotBuilt, Compare,
              StoreStatus, Answer
<1>2. ASSUME NEW g \in Threads, Build(g) PROVE Locked' /\ NoLockLeftBehind'
  <2>1. CASE StartBuild(g) \/ Begin(g) \/ BeginFails(g)
    BY <2>1 DEF StartBuild, Begin, BeginFails
  <2>2. CASE BuildFails(g) \/ DropConnection(g)
    BY <2>2 DEF BuildFails, DropConnection
  <2>3. CASE StampBuild(g) \/ Commit(g) \/ Invalidate(g)
    BY <2>3 DEF StampBuild, Commit, Invalidate
  <2>4. QED
    BY <1>2, <2>1, <2>2, <2>3 DEF Build
<1>3. CASE Merge \/ Tick \/ UNCHANGED indexVars
  BY <1>3 DEF Merge, Tick, indexVars
<1>4. QED
  BY <1>1, <1>2, <1>3 DEF IndexNext

\* However a build ends, its write lock goes with its connection: whoever has
\* it is writing or has just raised.
THEOREM LockComesBack == IndexSpec => []NoLockLeftBehind
<1>1. IndexInit => Locked /\ NoLockLeftBehind
  BY EntityIndexAssumption DEF IndexInit, Locked, NoLockLeftBehind
<1>2. QED
  BY <1>1, TypeCorrect, StepKeepsLock, PTL DEF IndexSpec

-----------------------------------------------------------------------------
(* What the builds and the statuses know. *)

\* The build j read the merge results up to j.upto, when it was j.since.
Covers(j) ==
    /\ j.upto <= Len(merges) /\ j.since <= clock
    /\ \A i \in 1..Len(merges) : IF i > j.upto THEN j.since <= merges[i] ELSE merges[i] <= j.since

Past ==
    /\ \A i \in 1..Len(merges) : merges[i] <= clock
    /\ \A b \in 1..Len(builds) : builds[b].at <= clock

Made ==
    /\ \A g \in Building : Covers(job[g])
    /\ \A b \in 1..Len(builds) : Covers(builds[b]) /\ builds[b].since <= builds[b].at

\* A build that has its built_at is later than all that are committed.
Stamped ==
    \A g \in Threads : pc[g] = "stamped" =>
        /\ job[g].since <= job[g].at /\ job[g].at <= clock
        /\ \A b \in 1..Len(builds) : builds[b].at <= job[g].at

\* A status was asked about a merge result, or about nothing.
Asked(r) == r.now <= clock /\ (r.asked = 0 \/ \E i \in 1..Len(merges) : merges[i] = r.asked)

\* What it tells of its build, the last one when it began or a later one.
Tells(r) ==
    /\ r.build \in 1..Len(builds)
    /\ r.state = "stale" => r.asked # 0 /\ r.asked > BuiltAt(r.build)
    /\ r.state = "ready" => r.asked = 0 \/ r.asked <= BuiltAt(r.build)
    /\ \A b \in 1..Len(builds) : b > r.build => r.now <= builds[b].committed

Statuses ==
    /\ \A g \in Threads :
          /\ Asked(report[g])
          /\ pc[g] \in {"count", "store"} => Tells(report[g])
          /\ pc[g] = "store" <=> report[g].state # "nothing"
    /\ \A w \in Workers :
          cache[w] = NoStatus \/ (Asked(cache[w]) /\ Tells(cache[w]) /\ cache[w].state # "nothing")

IInv == IndexTypeOK /\ Locked /\ NoLockLeftBehind /\ Past /\ Made /\ Stamped /\ Statuses /\ BuiltAtGrows

\* The elements of a sequence are in its set.
LEMMA ElementOf == ASSUME NEW S, NEW s \in Seq(S) PROVE \A i \in 1..Len(s) : s[i] \in S
OBVIOUS

\* The numbers in it all.
LEMMA Numbers ==
    ASSUME IndexTypeOK
    PROVE  /\ clock \in Nat /\ Len(merges) \in Nat /\ Len(builds) \in Nat
           /\ \A i \in 1..Len(merges) : merges[i] \in Nat
           /\ \A b \in 1..Len(builds) :
                 /\ builds[b].upto \in Nat /\ builds[b].since \in Nat
                 /\ builds[b].at \in Nat /\ builds[b].committed \in Nat
           /\ \A g \in Threads :
                 /\ job[g].upto \in Nat /\ job[g].since \in Nat /\ job[g].at \in Nat
                 /\ report[g].now \in Nat /\ report[g].asked \in Nat /\ report[g].build \in Nat
           /\ \A w \in Workers :
                 cache[w].now \in Nat /\ cache[w].asked \in Nat /\ cache[w].build \in Nat
<1>1. /\ \A j \in Jobs : j.upto \in Nat /\ j.since \in Nat /\ j.at \in Nat /\ j.committed \in Nat
      /\ \A r \in Status : r.now \in Nat /\ r.asked \in Nat /\ r.build \in Nat
  BY EntityIndexAssumption DEF Jobs, Status, Times
<1>2. /\ \A i \in 1..Len(merges) : merges[i] \in 1..MaxTime
      /\ \A b \in 1..Len(builds) : builds[b] \in Jobs
  <2>1. merges \in Seq(1..MaxTime) /\ builds \in Seq(Jobs)
    BY TypeFacts
  <2>2. QED
    BY <2>1, ElementOf
<1>3. /\ \A g \in Threads : job[g] \in Jobs /\ report[g] \in Status
      /\ \A w \in Workers : cache[w] \in Status
  BY TypeFacts
<1>4. clock \in Nat /\ Len(merges) \in Nat /\ Len(builds) \in Nat
  BY TypeFacts, EntityIndexAssumption
<1>5. QED
  BY <1>1, <1>2, <1>3, <1>4

\* The local time of a build is a number.
LEMMA LocalTimes ==
    ASSUME IndexTypeOK PROVE \A b \in 1..Len(builds) : BuiltAt(b) \in Int
<1>1. /\ \A b \in 1..Len(builds) : builds[b] \in Jobs
      /\ zone \in [0..MaxTime -> Int]
  <2>1. builds \in Seq(Jobs) /\ zone \in Zones
    BY TypeFacts DEF IndexTypeOK
  <2>2. QED
    BY <2>1, ElementOf, EntityIndexAssumption
<1>2. \A b \in 1..Len(builds) : builds[b].at \in 0..MaxTime
  BY <1>1 DEF Jobs, Times
<1>3. 0..MaxTime \subseteq Int
  BY EntityIndexAssumption
<1>4. QED
  BY <1>1, <1>2, <1>3 DEF BuiltAt

\* A sequence with one more element.
LEMMA Appended == ASSUME NEW S, NEW s \in Seq(S), NEW e \in S
              PROVE  /\ Append(s, e) \in Seq(S) /\ Len(Append(s, e)) = Len(s) + 1
                     /\ \A i \in 1..Len(s) : Append(s, e)[i] = s[i]
                     /\ Append(s, e)[Len(s) + 1] = e
OBVIOUS

\* One thread has a new status and is elsewhere.
LEMMA OneStatus ==
    ASSUME IndexTypeOK, Statuses, NEW g \in Threads, NEW r \in Status, NEW label \in Labels,
           UNCHANGED <<clock, zone, merges, builds, cache>>,
           report' = [report EXCEPT ![g] = r], pc' = [pc EXCEPT ![g] = label],
           Asked(r), label \in {"count", "store"} => Tells(r),
           label = "store" <=> r.state # "nothing"
    PROVE  Statuses'
<1>1. \A s : (Asked(s)' <=> Asked(s)) /\ (Tells(s)' <=> Tells(s))
  BY DEF Asked, Tells, BuiltAt
<1>2. report \in [Threads -> Status] /\ pc \in [Threads -> Labels]
  BY TypeFacts
<1>3. ASSUME NEW h \in Threads
      PROVE  /\ Asked(report'[h])
             /\ pc'[h] \in {"count", "store"} => Tells(report'[h])
             /\ pc'[h] = "store" <=> report'[h].state # "nothing"
  <2>1. CASE h = g
    BY <2>1, <1>2
  <2>2. CASE h # g
    BY <2>2, <1>2 DEF Statuses
  <2>3. QED
    BY <2>1, <2>2
<1>4. QED
  BY <1>1, <1>3 DEF Statuses

LEMMA StatusKeepsHistory ==
    ASSUME IInv, NEW g \in Threads, GetStatus(g)
    PROVE  Past' /\ Made' /\ Stamped' /\ Statuses' /\ BuiltAtGrows'
<1>1. UNCHANGED <<clock, zone, merges, builds, writer, job>>
  BY DEF GetStatus, Ask, FromCache, NotInCache, ReadBuiltAt, NotBuilt, Compare, StoreStatus
<1>2. Building' = Building /\ \A h \in Threads : pc'[h] = "stamped" => pc[h] = "stamped"
  BY TypeFacts
  DEF IInv, GetStatus, Ask, FromCache, NotInCache, ReadBuiltAt, NotBuilt, Compare, StoreStatus,
      Answer, Goto, Labels, Building
<1>3. Past' /\ BuiltAtGrows'
  BY <1>1 DEF IInv, Past, BuiltAtGrows
<1>4. Made'
  BY <1>1, <1>2 DEF IInv, Made, Covers
<1>5. Stamped'
  BY <1>1, <1>2 DEF IInv, Stamped
<1>6. Statuses'
  <2>1. IndexTypeOK /\ Statuses /\ Past
    BY DEF IInv
  <2>2. /\ report[g] \in Status /\ Own(g) \in Status /\ clock \in 0..MaxTime /\ clock \in Nat
        /\ Len(builds) \in 0..MaxBuilds /\ Len(builds) \in Nat /\ Len(merges) \in Nat
        /\ report[g].now \in Nat /\ {"check", "idle", "query", "count", "store"} \subseteq Labels
    BY <2>1, TypeFacts, Numbers, EntityIndexAssumption DEF Own, Labels
  <2>3. Asked(NoStatus) /\ NoStatus.state = "nothing"
    BY <2>2 DEF Asked, NoStatus
  <2>4. /\ Asked(report[g])
        /\ pc[g] = "store" <=> report[g].state # "nothing"
        /\ pc[g] \in {"count", "store"} => Tells(report[g])
    BY <2>1 DEF Statuses
  <2>5. CASE Ask(g)
    <3>1. PICK ts \in {Newest, 0} : report' = [report EXCEPT ![g].asked = ts]
      BY <2>5 DEF Ask
    <3>2. ts \in 0..MaxTime /\ (ts = 0 \/ \E i \in 1..Len(merges) : merges[i] = ts)
      BY <2>1, <2>2, TypeFacts, EntityIndexAssumption DEF Newest
    <3> DEFINE r == [report[g] EXCEPT !.asked = ts]
    <3>3. r \in Status /\ r.now = report[g].now /\ r.asked = ts /\ r.state = report[g].state
      BY <2>2, <3>2, StatusTimes DEF Status
    <3>4. Asked(r) /\ r.state = "nothing"
      BY <2>4, <2>5, <3>2, <3>3 DEF Asked, Ask
    <3>5. UNCHANGED cache /\ pc' = [pc EXCEPT ![g] = "check"] /\ report' = [report EXCEPT ![g] = r]
      BY <2>5, <3>1 DEF Ask, Goto
    <3> HIDE DEF r
    <3>6. QED
      BY <1>1, <2>1, <2>2, <3>3, <3>4, <3>5, OneStatus
  <2>6. CASE FromCache(g) \/ NotBuilt(g)
    BY <1>1, <2>1, <2>2, <2>3, <2>6, NoneYet, OneStatus DEF FromCache, NotBuilt, Answer, Goto
  <2>7. CASE NotInCache(g)
    <3> DEFINE r == [report[g] EXCEPT !.now = clock]
    <3>1. r \in Status /\ r.now = clock /\ r.asked = report[g].asked /\ r.state = report[g].state
      BY <2>2, StatusTimes DEF Status
    <3>2. Asked(r) /\ r.state = "nothing"
      BY <2>2, <2>4, <2>7, <3>1 DEF Asked, NotInCache
    <3>3. UNCHANGED cache /\ pc' = [pc EXCEPT ![g] = "query"] /\ report' = [report EXCEPT ![g] = r]
      BY <2>7 DEF NotInCache, Goto
    <3> HIDE DEF r
    <3>4. QED
      BY <1>1, <2>1, <2>2, <3>1, <3>2, <3>3, OneStatus
  <2>8. CASE ReadBuiltAt(g)
    <3> DEFINE r == [report[g] EXCEPT !.build = Len(builds)]
    <3>1. /\ r \in Status /\ r.now = report[g].now /\ r.asked = report[g].asked
          /\ r.state = report[g].state /\ r.build = Len(builds)
      BY <2>2, StatusBuild DEF Status
    <3>2. Asked(r) /\ r.state = "nothing"
      BY <2>4, <2>8, <3>1 DEF Asked, ReadBuiltAt
    <3>3. Len(builds) # 0
      BY <2>1, <2>8, TypeFacts DEF ReadBuiltAt
    <3>4. Tells(r)
      BY <2>2, <3>1, <3>2, <3>3 DEF Tells
    <3>5. UNCHANGED cache /\ pc' = [pc EXCEPT ![g] = "count"] /\ report' = [report EXCEPT ![g] = r]
      BY <2>8 DEF ReadBuiltAt, Goto
    <3> HIDE DEF r
    <3>6. QED
      BY <1>1, <2>1, <2>2, <3>1, <3>2, <3>4, <3>5, OneStatus
  <2>9. CASE Compare(g)
    <3> DEFINE s == IF Outdated(report[g]) THEN "stale" ELSE "ready"
               r == [report[g] EXCEPT !.state = s]
    <3>1. s \in {"ready", "stale"}
      OBVIOUS
    <3>2. /\ r \in Status /\ r.now = report[g].now /\ r.asked = report[g].asked
          /\ r.state = s /\ r.build = report[g].build
      BY <2>2, <3>1, StatusState DEF Status
    <3>3. Tells(report[g])
      BY <2>4, <2>9 DEF Compare
    <3>4. BuiltAt(r.build) \in Int /\ r.asked \in Nat
      BY <2>1, <3>2, <3>3, Numbers, LocalTimes DEF Tells
    <3>5. Asked(r) /\ Tells(r)
      BY <2>4, <3>2, <3>3, <3>4 DEF Asked, Tells, Outdated
    <3>6. UNCHANGED cache /\ pc' = [pc EXCEPT ![g] = "store"] /\ report' = [report EXCEPT ![g] = r]
      BY <2>9 DEF Compare, Goto
    <3>7. r.state # "nothing"
      BY <3>1, <3>2
    <3> HIDE DEF r
    <3>8. QED
      BY <1>1, <2>1, <2>2, <3>2, <3>5, <3>6, <3>7, OneStatus
  <2>10. CASE StoreStatus(g)
    <3>1. \A r : (Asked(r)' <=> Asked(r)) /\ (Tells(r)' <=> Tells(r))
      BY <1>1 DEF Asked, Tells, BuiltAt
    <3>2. ASSUME NEW h \in Threads
          PROVE  /\ Asked(report'[h])
                 /\ pc'[h] \in {"count", "store"} => Tells(report'[h])
                 /\ pc'[h] = "store" <=> report'[h].state # "nothing"
      <4>1. CASE h = g
        BY <2>1, <2>3, <2>10, <4>1, TypeFacts DEF StoreStatus, Answer, Goto
      <4>2. CASE h # g
        BY <2>1, <2>10, <4>2, TypeFacts DEF StoreStatus, Answer, Goto, Statuses
      <4>3. QED
        BY <4>1, <4>2
    <3>3. ASSUME NEW w \in Workers
          PROVE  \/ cache'[w] = NoStatus
                 \/ Asked(cache'[w]) /\ Tells(cache'[w]) /\ cache'[w].state # "nothing"
      <4>1. CASE w = WorkerOf[g]
        BY <2>1, <2>4, <2>10, <4>1, TypeFacts DEF StoreStatus
      <4>2. CASE w # WorkerOf[g]
        BY <2>1, <2>10, <4>2, TypeFacts DEF StoreStatus, Statuses
      <4>3. QED
        BY <4>1, <4>2
    <3>4. QED
      BY <3>1, <3>2, <3>3 DEF Statuses
  <2>11. QED
    BY <2>5, <2>6, <2>7, <2>8, <2>9, <2>10 DEF GetStatus
<1>7. QED
  BY <1>3, <1>4, <1>5, <1>6

\* What is known stays known when time passes and rows are added.
LEMMA KnownStays ==
    ASSUME IndexTypeOK, Past, clock' \in Nat, clock' >= clock,
           merges' = merges \/ (merges' = Append(merges, clock) /\ clock' = clock)
    PROVE  /\ \A j \in Jobs : Covers(j) => Covers(j)'
           /\ \A r \in Status : Asked(r) => Asked(r)'
           /\ \A i \in 1..Len(merges') : merges'[i] <= clock'
<1>1. /\ Len(merges) \in Nat /\ clock \in Nat /\ merges \in Seq(1..MaxTime) /\ clock \in 1..MaxTime
      /\ \A i \in 1..Len(merges) : merges[i] \in Nat
  BY TypeFacts, Numbers
<1>2. /\ \A j \in Jobs : j.upto \in Nat /\ j.since \in Nat
      /\ \A r \in Status : r.now \in Nat
  BY EntityIndexAssumption DEF Jobs, Status, Times
<1>3. CASE merges' = merges
  BY <1>1, <1>2, <1>3 DEF Covers, Asked, Past
<1>4. CASE merges' = Append(merges, clock) /\ clock' = clock
  <2>1. /\ Len(merges') = Len(merges) + 1 /\ merges'[Len(merges) + 1] = clock
        /\ \A i \in 1..Len(merges) : merges'[i] = merges[i]
    <3>1. merges \in Seq(1..MaxTime) /\ clock \in 1..MaxTime
      BY <1>1
    <3>2. /\ Len(Append(merges, clock)) = Len(merges) + 1
          /\ \A i \in 1..Len(merges) : Append(merges, clock)[i] = merges[i]
          /\ Append(merges, clock)[Len(merges) + 1] = clock
      BY <3>1, Appended
    <3>3. QED
      BY <1>4, <3>2
  <2>2. \A i \in 1..Len(merges') : i \in 1..Len(merges) \/ i = Len(merges) + 1
    BY <1>1, <2>1
  <2>3. ASSUME NEW j \in Jobs, Covers(j) PROVE Covers(j)'
    <3>1. j.upto <= Len(merges') /\ j.since <= clock'
      BY <1>1, <1>2, <1>4, <2>1, <2>3 DEF Covers
    <3>2. ASSUME NEW i \in 1..Len(merges')
          PROVE  IF i > j.upto THEN j.since <= merges'[i] ELSE merges'[i] <= j.since
      BY <1>1, <1>2, <2>1, <2>2, <2>3 DEF Covers
    <3>3. QED
      BY <3>1, <3>2 DEF Covers
  <2>4. ASSUME NEW r \in Status, Asked(r) PROVE Asked(r)'
    BY <1>1, <1>4, <2>1, <2>4 DEF Asked
  <2>5. \A i \in 1..Len(merges') : merges'[i] <= clock'
    BY <1>1, <1>4, <2>1, <2>2 DEF Past
  <2>6. QED
    BY <2>3, <2>4, <2>5
<1>5. QED
  BY <1>3, <1>4

LEMMA TimePasses ==
    ASSUME IInv, Merge \/ Tick
    PROVE  Past' /\ Made' /\ Stamped' /\ Statuses' /\ BuiltAtGrows'
<1>1. UNCHANGED <<zone, builds, cache, pc, job, report>> /\ Building' = Building
  BY DEF Merge, Tick, Building
<1>2. IndexTypeOK /\ Past /\ Made /\ Stamped /\ Statuses /\ BuiltAtGrows /\ clock \in Nat
  BY Numbers DEF IInv
<1>3. /\ clock' \in Nat /\ clock' >= clock
      /\ merges' = merges \/ (merges' = Append(merges, clock) /\ clock' = clock)
  BY <1>2 DEF Merge, Tick
<1>4. /\ \A b \in 1..Len(builds) : builds[b] \in Jobs
      /\ \A g \in Threads : job[g] \in Jobs /\ report[g] \in Status
      /\ \A w \in Workers : cache[w] \in Status
  <2>1. builds \in Seq(Jobs)
    BY <1>2, TypeFacts
  <2>2. QED
    BY <1>2, <2>1, TypeFacts, ElementOf
<1>5. /\ \A b \in 1..Len(builds) : Covers(builds[b]) => Covers(builds[b])'
      /\ \A g \in Threads : Covers(job[g]) => Covers(job[g])'
      /\ \A g \in Threads : Asked(report[g]) => Asked(report[g])'
      /\ \A w \in Workers : Asked(cache[w]) => Asked(cache[w])'
      /\ \A i \in 1..Len(merges') : merges'[i] <= clock'
  <2>1. /\ \A j \in Jobs : Covers(j) => Covers(j)'
        /\ \A r \in Status : Asked(r) => Asked(r)'
        /\ \A i \in 1..Len(merges') : merges'[i] <= clock'
    BY <1>2, <1>3, KnownStays
  <2>2. QED
    BY <1>1, <1>4, <2>1
<1>6. \A b \in 1..Len(builds) : builds[b].at <= clock'
  BY <1>2, <1>3, Numbers DEF Past
<1>7. Past' /\ Made'
  BY <1>1, <1>2, <1>5, <1>6 DEF Past, Made, Building
<1>8. Stamped' /\ BuiltAtGrows'
  BY <1>1, <1>2, <1>3, Numbers DEF Stamped, BuiltAtGrows
<1>9. Statuses'
  <2>1. \A s : Tells(s)' <=> Tells(s)
    BY <1>1 DEF Tells, BuiltAt
  <2>2. QED
    BY <1>1, <1>2, <1>5, <2>1 DEF Statuses
<1>10. QED
  BY <1>7, <1>8, <1>9

LEMMA BuildKeepsHistory ==
    ASSUME IInv, NEW g \in Threads, Build(g)
    PROVE  Past' /\ Made' /\ Stamped' /\ Statuses' /\ BuiltAtGrows'
<1>1. UNCHANGED <<clock, zone, merges, report>>
  BY DEF Build, StartBuild, Begin, BeginFails, BuildFails, DropConnection, StampBuild, Commit, Invalidate
<1>2. /\ IndexTypeOK /\ Locked /\ Past /\ Made /\ Stamped /\ Statuses /\ BuiltAtGrows
      /\ clock \in Nat /\ Len(merges) \in Nat /\ Len(builds) \in Nat
      /\ pc \in [Threads -> Labels] /\ job \in [Threads -> Jobs]
  BY Numbers, TypeFacts DEF IInv
<1>3. \A j : Covers(j)' <=> Covers(j)
  BY <1>1 DEF Covers
<1>4. \A r : Asked(r)' <=> Asked(r)
  BY <1>1 DEF Asked
<1>5. /\ \A h \in Threads : pc'[h] \in {"count", "store"} <=> pc[h] \in {"count", "store"}
      /\ \A h \in Threads : pc'[h] = "store" <=> pc[h] = "store"
  BY <1>2 DEF Build, StartBuild, Begin, BeginFails, BuildFails, DropConnection, StampBuild, Commit,
              Invalidate, Goto, Labels
<1>6. ASSUME UNCHANGED builds
      PROVE  Past' /\ Statuses' /\ BuiltAtGrows'
  <2>1. \A r : Tells(r)' <=> Tells(r)
    BY <1>1, <1>6 DEF Tells, BuiltAt
  <2>2. \A w \in Workers : cache'[w] = cache[w] \/ cache'[w] = NoStatus
    <3>1. CASE Invalidate(g)
      BY <1>2, <3>1, TypeFacts DEF Invalidate
    <3>2. CASE UNCHANGED cache
      BY <3>2
    <3>3. QED
      BY <3>1, <3>2 DEF Build, StartBuild, Begin, BeginFails, BuildFails, DropConnection, StampBuild, Commit
  <2>3. Statuses'
    BY <1>1, <1>2, <1>4, <1>5, <2>1, <2>2 DEF Statuses
  <2>4. QED
    BY <1>1, <1>2, <1>6, <2>3 DEF Past, BuiltAtGrows
<1>7. CASE StartBuild(g)
  <2>1. UNCHANGED builds /\ Building' = Building \union {g} /\ job[g] \in Jobs
    BY <1>2, <1>7 DEF StartBuild, Goto, Labels, Building
  <2>2. job'[g].upto = Len(merges) /\ job'[g].since = clock /\ \A h \in Threads \ {g} : job'[h] = job[h]
    BY <1>2, <1>7 DEF StartBuild, NoJob
  <2>3. Covers(job'[g])
    BY <1>2, <2>2 DEF Covers, Past
  <2>4. Made'
    BY <1>2, <1>3, <2>1, <2>2, <2>3 DEF Made, Building
  <2>5. Stamped'
    BY <1>1, <1>2, <1>7, <2>1, <2>2 DEF Stamped, StartBuild, Goto
  <2>6. QED
    BY <1>6, <2>1, <2>4, <2>5
<1>8. CASE Begin(g) \/ Invalidate(g) \/ DropConnection(g)
  <2>1. UNCHANGED <<builds, job>> /\ Building' = Building
    BY <1>2, <1>8 DEF Begin, Invalidate, DropConnection, Goto, Labels, Building
  <2>2. Made'
    BY <1>2, <1>3, <2>1 DEF Made
  <2>3. \A h \in Threads : pc'[h] = "stamped" => pc[h] = "stamped"
    BY <1>2, <1>8 DEF Begin, Invalidate, DropConnection, Goto
  <2>4. Stamped'
    BY <1>1, <1>2, <2>1, <2>3 DEF Stamped
  <2>5. QED
    BY <1>6, <2>1, <2>2, <2>4
<1>9. CASE BeginFails(g) \/ BuildFails(g)
  <2>1. UNCHANGED builds /\ Building' = Building \ {g}
    BY <1>2, <1>9 DEF BeginFails, BuildFails, Goto, Labels, Building
  <2>2. \A h \in Threads \ {g} : job'[h] = job[h]
    BY <1>2, <1>9 DEF BeginFails, BuildFails
  <2>3. Made'
    BY <1>2, <1>3, <2>1, <2>2 DEF Made, Building
  <2>4. \A h \in Threads : pc'[h] = "stamped" => pc[h] = "stamped" /\ h # g
    BY <1>2, <1>9 DEF BeginFails, BuildFails, Goto
  <2>5. Stamped'
    BY <1>1, <1>2, <2>1, <2>2, <2>4 DEF Stamped
  <2>6. QED
    BY <1>6, <2>1, <2>3, <2>5
<1>10. CASE StampBuild(g)
  <2>1. UNCHANGED builds /\ Building' = Building /\ g \in Building
    BY <1>2, <1>10 DEF StampBuild, Goto, Labels, Building
  <2>2. /\ job[g] \in Jobs /\ job'[g] = [job[g] EXCEPT !.at = clock]
        /\ \A h \in Threads \ {g} : job'[h] = job[h]
    BY <1>2, <1>10 DEF StampBuild
  <2>3. job'[g].upto = job[g].upto /\ job'[g].since = job[g].since /\ job'[g].at = clock
    BY <2>2 DEF Jobs
  <2>4. Covers(job'[g])
    BY <1>2, <2>1, <2>3 DEF Made, Covers
  <2>5. Made'
    BY <1>2, <1>3, <2>1, <2>2, <2>4 DEF Made, Building
  <2>6. job'[g].since <= clock /\ \A b \in 1..Len(builds) : builds[b].at <= clock
    BY <1>2, <2>4 DEF Covers, Past
  <2>7. Stamped'
    <3>1. \A h \in Threads \ {g} : pc'[h] = "stamped" => pc[h] = "stamped"
      BY <1>2, <1>10 DEF StampBuild, Goto
    <3>2. QED
      <4>1. ASSUME NEW h \in Threads, pc'[h] = "stamped"
            PROVE  /\ job'[h].since <= job'[h].at /\ job'[h].at <= clock
                   /\ \A b \in 1..Len(builds) : builds[b].at <= job'[h].at
        <5>1. CASE h = g
          BY <2>3, <2>6, <5>1, <1>2
        <5>2. CASE h # g
          BY <1>2, <2>2, <3>1, <4>1, <5>2 DEF Stamped
        <5>3. QED
          BY <5>1, <5>2
      <4>2. QED
        BY <1>1, <2>1, <4>1 DEF Stamped
  <2>8. QED
    BY <1>6, <2>1, <2>5, <2>7
<1>11. CASE Commit(g)
  <2> DEFINE j == [job[g] EXCEPT !.committed = clock]
  <2>1. /\ pc[g] = "stamped" /\ builds' = Append(builds, j) /\ UNCHANGED cache
        /\ \A h \in Threads \ {g} : job'[h] = job[h]
        /\ \A h \in Threads : pc'[h] = "stamped" => pc[h] = "stamped" /\ h # g
        /\ Building' = Building \ {g} /\ g \in Building /\ job[g] \in Jobs
    BY <1>2, <1>11 DEF Commit, Goto, Labels, Building
  <2>2. /\ j \in Jobs /\ j.upto = job[g].upto /\ j.since = job[g].since /\ j.at = job[g].at
        /\ j.committed = clock
    <3>1. clock \in Times
      BY <1>2, TypeFacts
    <3>2. QED
      BY <2>1, <3>1, JobTimes DEF Jobs
  <2> HIDE DEF j
  <2>3. /\ Len(builds') = Len(builds) + 1 /\ builds'[Len(builds) + 1] = j
        /\ \A b \in 1..Len(builds) : builds'[b] = builds[b]
    <3>1. builds \in Seq(Jobs)
      BY <1>2, TypeFacts
    <3>2. /\ Len(Append(builds, j)) = Len(builds) + 1
          /\ \A b \in 1..Len(builds) : Append(builds, j)[b] = builds[b]
          /\ Append(builds, j)[Len(builds) + 1] = j
      BY <2>2, <3>1, Appended
    <3>3. QED
      BY <2>1, <3>2
  <2>4. \A b \in 1..Len(builds') : b \in 1..Len(builds) \/ b = Len(builds) + 1
    BY <1>2, <2>3
  <2>5. /\ Covers(j) /\ j.since <= j.at /\ j.at <= clock
        /\ \A b \in 1..Len(builds) : builds[b].at <= j.at
    <3>1. Covers(job[g])
      BY <1>2, <2>1 DEF Made
    <3>2. QED
      BY <1>2, <2>1, <2>2, <3>1 DEF Covers, Stamped
  <2>6. Past'
    BY <1>1, <1>2, <2>3, <2>4, <2>5 DEF Past
  <2>7. Made'
    <3>1. \A b \in 1..Len(builds') : Covers(builds'[b]) /\ builds'[b].since <= builds'[b].at
      BY <1>2, <2>3, <2>4, <2>5 DEF Made
    <3>2. \A h \in Building' : Covers(job'[h])
      BY <1>2, <2>1 DEF Made, Building
    <3>3. QED
      BY <1>3, <3>1, <3>2 DEF Made
  <2>8. Stamped'
    BY <1>2, <2>1 DEF Stamped, Locked
  <2>9. BuiltAtGrows'
    <3>1. ASSUME NEW b \in 1..Len(builds'), NEW c \in 1..Len(builds'), b < c
          PROVE  builds'[b].at <= builds'[c].at
      <4>1. b \in 1..Len(builds)
        BY <1>2, <2>3, <3>1
      <4>2. CASE c \in 1..Len(builds)
        BY <1>2, <2>3, <3>1, <4>1, <4>2 DEF BuiltAtGrows
      <4>3. CASE c = Len(builds) + 1
        BY <2>3, <2>5, <4>1, <4>3
      <4>4. QED
        BY <2>4, <4>2, <4>3
    <3>2. QED
      BY <3>1 DEF BuiltAtGrows
  <2>10. Statuses'
    <3>1. ASSUME NEW r, Asked(r), Tells(r) PROVE Tells(r)'
      <4>1. r.build \in 1..Len(builds') /\ builds'[r.build] = builds[r.build]
        BY <1>2, <2>3, <3>1 DEF Tells
      <4>2. \A b \in 1..Len(builds') : b > r.build => r.now <= builds'[b].committed
        BY <1>2, <2>2, <2>3, <2>4, <3>1 DEF Tells, Asked
      <4>3. QED
        BY <1>1, <3>1, <4>1, <4>2 DEF Tells, BuiltAt
    <3>2. QED
      BY <1>1, <1>2, <1>4, <1>5, <2>1, <3>1 DEF Statuses
  <2>11. QED
    BY <2>6, <2>7, <2>8, <2>9, <2>10
<1>12. QED
  BY <1>7, <1>8, <1>9, <1>10, <1>11 DEF Build

LEMMA HistoryInductive ==
    /\ IndexInit => IInv
    /\ IInv /\ Room /\ [IndexNext]_indexVars => IInv'
<1>1. ASSUME IndexInit PROVE IInv
  <2>1. IndexTypeOK
    BY <1>1, TypeInductive
  <2>2. /\ Len(merges) = 0 /\ Len(builds) = 0 /\ clock = 1 /\ Building = {}
        /\ \A g \in Threads : pc[g] = "idle"
    BY <1>1 DEF IndexInit, Building
  <2>3. Asked(NoStatus) /\ NoStatus.state = "nothing"
    BY <2>2 DEF Asked, NoStatus
  <2>4. Statuses
    BY <1>1, <2>2, <2>3, EntityIndexAssumption DEF IndexInit, Statuses
  <2>5. QED
    BY <1>1, <2>1, <2>2, <2>4, EntityIndexAssumption DEF IndexInit, IInv, Locked, NoLockLeftBehind, Past, Made, Stamped, BuiltAtGrows
<1>2. ASSUME IInv, Room, [IndexNext]_indexVars PROVE IInv'
  <2>1. IndexTypeOK'
    BY <1>2, StepKeepsType DEF IInv
  <2>2. Locked' /\ NoLockLeftBehind'
    BY <1>2, StepKeepsLock DEF IInv
  <2>3. Past' /\ Made' /\ Stamped' /\ Statuses' /\ BuiltAtGrows'
    <3>1. CASE UNCHANGED indexVars
      BY <1>2, <3>1 DEF indexVars, IInv, Past, Made, Stamped, Statuses, BuiltAtGrows, Covers, Asked, Tells,
                        BuiltAt, Building
    <3>2. QED
      BY <1>2, <3>1, StatusKeepsHistory, BuildKeepsHistory, TimePasses DEF IndexNext
  <2>4. QED
    BY <2>1, <2>2, <2>3 DEF IInv
<1>3. QED
  BY <1>1, <1>2

\* What the statuses and the builds know of each other stays true, whatever
\* threads and workers do in between.
THEOREM HistoryKept == IndexSpec => [](IInv /\ Room)
  BY HistoryInductive, TypeInductive, StepKeepsType, PTL DEF IndexSpec, IInv

\* The moments at which builds take their built_at are in the order in which the
\* builds are committed, for any number of builds in any number of workers: they
\* take it and commit under one lock.
THEOREM BuildsInOrder == IndexSpec => []BuiltAtGrows
<1>1. IInv => BuiltAtGrows
  BY DEF IInv
<1>2. QED
  BY <1>1, HistoryKept, PTL

LEMMA KnownTells ==
    ASSUME IInv, NEW r \in Known
    PROVE  /\ Asked(r) /\ Tells(r) /\ Covers(builds[r.build])
           /\ r.asked \in Nat /\ builds[r.build].at \in Nat /\ builds[r.build].since \in Nat
           /\ builds[r.build].upto \in Nat /\ builds[r.build].since <= builds[r.build].at
           /\ BuiltAt(r.build) \in Int
<1>1. IndexTypeOK /\ Statuses /\ Made /\ NoStatus.state = "nothing"
  BY DEF IInv, NoStatus
<1>2. Asked(r) /\ Tells(r)
  BY <1>1 DEF Known, Statuses
<1>3. r.asked \in Nat
  BY <1>1, Numbers DEF Known
<1>4. r.build \in 1..Len(builds)
  BY <1>2 DEF Tells
<1>5. QED
  BY <1>1, <1>2, <1>3, <1>4, Numbers, LocalTimes DEF Made

\* In any time zone, summer time included: "stale" is about a merge result that
\* the build has not read, or about one of before the build took its built_at, by
\* less than local time was behind UTC then.
THEOREM StaleOrBehind == IndexSpec => []FalseAlarmsAreBounded
<1>1. IInv => FalseAlarmsAreBounded
  <2>1. SUFFICES ASSUME IInv, NEW r \in Known, r.state = "stale"
                 PROVE  \E i \in 1..Len(merges) :
                            /\ merges[i] = r.asked
                            /\ \/ Lacks(r.build, i)
                               \/ merges[i] <= builds[r.build].at /\ BuiltAt(r.build) < merges[i]
    BY DEF FalseAlarmsAreBounded
  <2>2. r.asked > BuiltAt(r.build) /\ r.asked # 0
    BY <2>1, KnownTells DEF Tells
  <2>3. PICK i \in 1..Len(merges) : merges[i] = r.asked
    BY <2>1, <2>2, KnownTells DEF Asked
  <2>4. CASE merges[i] <= builds[r.build].at
    BY <2>1, <2>2, <2>3, <2>4, KnownTells
  <2>5. CASE ~(merges[i] <= builds[r.build].at)
    <3>1. Lacks(r.build, i)
      BY <2>1, <2>3, <2>5, KnownTells DEF Lacks, Covers
    <3>2. QED
      BY <2>3, <3>1
  <2>6. QED
    BY <2>4, <2>5
<1>2. QED
  BY <1>1, HistoryKept, PTL

\* In any time zone, summer time included: of the merge results up to the one it
\* was asked about, a "ready" hides only those created between the moment the
\* build read its source and the UTC time whose text is its built_at.
THEOREM ReadyOrAhead == IndexSpec => []ReadyHidesNoMore
<1>1. IInv => ReadyHidesNoMore
  <2>1. SUFFICES ASSUME IInv, NEW r \in Known, r.state = "ready", NEW i \in 1..Len(merges),
                        merges[i] <= r.asked, Lacks(r.build, i)
                 PROVE  merges[i] \in builds[r.build].since..BuiltAt(r.build)
    BY DEF ReadyHidesNoMore
  <2>2. merges[i] \in Nat \ {0}
    <3>1. merges \in Seq(1..MaxTime)
      BY <2>1, TypeFacts DEF IInv
    <3>2. QED
      BY <3>1, ElementOf, EntityIndexAssumption
  <2>3. r.asked <= BuiltAt(r.build)
    BY <2>1, <2>2, KnownTells DEF Tells
  <2>4. builds[r.build].since <= merges[i]
    BY <2>1, KnownTells DEF Lacks, Covers
  <2>5. QED
    BY <2>1, <2>2, <2>3, <2>4, KnownTells
<1>2. QED
  BY <1>1, HistoryKept, PTL

\* An answer is never older than the cache's lifetime: it knows every build
\* committed a TTL before it was asked for.
THEOREM AnswersAreYoung == IndexSpec => AnswersKnowOldBuilds
<1>1. IInv /\ [IndexNext]_indexVars =>
        [\A g \in Threads : AnswersNow(g) =>
            \A b \in 1..Len(builds) :
                builds[b].committed + TTL <= AskedAt(g) => b <= AnswerOf(g).build]_indexVars
  <2>1. SUFFICES ASSUME IInv, [IndexNext]_indexVars, NEW g \in Threads, AnswersNow(g), NEW b \in 1..Len(builds),
                        builds[b].committed + TTL <= AskedAt(g)
                 PROVE  b <= AnswerOf(g).build
    OBVIOUS
  <2>2. IndexTypeOK /\ Statuses /\ TTL \in Nat \ {0} /\ builds[b].committed \in Nat /\ clock \in Nat
    BY <2>1, Numbers, EntityIndexAssumption DEF IInv
  <2>3. CASE pc[g] = "store"
    <3>1. Tells(report[g]) /\ report[g].now \in Nat /\ report[g].build \in Nat
      BY <2>2, <2>3, Numbers DEF Statuses
    <3>2. QED
      BY <2>1, <2>2, <2>3, <3>1 DEF Tells, AskedAt, AnswerOf
  <2>4. CASE pc[g] = "check"
    <3>1. FromCache(g)
      <4>1. pc'[g] = "idle" /\ pc \in [Threads -> Labels]
        BY <2>1, <2>2, <2>4, TypeFacts DEF AnswersNow
      <4>2. ASSUME NEW h \in Threads, GetStatus(h) PROVE FromCache(g)
        BY <2>4, <4>1, <4>2 DEF GetStatus, Ask, FromCache, NotInCache, ReadBuiltAt, NotBuilt, Compare,
                                StoreStatus, Answer, Goto
      <4>3. ASSUME NEW h \in Threads, Build(h) PROVE FALSE
        BY <2>4, <4>1, <4>3 DEF Build, StartBuild, Begin, BeginFails, BuildFails, DropConnection,
                                StampBuild, Commit, Invalidate, Goto
      <4>4. QED
        BY <2>1, <2>4, <4>1, <4>2, <4>3 DEF IndexNext, Merge, Tick, indexVars
    <3>2. Own(g) # NoStatus /\ clock - Own(g).now < TTL
      BY <3>1 DEF FromCache, Fresh
    <3>3. WorkerOf[g] \in Workers
      BY EntityIndexAssumption
    <3>4. Tells(Own(g)) /\ Own(g).now \in Nat /\ Own(g).build \in Nat
      BY <2>2, <3>2, <3>3, Numbers DEF Own, Statuses
    <3>5. QED
      BY <2>1, <2>2, <2>4, <3>2, <3>4 DEF Tells, AskedAt, AnswerOf
  <2>5. QED
    BY <2>1, <2>3, <2>4 DEF AnswersNow
<1>2. QED
  BY <1>1, HistoryKept, PTL DEF IndexSpec, AnswersKnowOldBuilds
=============================================================================
