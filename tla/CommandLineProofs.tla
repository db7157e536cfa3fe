-------------------------- MODULE CommandLineProofs --------------------------
(* Proofs about the commands of the command line, PidFile and Migration.   *)
(* The argument for FileNamesDaemon: as long as nothing disturbs them,     *)
(* commands run one at a time, and what the command under way knows of the *)
(* file and of the daemons depends on its step only; others can do no more *)
(* than end daemons and remove the file.  The one for MigrationComplete:   *)
(* what a migration has done is never undone, column and table stay, the   *)
(* backfilled documents only grow in number; and who creates the table is  *)
(* filling it from then on, until it is full or the migration ends early.  *)
EXTENDS PidFile, Migration, TLAPS

-----------------------------------------------------------------------------
(* The PID file. *)

\* Every variable of the PID file, the processes and the commands keeps its type.
THEOREM PidTypes == PidSpec => []PidTypeOK
<1>1. PidInit => PidTypeOK
  <2> SUFFICES ASSUME PidInit PROVE PidTypeOK
    OBVIOUS
  <2>1. disturbed \in BOOLEAN /\ commandsRun \in Nat
    BY DEF PidInit
  <2>2. pidFile \in Pids \union {NoPid} /\ process \in [Pids -> States]
    BY DEF PidInit, States
  <2>3. step \in [Commands -> Steps] /\ target \in [Commands -> Pids \union {NoPid}]
    BY DEF PidInit, Steps
  <2>4. QED
    BY <2>1, <2>2, <2>3 DEF PidTypeOK
<1>2. PidTypeOK /\ [PidNext]_pidVars => PidTypeOK'
  <2> SUFFICES ASSUME PidTypeOK, [PidNext]_pidVars PROVE PidTypeOK'
    OBVIOUS
  <2> USE DEF PidTypeOK, States, Steps, Proceed, Becomes
  <2>1. ASSUME NEW c \in Commands, Run(c) PROVE PidTypeOK'
    BY <2>1 DEF Run
  <2>2. ASSUME NEW c \in Commands, Command(c) PROVE PidTypeOK'
    <3>1. CASE ReadForStart(c) \/ Probe(c) \/ RemoveStale(c)
      BY <3>1 DEF ReadForStart, Probe, RemoveStale
    <3>2. CASE Fork(c) \/ WriteFile(c)
      BY <3>2 DEF Fork, WriteFile
    <3>3. CASE ReadForStop(c) \/ Check(c)
      BY <3>3 DEF ReadForStop, Check
    <3>4. CASE Terminate(c)
      BY <3>4 DEF Terminate
    <3>5. CASE Wait(c) \/ Kill(c) \/ Remove(c)
      BY <3>5 DEF Wait, Kill, Remove
    <3>6. QED
      BY <2>2, <3>1, <3>2, <3>3, <3>4, <3>5 DEF Command
  <2>3. ASSUME NEW c \in Commands, CutOff(c) PROVE PidTypeOK'
    BY <2>3 DEF CutOff
  <2>4. ASSUME NEW p \in Pids,
               Register(p) \/ ExitHandler(p) \/ ExitRemoves(p) \/ Dies(p) \/ Stranger(p)
        PROVE  PidTypeOK'
    BY <2>4 DEF Register, ExitHandler, ExitRemoves, Dies, Stranger
  <2>5. CASE UNCHANGED pidVars
    BY <2>5 DEF pidVars
  <2>6. QED
    BY <2>1, <2>2, <2>3, <2>4, <2>5 DEF PidNext
<1>3. QED
  BY <1>1, <1>2, PTL DEF PidSpec

-----------------------------------------------------------------------------
(* The inductive invariant. *)

OneAtATime == \A c, d \in Commands : step[c] # "idle" /\ step[d] # "idle" => c = d

\* Every daemon is the one that the file names.
Named == \A p \in Daemons : pidFile = p

\* Between the reading of the file and the decision it may only disappear.
FollowsFile(c) ==
    step[c] \in {"probe", "check", "term", "wait", "kill"} =>
        target[c] \in Pids /\ pidFile \in {target[c], NoPid}

\* Before a fork and before stop's removal there is no daemon any more.
NoneLeft(c) == step[c] \in {"removeStale", "fork", "remove"} => Daemons = {}

OnlyTheNewOne(c) == step[c] = "write" => target[c] \in Pids /\ Daemons \subseteq {target[c]}

Undisturbed ==
    /\ OneAtATime
    /\ (\A c \in Commands : step[c] # "write") => Named
    /\ \A c \in Commands : FollowsFile(c) /\ NoneLeft(c) /\ OnlyTheNewOne(c)

PidInv == PidTypeOK /\ (disturbed \/ Undisturbed)

\* What others do to the daemons while the commands stay where they are: they
\* do not start any, and a file that disappears named no other daemon.
LEMMA OthersKeep ==
    ASSUME PidTypeOK, Undisturbed, UNCHANGED <<step, target>>,
           Daemons' \subseteq Daemons,
           pidFile' = pidFile \/ (pidFile' = NoPid /\ ((\A c \in Commands : step[c] # "write") => Daemons' = {}))
    PROVE  Undisturbed'
BY DEF PidTypeOK, Undisturbed, OneAtATime, Named, FollowsFile, NoneLeft, OnlyTheNewOne

LEMMA ProcessesKeep ==
    ASSUME PidTypeOK, Undisturbed, NEW p \in Pids,
           Register(p) \/ ExitHandler(p) \/ ExitRemoves(p) \/ Dies(p) \/ Stranger(p)
    PROVE  Undisturbed'
<1>1. UNCHANGED <<step, target>>
  BY DEF Register, ExitHandler, ExitRemoves, Dies, Stranger
<1>2. Daemons' \subseteq Daemons
  BY DEF Register, ExitHandler, ExitRemoves, Dies, Stranger, Becomes, Daemons, PidTypeOK
<1>3. CASE ExitRemoves(p)
  <2>1. p \in Daemons /\ p \notin Daemons' /\ pidFile' = NoPid
    BY <1>3 DEF ExitRemoves, Becomes, Daemons, PidTypeOK
  <2>2. (\A c \in Commands : step[c] # "write") => Daemons' = {}
    BY <1>2, <2>1 DEF Undisturbed, Named
  <2>3. QED
    BY <1>1, <1>2, <2>1, <2>2, OthersKeep
<1>4. CASE ~ExitRemoves(p)
  <2>1. pidFile' = pidFile
    BY <1>4 DEF Register, ExitHandler, Dies, Stranger
  <2>2. QED
    BY <1>1, <1>2, <2>1, OthersKeep
<1>5. QED
  BY <1>3, <1>4

\* A command that moves is alone: the others stay idle.
LEMMA Alone ==
    ASSUME PidTypeOK, Undisturbed, NEW c \in Commands, step[c] # "idle", NEW s \in Steps, Proceed(c, s)
    PROVE  /\ \A d \in Commands \ {c} : step[d] = "idle" /\ step'[d] = "idle"
           /\ step'[c] = s
           /\ OneAtATime'
BY DEF PidTypeOK, Undisturbed, OneAtATime, Proceed

LEMMA StartKeeps ==
    ASSUME PidTypeOK, Undisturbed, NEW c \in Commands,
           ReadForStart(c) \/ Probe(c) \/ RemoveStale(c) \/ Fork(c) \/ WriteFile(c)
    PROVE  Undisturbed'
<1> USE DEF Steps
<1>1. CASE ReadForStart(c)
  <2>1. step[c] = "start" /\ Named /\ Daemons' = Daemons
    BY <1>1, Alone DEF ReadForStart, Undisturbed, Daemons
  <2>2. CASE pidFile = NoPid
    <3>1. Daemons = {}
      BY <2>1, <2>2, PidFileAssumption DEF Named, Daemons
    <3>2. QED
      BY <1>1, <2>1, <2>2, <3>1, Alone
      DEF ReadForStart, Undisturbed, Named, FollowsFile, NoneLeft, OnlyTheNewOne
  <2>3. CASE pidFile # NoPid
    BY <1>1, <2>1, <2>3, Alone
    DEF ReadForStart, PidTypeOK, Undisturbed, Named, FollowsFile, NoneLeft, OnlyTheNewOne
  <2>4. QED
    BY <2>2, <2>3
<1>2. CASE Probe(c)
  <2>1. step[c] = "probe" /\ Named /\ Daemons' = Daemons /\ FollowsFile(c)
    BY <1>2, Alone DEF Probe, Undisturbed, Daemons, Proceed
  <2>2. ~Alive(target[c]) => Daemons = {}
    BY <2>1, PidFileAssumption DEF Named, FollowsFile, Daemons, Alive
  <2>3. QED
    BY <1>2, <2>1, <2>2, Alone
    DEF Probe, Undisturbed, Named, FollowsFile, NoneLeft, OnlyTheNewOne
<1>3. CASE RemoveStale(c)
  <2>1. step[c] = "removeStale" /\ Daemons = {} /\ Daemons' = {}
    BY <1>3 DEF RemoveStale, Undisturbed, NoneLeft, Daemons
  <2>2. QED
    BY <1>3, <2>1, Alone
    DEF RemoveStale, Undisturbed, Named, FollowsFile, NoneLeft, OnlyTheNewOne
<1>4. CASE Fork(c)
  <2>1. step[c] = "fork" /\ Daemons = {}
    BY <1>4 DEF Fork, Undisturbed, NoneLeft
  <2>2. target'[c] \in Pids /\ Daemons' \subseteq {target'[c]}
    BY <1>4, <2>1 DEF Fork, Becomes, Daemons, PidTypeOK
  <2>3. QED
    BY <1>4, <2>1, <2>2, Alone
    DEF Fork, Undisturbed, Named, FollowsFile, NoneLeft, OnlyTheNewOne
<1>5. CASE WriteFile(c)
  <2>1. step[c] = "write" /\ pidFile' = target[c] /\ Daemons' \subseteq {target[c]}
    BY <1>5 DEF WriteFile, Undisturbed, OnlyTheNewOne, Daemons
  <2>2. QED
    BY <1>5, <2>1, Alone
    DEF WriteFile, Undisturbed, Named, FollowsFile, NoneLeft, OnlyTheNewOne
<1>6. QED
  BY <1>1, <1>2, <1>3, <1>4, <1>5

LEMMA StopKeeps ==
    ASSUME PidTypeOK, Undisturbed, NEW c \in Commands,
           ReadForStop(c) \/ Check(c) \/ Terminate(c) \/ Wait(c) \/ Kill(c) \/ Remove(c)
    PROVE  Undisturbed'
<1> USE DEF Steps
<1>1. CASE ReadForStop(c)
  <2>1. step[c] = "stop" /\ Named /\ Daemons' = Daemons
    BY <1>1, Alone DEF ReadForStop, Undisturbed, Daemons
  <2>2. QED
    BY <1>1, <2>1, Alone
    DEF ReadForStop, PidTypeOK, Undisturbed, Named, FollowsFile, NoneLeft, OnlyTheNewOne
<1>2. CASE Check(c) \/ Wait(c)
  <2>1. /\ step[c] \in {"check", "wait"} /\ Named /\ Daemons' = Daemons /\ FollowsFile(c)
        /\ UNCHANGED <<pidFile, target>>
    BY <1>2, Alone DEF Check, Wait, Undisturbed, Daemons, Proceed
  <2>2. ~Alive(target[c]) => Daemons = {}
    BY <2>1, PidFileAssumption DEF Named, FollowsFile, Daemons, Alive
  <2>3. \E s \in {"term", "kill", "remove"} : Proceed(c, s) /\ (s = "remove" => Daemons = {})
    BY <1>2, <2>2 DEF Check, Wait
  <2>4. QED
    BY <2>1, <2>3, Alone
    DEF Undisturbed, Named, FollowsFile, NoneLeft, OnlyTheNewOne
<1>3. CASE Terminate(c)
  <2>1. step[c] = "term" /\ Named /\ FollowsFile(c) /\ UNCHANGED <<pidFile, target>>
    BY <1>3, Alone DEF Terminate, Undisturbed, Proceed
  <2>2. Daemons' \subseteq Daemons
    BY <1>3, <2>1 DEF Terminate, Becomes, Daemons, PidTypeOK, FollowsFile
  <2>3. ~Alive(target[c]) => Daemons = {}
    BY <2>1, PidFileAssumption DEF Named, FollowsFile, Daemons, Alive
  <2>4. \E s \in {"wait", "remove"} : Proceed(c, s) /\ (s = "remove" => Daemons = {})
    BY <1>3, <2>3 DEF Terminate
  <2>5. QED
    BY <2>1, <2>2, <2>4, Alone
    DEF Undisturbed, Named, FollowsFile, NoneLeft, OnlyTheNewOne
<1>4. CASE Kill(c)
  <2>1. step[c] = "kill" /\ Named /\ FollowsFile(c)
    BY <1>4, Alone DEF Kill, Undisturbed, Proceed
  <2>2. Daemons' = {}
    BY <1>4, <2>1, PidFileAssumption DEF Kill, Becomes, Named, FollowsFile, Daemons, PidTypeOK
  <2>3. QED
    BY <1>4, <2>1, <2>2, Alone
    DEF Kill, Undisturbed, Named, FollowsFile, NoneLeft, OnlyTheNewOne
<1>5. CASE Remove(c)
  <2>1. step[c] = "remove" /\ Daemons' = {}
    BY <1>5 DEF Remove, Undisturbed, NoneLeft, Daemons
  <2>2. QED
    BY <1>5, <2>1, Alone
    DEF Remove, Undisturbed, Named, FollowsFile, NoneLeft, OnlyTheNewOne
<1>6. QED
  BY <1>1, <1>2, <1>3, <1>4, <1>5

LEMMA RunKeeps ==
    ASSUME PidTypeOK, Undisturbed, NEW c \in Commands, Run(c), ~disturbed'
    PROVE  Undisturbed'
<1>1. \A d \in Commands : step[d] = "idle"
  BY DEF Run
<1>2. /\ step'[c] \in {"start", "stop"}
      /\ \A d \in Commands \ {c} : step'[d] = "idle"
  BY <1>1 DEF Run, Proceed, PidTypeOK
<1>3. Named /\ Daemons' = Daemons
  BY <1>1 DEF Undisturbed, Run, Daemons
<1>4. QED
  BY <1>2, <1>3 DEF Run, Undisturbed, OneAtATime, Named, FollowsFile, NoneLeft, OnlyTheNewOne

LEMMA CutOffKeeps ==
    ASSUME PidTypeOK, Undisturbed, NEW c \in Commands, CutOff(c), ~disturbed'
    PROVE  Undisturbed'
<1>1. Named /\ Daemons' = Daemons
  BY Alone DEF CutOff, Undisturbed, Daemons, Proceed, Steps
<1>2. QED
  BY <1>1, Alone DEF CutOff, Undisturbed, Named, FollowsFile, NoneLeft, OnlyTheNewOne, Steps

\* Between two commands that nothing disturbed, a daemon that runs is the one
\* that the PID file names, for any number of shells and process ids.
THEOREM DaemonNamed == PidSpec => []FileNamesDaemon
<1>1. PidInit /\ PidTypeOK => PidInv
  BY DEF PidInit, PidInv, Undisturbed, OneAtATime, Named, Daemons, FollowsFile, NoneLeft,
         OnlyTheNewOne
<1>2. PidInv /\ PidTypeOK' /\ [PidNext]_pidVars => PidInv'
  <2> SUFFICES ASSUME PidInv, PidTypeOK', [PidNext]_pidVars, ~disturbed' PROVE Undisturbed'
    BY DEF PidInv
  <2>1. CASE disturbed
    BY <2>1 DEF PidInv, PidNext, Run, Command, CutOff, ReadForStart, Probe, RemoveStale, Fork,
                WriteFile, ReadForStop, Check, Terminate, Wait, Kill, Remove, Register,
                ExitHandler, ExitRemoves, Dies, Stranger, pidVars
  <2>2. CASE Undisturbed
    <3> USE <2>2 DEF PidInv
    <3>1. ASSUME NEW c \in Commands, Run(c) PROVE Undisturbed'
      BY <3>1, RunKeeps
    <3>2. ASSUME NEW c \in Commands, Command(c) PROVE Undisturbed'
      BY <3>2, StartKeeps, StopKeeps DEF Command
    <3>3. ASSUME NEW c \in Commands, CutOff(c) PROVE Undisturbed'
      BY <3>3, CutOffKeeps
    <3>4. ASSUME NEW p \in Pids,
                 Register(p) \/ ExitHandler(p) \/ ExitRemoves(p) \/ Dies(p) \/ Stranger(p)
          PROVE  Undisturbed'
      BY <3>4, ProcessesKeep
    <3>5. CASE UNCHANGED pidVars
      BY <3>5 DEF pidVars, Undisturbed, OneAtATime, Named, Daemons, FollowsFile, NoneLeft,
                  OnlyTheNewOne
    <3>6. QED
      BY <3>1, <3>2, <3>3, <3>4, <3>5 DEF PidNext
  <2>3. QED
    BY <2>1, <2>2 DEF PidInv
<1>3. PidInv => FileNamesDaemon
  BY DEF PidInv, Undisturbed, FileNamesDaemon, Named
<1>4. QED
  BY <1>1, <1>2, <1>3, PidTypes, PTL DEF PidSpec

-----------------------------------------------------------------------------
(* The migration. *)

LEMMA StepsKeepType ==
    ASSUME MigrationTypeOK, NEW m \in Runners,
           \/ Migrate(m) \/ TableInfo(m) \/ AddColumn(m) \/ Update(m) \/ CommitUpdate(m)
           \/ LookForTable(m) \/ CreateTable(m) \/ Rebuild(m) \/ CommitRebuild(m) \/ EndsEarly(m)
    PROVE  MigrationTypeOK'
<1> USE DEF MigrationTypeOK, Statements, Continue, dbVars, runVars
<1>1. CASE Migrate(m) \/ TableInfo(m)
  BY <1>1 DEF Migrate, TableInfo
<1>2. CASE AddColumn(m) \/ Update(m)
  BY <1>2 DEF AddColumn, Update
<1>3. CASE CommitUpdate(m) \/ LookForTable(m)
  BY <1>3 DEF CommitUpdate, LookForTable
<1>4. CASE CreateTable(m)
  BY <1>4 DEF CreateTable
<1>5. CASE Rebuild(m) \/ CommitRebuild(m)
  BY <1>5 DEF Rebuild, CommitRebuild
<1>6. CASE EndsEarly(m)
  BY <1>6 DEF EndsEarly
<1>7. QED
  BY <1>1, <1>2, <1>3, <1>4, <1>5, <1>6

\* Documents, flags, index and every process keep their type; in particular no
\* more documents are backfilled or indexed than there are.
THEOREM MigrationTypes == MigrationSpec => []MigrationTypeOK
<1>1. MigrationInit => MigrationTypeOK
  <2> SUFFICES ASSUME MigrationInit PROVE MigrationTypeOK
    OBVIOUS
  <2>1. column \in BOOLEAN
    BY DEF MigrationInit
  <2>2. /\ statement \in [Runners -> Statements]
        /\ ftsAvailable \in [Servers -> {"unknown", "yes", "no"}]
    BY DEF MigrationInit, Statements
  <2>3. QED
    BY <2>1, <2>2 DEF MigrationInit, MigrationTypeOK
<1>2. MigrationTypeOK /\ [MigrationNext]_migrationVars => MigrationTypeOK'
  <2> SUFFICES ASSUME MigrationTypeOK, [MigrationNext]_migrationVars PROVE MigrationTypeOK'
    OBVIOUS
  <2>1. CASE AddDocument
    BY <2>1 DEF AddDocument, MigrationTypeOK, runVars
  <2>2. ASSUME NEW s \in Servers, HasFts(s) \/ RestartServer(s) PROVE MigrationTypeOK'
    BY <2>2 DEF HasFts, RestartServer, MigrationTypeOK, dbVars, runVars
  <2>3. CASE UNCHANGED migrationVars
    BY <2>3 DEF migrationVars, MigrationTypeOK
  <2>4. QED
    BY <2>1, <2>2, <2>3, StepsKeepType DEF MigrationNext
<1>3. QED
  BY <1>1, <1>2, PTL DEF MigrationSpec

-----------------------------------------------------------------------------
(* The inductive invariant. *)

\* What a runner has passed is there.
Passed ==
    \A m \in Runners :
        /\ statement[m] \in {"update", "commitUpdate", "sqlite_master", "create", "rebuild",
                            "commitRebuild", "done"} => column
        /\ statement[m] \in {"rebuild", "commitRebuild", "done"} => fts # NoTable
        /\ backfills[m] <= backfilled

\* A server that knows the table is right.
KnownRight == \A s \in Servers : ftsAvailable[s] = "yes" => fts # NoTable

MigrationInv == MigrationTypeOK /\ Passed /\ KnownRight

LEMMA StepsKeepInvariant ==
    ASSUME MigrationInv, NEW m \in Runners,
           \/ Migrate(m) \/ TableInfo(m) \/ AddColumn(m) \/ Update(m) \/ CommitUpdate(m)
           \/ LookForTable(m) \/ CreateTable(m) \/ Rebuild(m) \/ CommitRebuild(m) \/ EndsEarly(m)
    PROVE  Passed' /\ KnownRight'
<1> USE MigrationAssumption
    DEF MigrationInv, MigrationTypeOK, Passed, KnownRight, Continue, dbVars, runVars
<1>1. CASE Migrate(m) \/ TableInfo(m)
  BY <1>1 DEF Migrate, TableInfo
<1>2. CASE AddColumn(m) \/ Update(m)
  BY <1>2 DEF AddColumn, Update
<1>3. CASE CommitUpdate(m)
  BY <1>3 DEF CommitUpdate
<1>4. CASE LookForTable(m)
  BY <1>4 DEF LookForTable
<1>5. CASE CreateTable(m)
  BY <1>5 DEF CreateTable
<1>6. CASE Rebuild(m) \/ CommitRebuild(m)
  BY <1>6 DEF Rebuild, CommitRebuild
<1>7. CASE EndsEarly(m)
  BY <1>7 DEF EndsEarly
<1>8. QED
  BY <1>1, <1>2, <1>3, <1>4, <1>5, <1>6, <1>7

-----------------------------------------------------------------------------
(* The step that leaves a table unfilled. *)

\* Who is not filling the table cannot leave it unfilled, nor can who goes on.
LEMMA BystandersFill ==
    ASSUME MigrationTypeOK, NEW m \in Runners, NEW s \in Statements, Continue(m, s),
           Filling(m) => s \in {"rebuild", "commitRebuild"},
           UNCHANGED <<fts, created>>, ~LeftUnfilled
    PROVE  ~LeftUnfilled'
BY DEF MigrationTypeOK, Continue, Filling, LeftUnfilled

LEMMA OnlyCutsLeaveUnfilled ==
    ASSUME MigrationTypeOK, ~LeftUnfilled, LeftUnfilled', NEW m \in Runners,
           \/ Migrate(m) \/ TableInfo(m) \/ AddColumn(m) \/ Update(m) \/ CommitUpdate(m)
           \/ LookForTable(m) \/ CreateTable(m) \/ Rebuild(m) \/ CommitRebuild(m) \/ EndsEarly(m)
    PROVE  Filling(m) /\ statement'[m] = "idle"
<1> USE DEF Statements, dbVars, runVars
<1>1. CASE Migrate(m) \/ TableInfo(m) \/ AddColumn(m) \/ Update(m) \/ CommitUpdate(m) \/ LookForTable(m)
  <2>1. ~Filling(m) /\ UNCHANGED <<fts, created>>
    BY <1>1 DEF Migrate, TableInfo, AddColumn, Update, CommitUpdate, LookForTable, Filling
  <2>2. \E s \in Statements : Continue(m, s)
    BY <1>1 DEF Migrate, TableInfo, AddColumn, Update, CommitUpdate, LookForTable
  <2>3. QED
    BY <2>1, <2>2, BystandersFill
<1>2. CASE CreateTable(m)
  <2>1. CASE fts = NoTable
    <3>1. statement'[m] = "rebuild"
      BY <1>2, <2>1 DEF CreateTable, Continue, MigrationTypeOK
    <3>2. QED
      BY <3>1 DEF LeftUnfilled, Filling
  <2>2. CASE fts # NoTable
    <3>1. ~Filling(m) /\ UNCHANGED <<fts, created>> /\ Continue(m, "idle")
      BY <1>2, <2>2 DEF CreateTable, Filling
    <3>2. QED
      BY <3>1, BystandersFill
  <2>3. QED
    BY <2>1, <2>2
<1>3. CASE Rebuild(m)
  <2>1. UNCHANGED <<fts, created>> /\ Continue(m, "commitRebuild")
    BY <1>3 DEF Rebuild
  <2>2. QED
    BY <2>1, BystandersFill
<1>4. CASE CommitRebuild(m)
  <2>1. fts' = docs /\ created' = created /\ created \in 0..docs /\ docs \in Nat
    BY <1>4 DEF CommitRebuild, MigrationTypeOK
  <2>2. QED
    BY <2>1 DEF LeftUnfilled
<1>5. CASE EndsEarly(m)
  <2>1. UNCHANGED <<fts, created>> /\ Continue(m, "idle")
    BY <1>5 DEF EndsEarly
  <2>2. Filling(m)
    BY <2>1, BystandersFill
  <2>3. QED
    BY <2>1, <2>2 DEF Continue, MigrationTypeOK
<1>6. QED
  BY <1>1, <1>2, <1>3, <1>4, <1>5

\* For any number of migrations, beside each other or ended early: one that is
\* done leaves column, flags and table, no server searches a table that is not
\* there, and only a migration that ends early while it is filling the table
\* leaves it without documents that were there when it was created.
THEOREM DoneIsComplete == MigrationSpec => MigrationComplete
<1>1. MigrationInit /\ MigrationTypeOK => MigrationInv
  BY DEF MigrationInit, MigrationInv, Passed, KnownRight
<1>2. MigrationInv /\ MigrationTypeOK' /\ [MigrationNext]_migrationVars => MigrationInv'
  <2> SUFFICES ASSUME MigrationInv, [MigrationNext]_migrationVars PROVE Passed' /\ KnownRight'
    BY DEF MigrationInv
  <2>1. CASE AddDocument
    BY <2>1 DEF AddDocument, MigrationInv, Passed, KnownRight, runVars
  <2>2. ASSUME NEW s \in Servers, HasFts(s) \/ RestartServer(s)
        PROVE  Passed' /\ KnownRight'
    BY <2>2 DEF HasFts, RestartServer, MigrationInv, MigrationTypeOK, Passed, KnownRight,
                dbVars, runVars
  <2>3. CASE UNCHANGED migrationVars
    BY <2>3 DEF migrationVars, MigrationInv, Passed, KnownRight
  <2>4. QED
    BY <2>1, <2>2, <2>3, StepsKeepInvariant DEF MigrationNext
<1>3. MigrationInv => DoneIsDone
  BY DEF MigrationInv, Passed, KnownRight, DoneIsDone
<1>4. MigrationInv /\ [MigrationNext]_migrationVars
        => [~LeftUnfilled /\ LeftUnfilled' =>
                \E m \in Runners : Filling(m) /\ statement'[m] = "idle"]_migrationVars
  <2> SUFFICES ASSUME MigrationTypeOK, MigrationNext, ~LeftUnfilled, LeftUnfilled'
               PROVE  \E m \in Runners : Filling(m) /\ statement'[m] = "idle"
    BY DEF MigrationInv
  <2>1. CASE AddDocument
    BY <2>1 DEF AddDocument, LeftUnfilled, Filling, runVars
  <2>2. ASSUME NEW s \in Servers, HasFts(s) \/ RestartServer(s) PROVE FALSE
    BY <2>2 DEF HasFts, RestartServer, LeftUnfilled, Filling, dbVars, runVars
  <2>3. QED
    BY <2>1, <2>2, OnlyCutsLeaveUnfilled DEF MigrationNext
<1>5. QED
  BY <1>1, <1>2, <1>3, <1>4, MigrationTypes, PTL DEF MigrationSpec, MigrationComplete
==============================================================================
