----------------------------- MODULE Migration -----------------------------
(***************************************************************************)
(* UnobInterface.run_migration, behind the command migrate, and the two    *)
(* things that depend on it: the has_redactions filter and the search of   *)
(* running server processes, each of which asks once whether the FTS table *)
(* exists.  The database is shared with other migrations and with the      *)
(* Unobfuscator, which adds documents and knows neither column nor index.  *)
(*                                                                         *)
(* An action is one SQL statement.  sqlite3 opens a transaction before the *)
(* UPDATE and the INSERT only: ALTER TABLE and CREATE VIRTUAL TABLE commit *)
(* by themselves.  A migration that ends early, by an exception or a crash,*)
(* loses its open transaction and nothing else.                            *)
(*                                                                         *)
(* Abstractions.  Documents are numbered in the order they were added.     *)
(***************************************************************************)
EXTENDS Naturals

CONSTANTS Runners,    \* processes that run migrate
          Servers,    \* server processes
          NoTable,    \* documents_fts does not exist
          Nobody,     \* no open write transaction
          MaxDocs,    \* bound: documents added
          MaxRuns     \* bound: migrations

ASSUME MigrationAssumption ==
    /\ NoTable \notin Nat
    /\ Nobody \notin Runners
    /\ MaxDocs \in Nat

VARIABLES docs,       \* documents so far
          column,     \* documents.has_redactions exists
          backfilled, \* documents up to this one have it set
          fts,        \* documents up to this one are in documents_fts
          migrator,   \* whose write transaction is open
          statement,  \* the statement each runner is at
          ftsAvailable, \* each server's _fts_available
          created,    \* documents when documents_fts was created
          backfills,  \* documents at each runner's backfill
          runs        \* migrations so far

migrationVars == <<docs, column, backfilled, fts, migrator, statement, ftsAvailable, created,
                   backfills, runs>>

Statements == {"idle", "table_info", "alter", "update", "commitUpdate", "sqlite_master",
               "create", "rebuild", "commitRebuild", "done"}

MigrationInit ==
    /\ docs = 1
    /\ column = FALSE /\ backfilled = 0 /\ fts = NoTable
    /\ migrator = Nobody
    /\ statement = [m \in Runners |-> "idle"]
    /\ ftsAvailable = [s \in Servers |-> "unknown"]
    /\ created = 0 /\ backfills = [m \in Runners |-> 0]
    /\ runs = 0

Continue(m, s) == statement' = [statement EXCEPT ![m] = s]
dbVars == <<docs, column, backfilled, fts>>
runVars == <<created, backfills, runs>>

Migrate(m) ==
    /\ statement[m] \in {"idle", "done"}
    /\ runs < MaxRuns
    /\ runs' = runs + 1
    /\ Continue(m, "table_info")
    /\ UNCHANGED <<dbVars, migrator, ftsAvailable, created, backfills>>

TableInfo(m) ==
    /\ statement[m] = "table_info"
    /\ Continue(m, IF column THEN "update" ELSE "alter")
    /\ UNCHANGED <<dbVars, migrator, ftsAvailable, runVars>>

\* "duplicate column name" when another migration was faster.
AddColumn(m) ==
    /\ statement[m] = "alter" /\ migrator = Nobody
    /\ Continue(m, IF column THEN "idle" ELSE "update")
    /\ column' = TRUE
    /\ UNCHANGED <<docs, backfilled, fts, migrator, ftsAvailable, runVars>>

Update(m) ==
    /\ statement[m] = "update" /\ migrator = Nobody
    /\ migrator' = m
    /\ Continue(m, "commitUpdate")
    /\ UNCHANGED <<dbVars, ftsAvailable, runVars>>

CommitUpdate(m) ==
    /\ statement[m] = "commitUpdate"
    /\ migrator' = Nobody
    /\ backfilled' = docs
    /\ backfills' = [backfills EXCEPT ![m] = docs]
    /\ Continue(m, "sqlite_master")
    /\ UNCHANGED <<docs, column, fts, ftsAvailable, created, runs>>

\* A table that exists is taken for complete.
LookForTable(m) ==
    /\ statement[m] = "sqlite_master"
    /\ Continue(m, IF fts = NoTable THEN "create" ELSE "done")
    /\ UNCHANGED <<dbVars, migrator, ftsAvailable, runVars>>

\* "table documents_fts already exists"
CreateTable(m) ==
    /\ statement[m] = "create" /\ migrator = Nobody
    /\ IF fts = NoTable
       THEN fts' = 0 /\ created' = docs /\ Continue(m, "rebuild")
       ELSE UNCHANGED <<fts, created>> /\ Continue(m, "idle")
    /\ UNCHANGED <<docs, column, backfilled, migrator, ftsAvailable, backfills, runs>>

Rebuild(m) ==
    /\ statement[m] = "rebuild" /\ migrator = Nobody
    /\ migrator' = m
    /\ Continue(m, "commitRebuild")
    /\ UNCHANGED <<dbVars, ftsAvailable, runVars>>

\* Mutant: without the commit.
CommitRebuildLost(m) ==
    /\ statement[m] = "commitRebuild"
    /\ migrator' = Nobody
    /\ Continue(m, "done")
    /\ UNCHANGED <<dbVars, ftsAvailable, runVars>>

CommitRebuild(m) ==
    /\ statement[m] = "commitRebuild"
    /\ migrator' = Nobody
    /\ fts' = docs
    /\ Continue(m, "done")
    /\ UNCHANGED <<docs, column, backfilled, ftsAvailable, runVars>>

\* "database is locked" for 30 s, a full disk, Ctrl-C, a crash.
EndsEarly(m) ==
    /\ statement[m] \notin {"idle", "done"}
    /\ Continue(m, "idle")
    /\ migrator' = IF migrator = m THEN Nobody ELSE migrator
    /\ UNCHANGED <<dbVars, ftsAvailable, runVars>>

\* The Unobfuscator.
AddDocument ==
    /\ migrator = Nobody /\ docs < MaxDocs
    /\ docs' = docs + 1
    /\ UNCHANGED <<column, backfilled, fts, migrator, statement, ftsAvailable, runVars>>

\* The first search of a server process; an OperationalError counts as "no".
HasFts(s) ==
    /\ ftsAvailable[s] = "unknown"
    /\ \E answer \in {"no", IF fts = NoTable THEN "no" ELSE "yes"} :
          ftsAvailable' = [ftsAvailable EXCEPT ![s] = answer]
    /\ UNCHANGED <<dbVars, migrator, statement, runVars>>

RestartServer(s) ==
    /\ ftsAvailable' = [ftsAvailable EXCEPT ![s] = "unknown"]
    /\ UNCHANGED <<dbVars, migrator, statement, runVars>>

MigrationNext ==
    \/ \E m \in Runners :
          \/ Migrate(m) \/ TableInfo(m) \/ AddColumn(m) \/ Update(m) \/ CommitUpdate(m)
          \/ LookForTable(m) \/ CreateTable(m) \/ Rebuild(m) \/ CommitRebuild(m) \/ EndsEarly(m)
    \/ AddDocument
    \/ \E s \in Servers : HasFts(s) \/ RestartServer(s)

MigrationSpec == MigrationInit /\ [][MigrationNext]_migrationVars
-----------------------------------------------------------------------------
(* Properties. *)

MigrationTypeOK ==
    /\ docs \in Nat /\ backfilled \in 0..docs
    /\ column \in BOOLEAN /\ fts \in 0..docs \union {NoTable}
    /\ migrator \in Runners \union {Nobody}
    /\ statement \in [Runners -> Statements]
    /\ ftsAvailable \in [Servers -> {"unknown", "yes", "no"}]
    /\ created \in 0..docs /\ backfills \in [Runners -> 0..docs]
    /\ runs \in Nat

\* After a migration that said "Done.", whatever others ran beside it or ended
\* early before it, column and table are there, and every document of its time
\* has its flag; a server that searches with the table has one.
DoneIsDone ==
    /\ \A m \in Runners : statement[m] = "done" =>
          column /\ fts # NoTable /\ backfills[m] <= backfilled
    /\ \A s \in Servers : ftsAvailable[s] = "yes" => fts # NoTable

\* Documents older than the table are not in it, and nobody is filling it.
Filling(m) == statement[m] \in {"rebuild", "commitRebuild"}
LeftUnfilled == fts # NoTable /\ fts < created /\ \A m \in Runners : ~Filling(m)

\* "Idempotent" as far as the code goes: DoneIsDone, and a table is left unfilled
\* by no step but one, that the migration that is filling it ends early.
MigrationComplete ==
    /\ []DoneIsDone
    /\ [][~LeftUnfilled /\ LeftUnfilled' =>
              \E m \in Runners : Filling(m) /\ statement'[m] = "idle"]_migrationVars

\* "Idempotent", "safe to run multiple times"; when the Unobfuscator has added
\* documents "the migration command handles the rebuild": when no migration is
\* under way, what a migration that is done found there can be searched for.
\* The code violates this: it takes any table for a complete one.
RebuildIsHandled ==
    (\A m \in Runners : statement[m] \in {"idle", "done"}) =>
        \A m \in Runners : statement[m] = "done" => fts # NoTable /\ backfills[m] <= fts
=============================================================================
