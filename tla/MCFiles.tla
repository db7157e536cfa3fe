------------------------------ MODULE MCFiles ------------------------------
(* The three programs that share nothing but files with others: the builds *)
(* of the entity index, the commands start and stop, and migrate.  A       *)
(* behaviour is one of them, beside the others at rest.                    *)
EXTENDS MCEntityIndex, PidFile, Migration

VARIABLE part   \* which of the three

MCFilesInit ==
    /\ part \in {"index", "daemon", "migrate"}
    /\ IndexInit /\ PidInit /\ MigrationInit
    /\ part # "index" => zone = West

MCFilesNext ==
    /\ UNCHANGED part
    /\ \/ part = "index" /\ IndexNext /\ UNCHANGED <<pidVars, migrationVars>>
       \/ part = "daemon" /\ PidNext /\ UNCHANGED <<indexVars, migrationVars>>
       \/ part = "migrate" /\ MigrationNext /\ UNCHANGED <<indexVars, pidVars>>

MCFilesSpec == MCFilesInit /\ [][MCFilesNext]_<<part, indexVars, pidVars, migrationVars>>

\* A start, a stop and another start; a migration after another.
ASSUME MCFilesAssumption == MaxCommands > 2 /\ MaxRuns > 1
=============================================================================
